------------------------------- MODULE ParFunc -------------------------------
(***************************************************************************)
(* The thread benchmark of actor-examples/class-perf.cpp: time_par_func    *)
(* fills a queue, starts threads that each run par_func, tells them to     *)
(* stop and joins them.  A thread pops work under the mutex and spins for  *)
(* each item outside of it.  The section under the mutex is one step: the  *)
(* queues are touched nowhere else while threads run.  The queues and the  *)
(* flag are globals, used again for the next configuration (ClassPerf).    *)
(***************************************************************************)
EXTENDS Integers, FiniteSets, Functions

CONSTANTS Threads,      \* threads there can be
          Iterations    \* items of work in the queue

ASSUME BenchmarkAssumption == /\ Iterations \in Nat
                              /\ Threads # {} /\ IsFiniteSet(Threads)

VARIABLES threads,         \* the par_threads threads of this configuration
          g_queue,         \* the number of items left
          g_count_queue,   \* items popped, by thread
          g_par_continue,
          mpc,             \* time_par_func: "begin", "prime", "start", "join", "done"
          started,         \* threads created
          num_read,        \* items a thread has popped and not yet spun for
          spun,            \* history: items a thread has spun for
          returned         \* threads whose par_func has returned

globals == <<g_queue, g_count_queue, g_par_continue>>
threadVars == <<started, num_read, spun, returned>>
vars == <<threads, globals, mpc, threadVars>>

None == [t \in Threads |-> 0]

Init == /\ threads = {}
        /\ g_queue = 0
        /\ g_count_queue = None
        /\ g_par_continue = FALSE
        /\ mpc = "begin"
        /\ started = {}
        /\ num_read = None
        /\ spun = None
        /\ returned = {}

\* Nothing is left of the configuration before.
Begin ==
  /\ mpc = "begin"
  /\ threads' \in SUBSET Threads
  /\ g_queue' = 0
  /\ g_count_queue' = None
  /\ g_par_continue' = TRUE
  /\ started' = {} /\ num_read' = None /\ spun' = None /\ returned' = {}
  /\ mpc' = "prime"

Prime ==
  /\ mpc = "prime"
  /\ g_queue' = g_queue + Iterations
  /\ mpc' = "start"
  /\ UNCHANGED <<threads, g_count_queue, g_par_continue, threadVars>>

StartThread(t) ==
  /\ mpc = "start"
  /\ t \in threads \ started
  /\ started' = started \cup {t}
  /\ UNCHANGED <<threads, globals, mpc, num_read, spun, returned>>

Stop ==
  /\ mpc = "start"
  /\ started = threads
  /\ g_par_continue' = FALSE
  /\ mpc' = "join"
  /\ UNCHANGED <<threads, g_queue, g_count_queue, threadVars>>

Join ==
  /\ mpc = "join"
  /\ returned = threads
  /\ mpc' = "done"
  /\ UNCHANGED <<threads, globals, threadVars>>

\* A single thread reads everything at once, one of several reads one item.
MaxToRead == IF Cardinality(threads) = 1 THEN g_queue ELSE 1

Running(t) == t \in started \ returned /\ num_read[t] = 0

\* Mutation of Return: the queue is not looked at.
ReturnWhenStopped(t) ==
  /\ Running(t)
  /\ ~g_par_continue
  /\ returned' = returned \cup {t}
  /\ UNCHANGED <<threads, globals, mpc, started, num_read, spun>>

\* Mutation of Return: the flag is not looked at before work is there.
ReturnNever(t) ==
  /\ Running(t)
  /\ ~g_par_continue
  /\ g_queue > 0
  /\ returned' = returned \cup {t}
  /\ UNCHANGED <<threads, globals, mpc, started, num_read, spun>>

Return(t) ==
  /\ Running(t)
  /\ ~g_par_continue
  /\ g_queue = 0
  /\ returned' = returned \cup {t}
  /\ UNCHANGED <<threads, globals, mpc, started, num_read, spun>>

\* With an empty queue nothing is read and the loop goes round: a stutter.
Read(t) ==
  /\ Running(t)
  /\ g_queue > 0
  /\ LET n == IF MaxToRead < g_queue THEN MaxToRead ELSE g_queue
     IN /\ g_queue' = g_queue - n
        /\ g_count_queue' = [g_count_queue EXCEPT ![t] = @ + n]
        /\ num_read' = [num_read EXCEPT ![t] = n]
  /\ UNCHANGED <<threads, g_par_continue, mpc, started, spun, returned>>

Spin(t) ==
  /\ num_read[t] > 0
  /\ num_read' = [num_read EXCEPT ![t] = @ - 1]
  /\ spun' = [spun EXCEPT ![t] = @ + 1]
  /\ UNCHANGED <<threads, globals, mpc, started, returned>>

Main == Begin \/ Prime \/ Stop \/ Join \/ \E t \in Threads : StartThread(t)
Thread(t) == Return(t) \/ Read(t) \/ Spin(t)

Next == Main \/ \E t \in Threads : Thread(t)

-----------------------------------------------------------------------------

\* When the time is taken all work of this configuration has been done, and no
\* other: the threads have spun once for every item, and the count that is
\* reported is the number of items.  (With no thread nothing is done.)
AllWorkDone ==
  (mpc = "done" /\ threads # {}) => /\ SumFunction(spun) = Iterations
                                   /\ SumFunction(g_count_queue) = Iterations
=============================================================================
