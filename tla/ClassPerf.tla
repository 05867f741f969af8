----------------------------- MODULE ClassPerf -----------------------------
(***************************************************************************)
(* harness and caf_main of actor-examples/class-perf.cpp: for every        *)
(* configuration the thread benchmark and then the actor benchmark.  Both  *)
(* keep state in globals.                                                  *)
(***************************************************************************)
EXTENDS ParFunc

CONSTANTS PoolSize,
          Configurations   \* how many configurations are measured

ASSUME ConfigurationsAssumption == PoolSize \in Nat \ {0} /\ Configurations \in Nat

VARIABLES measured,        \* configurations measured
          pool_mpc, send_count, work_count, box, busy, exiting, exited,
          counter_box, counter, answer

Pool == INSTANCE ActorPool WITH mpc <- pool_mpc

workerVars == <<box, busy, exiting, exited>>
poolVars == <<pool_mpc, send_count, work_count, workerVars, counter_box, counter, answer>>
allVars == <<vars, poolVars, measured>>

InitPerf == Init /\ Pool!Init /\ measured = 0

Parallel(A) == A /\ UNCHANGED <<poolVars, measured>>

\* time_par_func has returned.
Pooled(A) == mpc = "done" /\ A /\ UNCHANGED <<vars, measured>>

NextConfiguration ==
  /\ pool_mpc = "done"
  /\ measured < Configurations - 1
  /\ measured' = measured + 1
  /\ mpc' = "begin"
  /\ pool_mpc' = "begin"
  /\ UNCHANGED <<threads, globals, threadVars, send_count, work_count, workerVars,
                 counter_box, counter, answer>>

NextPerf == Parallel(Next) \/ Pooled(Pool!Next) \/ NextConfiguration

\* The main thread runs, all threads are scheduled, and so is an actor that has
\* messages.  A thread that waits for the mutex may be overtaken by others, but only
\* while there is work or until they have returned.
Fairness == /\ WF_allVars(Parallel(Main)) /\ WF_allVars(Pooled(Pool!Main))
            /\ WF_allVars(NextConfiguration)
            /\ \A t \in Threads : WF_allVars(Parallel(Thread(t)))
            /\ WF_allVars(Pooled(Pool!Counter))
            /\ \A w \in Pool!Workers : WF_allVars(Pooled(Pool!Worker(w)))

Spec == InitPerf /\ [][NextPerf]_allVars /\ Fairness

-----------------------------------------------------------------------------

\* Exit messages overtake work, so ending the actors is right only because there
\* is none left, whatever the globals held at the start.
NothingCutOff == Pool!NothingCutOff

\* Every configuration is measured: no thread spins forever on the queue and the
\* flag, the questions to the counter stop, and all actors exit.
Ends == <>(measured = Configurations - 1 /\ pool_mpc = "done")
=============================================================================
