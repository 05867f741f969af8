------------------------------ MODULE ActorPool ------------------------------
(***************************************************************************)
(* The actor benchmark of actor-examples/class-perf.cpp: time_actor_pool   *)
(* sends work to a pool, which hands it to its workers in turn; a worker   *)
(* tells the counter and spins.  The main thread asks the counter until    *)
(* all work has been counted, then ends the counter and the pool and waits *)
(* for all actors.  The two counts of main are globals, used again for the *)
(* next configuration (ClassPerf).                                         *)
(*                                                                         *)
(* The runtime: an actor's messages of one priority are first in, first    *)
(* out; exit messages have high priority, so an actor may exit with work   *)
(* in its mailbox, which is then gone.                                     *)
(***************************************************************************)
EXTENDS Integers, Sequences, Functions

CONSTANTS PoolSize,     \* actor_pool_size
          Iterations    \* work sent

Workers == 1 .. PoolSize

VARIABLES mpc,          \* time_actor_pool: "begin", "send", "ask", "wait", "end counter", "end pool",
                        \* "await", "done"
          send_count,   \* g_actor_pool_send_count
          work_count,   \* g_actor_pool_work_count: the counter's last answer
          box,          \* work waiting at each worker
          busy,         \* the workers that are spinning
          exiting,      \* the workers with an exit message
          exited,
          counter_box,  \* the counter's mailbox: "work" and "report"
          counter,      \* its count; -1 once it has exited
          answer        \* the answer on its way to main, or -1

vars == <<mpc, send_count, work_count, box, busy, exiting, exited, counter_box, counter, answer>>
workerVars == <<box, busy, exiting, exited>>

Init == /\ mpc = "begin"
        /\ send_count = 0 /\ work_count = 0
        /\ box = [w \in Workers |-> 0]
        /\ busy = {} /\ exiting = {} /\ exited = Workers
        /\ counter_box = <<>> /\ counter = -1 /\ answer = -1

\* Mutation of Begin: the count of the configuration before is still there.
BeginWithCount ==
  /\ mpc = "begin"
  /\ send_count' = 0
  /\ counter' = 0
  /\ box' = [w \in Workers |-> 0]
  /\ busy' = {} /\ exiting' = {} /\ exited' = {}
  /\ counter_box' = <<>> /\ answer' = -1
  /\ mpc' = "send"
  /\ UNCHANGED work_count

\* New counts, a new counter and new workers.
Begin ==
  /\ mpc = "begin"
  /\ send_count' = 0 /\ work_count' = 0
  /\ counter' = 0
  /\ box' = [w \in Workers |-> 0]
  /\ busy' = {} /\ exiting' = {} /\ exited' = {}
  /\ counter_box' = <<>> /\ answer' = -1
  /\ mpc' = "send"

\* round_robin: the pool hands over the n-th work in the sender's thread.
NextWorker == (send_count % PoolSize) + 1

SendWork ==
  /\ mpc = "send"
  /\ send_count < Iterations
  /\ box' = [box EXCEPT ![NextWorker] = @ + 1]
  /\ send_count' = send_count + 1
  /\ UNCHANGED <<mpc, work_count, busy, exiting, exited, counter_box, counter, answer>>

Test == IF work_count < send_count THEN "ask" ELSE "end counter"

AllSent ==
  /\ mpc = "send"
  /\ send_count = Iterations
  /\ mpc' = Test
  /\ UNCHANGED <<send_count, work_count, workerVars, counter_box, counter, answer>>

Ask ==
  /\ mpc = "ask"
  /\ counter_box' = Append(counter_box, "report")
  /\ mpc' = "wait"
  /\ UNCHANGED <<send_count, work_count, workerVars, counter, answer>>

Receive ==
  /\ mpc = "wait"
  /\ answer # -1
  /\ work_count' = answer
  /\ answer' = -1
  /\ mpc' = IF answer < send_count THEN "ask" ELSE "end counter"
  /\ UNCHANGED <<send_count, workerVars, counter_box, counter>>

\* The counter's exit message overtakes whatever is in its mailbox.
EndCounter ==
  /\ mpc = "end counter"
  /\ counter' = -1
  /\ mpc' = "end pool"
  /\ UNCHANGED <<send_count, work_count, workerVars, counter_box, answer>>

\* The pool passes the exit message on to its workers.
EndPool ==
  /\ mpc = "end pool"
  /\ exiting' = Workers
  /\ mpc' = "await"
  /\ UNCHANGED <<send_count, work_count, box, busy, exited, counter_box, counter, answer>>

AllDone ==
  /\ mpc = "await"
  /\ exited = Workers
  /\ mpc' = "done"
  /\ UNCHANGED <<send_count, work_count, workerVars, counter_box, counter, answer>>

\* posh_pool: the counter is told first, then the worker spins.
Work(w) ==
  /\ w \notin busy \cup exited
  /\ box[w] > 0
  /\ box' = [box EXCEPT ![w] = @ - 1]
  /\ counter_box' = Append(counter_box, "work")
  /\ busy' = busy \cup {w}
  /\ UNCHANGED <<mpc, send_count, work_count, exiting, exited, counter, answer>>

Spin(w) ==
  /\ w \in busy
  /\ busy' = busy \ {w}
  /\ UNCHANGED <<mpc, send_count, work_count, box, exiting, exited, counter_box, counter, answer>>

WorkerExits(w) ==
  /\ w \in exiting \ (busy \cup exited)
  /\ exited' = exited \cup {w}
  /\ UNCHANGED <<mpc, send_count, work_count, box, busy, exiting, counter_box, counter, answer>>

\* posh_counter
Count ==
  /\ counter # -1
  /\ counter_box # <<>> /\ Head(counter_box) = "work"
  /\ counter' = counter + 1
  /\ counter_box' = Tail(counter_box)
  /\ UNCHANGED <<mpc, send_count, work_count, workerVars, answer>>

Report ==
  /\ counter # -1
  /\ counter_box # <<>> /\ Head(counter_box) = "report"
  /\ answer' = counter
  /\ counter_box' = Tail(counter_box)
  /\ UNCHANGED <<mpc, send_count, work_count, workerVars, counter>>

Main == Begin \/ SendWork \/ AllSent \/ Ask \/ Receive \/ EndCounter \/ EndPool \/ AllDone
Counter == Count \/ Report
Worker(w) == Work(w) \/ Spin(w) \/ WorkerExits(w)

Next == Main \/ Counter \/ \E w \in Workers : Worker(w)

-----------------------------------------------------------------------------

\* Exit messages overtake work, so ending the actors is safe only because there
\* is none left: from the moment main ends the counter, no work waits anywhere,
\* neither at a worker nor as a message to the counter.
NothingCutOff ==
  mpc \in {"end counter", "end pool", "await", "done"} =>
    /\ SumFunction(box) = 0
    /\ counter_box = <<>>
    /\ work_count = send_count
=============================================================================
