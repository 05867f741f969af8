------------------------------ MODULE DarkPool ------------------------------
(***************************************************************************)
(* How orders reach the matching engines: the main thread reads batches of *)
(* lines, groups a batch by engine and hands each engine its group; every  *)
(* engine is a thread that pulls whatever is queued and works through it;  *)
(* at the end the main thread terminates the engines, joins them and dumps *)
(* the open orders.  With concurrency 0 the main thread runs the engine's  *)
(* loop itself after every group it hands over.                            *)
(*                                                                         *)
(* An order is known by its line number.  What an engine does with it is   *)
(* module MatchingEngine; here it is appended to what the engine processed.*)
(***************************************************************************)
EXTENDS Integers, Sequences, Functions

CONSTANTS Lines,        \* what is on a line: its instrument, or more
          Malformed,    \* a line from_string rejects
          Inputs,       \* the inputs to read: bounds their length
          Engines,      \* all engines of any setup
          Setups,       \* what the command line may ask for, see PoolAssumption
          None

ASSUME PoolAssumption ==
  /\ \A s \in Setups : /\ s.batch_size \in Int
                       /\ s.concurrency \in Int
                       /\ s.engines \subseteq Engines
                       /\ s.find_engine \in [Lines -> s.engines]
  /\ Malformed \notin Lines /\ Malformed \notin Engines
  /\ Inputs \subseteq Seq(Lines \cup {Malformed})
  /\ None \notin Engines

VARIABLES
  \* given, never changes
  input,             \* the lines of the stream
  setup,             \* batch size, concurrency, the engines and the routing built for it
  \* the main thread: DarkPoolService::run and OrderRouter::event_loop
  rpc,               \* where it is
  read,              \* lines taken from the stream
  routed,            \* lines moved into a group; routed+1 .. read is the vector "orders"
  more_orders,
  groups,            \* the batch by engine
  target,            \* the engine of the group being handed over
  \* the engines
  epc,               \* where process_queued_orders is
  incoming_orders, order_mutex, terminate,
  internal_queue,
  processed          \* history: the lines the engine has processed

given == <<input, setup>>
routerVars == <<rpc, read, routed, more_orders, groups, target>>
engineVars == <<epc, internal_queue, processed>>
sharedVars == <<incoming_orders, order_mutex, terminate>>
vars == <<given, routerVars, engineVars, sharedVars>>

Init ==
  /\ input \in Inputs
  /\ setup \in Setups
  /\ rpc = "spawn"
  /\ read = 0
  /\ routed = 0
  /\ more_orders = TRUE
  /\ groups = [e \in Engines |-> <<>>]
  /\ target = None
  /\ epc = [e \in Engines |-> "idle"]
  /\ incoming_orders = [e \in Engines |-> <<>>]
  /\ order_mutex = [e \in Engines |-> "free"]
  /\ terminate = [e \in Engines |-> FALSE]
  /\ internal_queue = [e \in Engines |-> <<>>]
  /\ processed = [e \in Engines |-> <<>>]

Concurrent == setup.concurrency > 0
BatchSize == setup.batch_size
get_engines == setup.engines
find_engine(line) == setup.find_engine[line]

\* Mutation of Lock: the mutex is taken without waiting for it.
LockAlways(e, who) == order_mutex' = [order_mutex EXCEPT ![e] = who]

\* Engines have a mutex only when they are concurrent.
Lock(e, who) == IF Concurrent
                THEN order_mutex[e] = "free" /\ order_mutex' = [order_mutex EXCEPT ![e] = who]
                ELSE UNCHANGED order_mutex
\* Mutation of Unlock: the mutex is kept.
UnlockForgotten(e) == UNCHANGED order_mutex

Unlock(e) == IF Concurrent
             THEN order_mutex' = [order_mutex EXCEPT ![e] = "free"]
             ELSE UNCHANGED order_mutex

-----------------------------------------------------------------------------
(* The main thread *)

SpawnThread(e) ==
  /\ rpc = "spawn"
  /\ Concurrent /\ e \in get_engines
  /\ epc[e] = "idle"
  /\ epc' = [epc EXCEPT ![e] = "pull"]
  /\ UNCHANGED <<given, routerVars, internal_queue, processed, sharedVars>>

StartLoop ==
  /\ rpc = "spawn"
  /\ Concurrent => \A e \in get_engines : epc[e] # "idle"
  /\ rpc' = "read"
  /\ UNCHANGED <<given, read, routed, more_orders, groups, target, engineVars, sharedVars>>

\* Mutation of Wanted: the sign of the batch size is not tested.
WantedUntested == read + BatchSize

\* get_orders asks for lines up to Wanted; the stream may end before.
Wanted == IF BatchSize > 0 THEN read + BatchSize ELSE read
LastRead == IF Wanted <= Len(input) THEN Wanted ELSE Len(input)

\* A batch without orders ends the loop, whatever get_orders returned.
GetOrders ==
  /\ rpc = "read"
  /\ \A p \in read + 1 .. LastRead : input[p] # Malformed
  /\ read' = LastRead
  /\ more_orders' = (Wanted <= Len(input))
  /\ rpc' = IF LastRead = read THEN "terminate" ELSE "route"
  /\ UNCHANGED <<given, routed, groups, target, engineVars, sharedVars>>

\* A line that does not parse is an exception nobody catches: the process
\* aborts, with the engines wherever they are.
BadLine ==
  /\ rpc = "read"
  /\ \E p \in read + 1 .. LastRead : input[p] = Malformed
  /\ rpc' = "aborted"
  /\ UNCHANGED <<given, read, routed, more_orders, groups, target, engineVars, sharedVars>>

RouteOne ==
  /\ rpc = "route"
  /\ LET e == find_engine(input[routed + 1])
     IN groups' = [groups EXCEPT ![e] = Append(@, routed + 1)]
  /\ routed' = routed + 1
  /\ rpc' = IF routed' = read THEN "deliver" ELSE "route"
  /\ UNCHANGED <<given, read, more_orders, target, engineVars, sharedVars>>

\* The groups are in a map ordered by the engines' addresses: any order.
NextGroup(e) ==
  /\ rpc = "deliver"
  /\ groups[e] # <<>>
  /\ target' = e
  /\ rpc' = "lock"
  /\ UNCHANGED <<given, read, routed, more_orders, groups, engineVars, sharedVars>>

LockQueue ==
  /\ rpc = "lock"
  /\ Lock(target, "router")
  /\ rpc' = "push"
  /\ UNCHANGED <<given, read, routed, more_orders, groups, target, engineVars,
                 incoming_orders, terminate>>

\* The rest of new_orders; without threads process_queued_orders is called next.
Push ==
  /\ rpc = "push"
  /\ incoming_orders' = [incoming_orders EXCEPT ![target] = @ \o groups[target]]
  /\ groups' = [groups EXCEPT ![target] = <<>>]
  /\ Unlock(target)
  /\ rpc' = IF Concurrent THEN "deliver" ELSE "inline"
  /\ epc' = IF Concurrent THEN epc ELSE [epc EXCEPT ![target] = "pull"]
  /\ UNCHANGED <<given, read, routed, more_orders, target, internal_queue, processed, terminate>>

EndOfBatch ==
  /\ rpc = "deliver"
  /\ \A e \in Engines : groups[e] = <<>>
  /\ rpc' = IF more_orders THEN "read" ELSE "terminate"
  /\ UNCHANGED <<given, read, routed, more_orders, groups, target, engineVars, sharedVars>>

TerminateProcessing(e) ==
  /\ rpc = "terminate"
  /\ Concurrent /\ e \in get_engines
  /\ ~terminate[e]
  /\ terminate' = [terminate EXCEPT ![e] = TRUE]
  /\ UNCHANGED <<given, routerVars, engineVars, incoming_orders, order_mutex>>

StartJoin ==
  /\ rpc = "terminate"
  /\ Concurrent => \A e \in get_engines : terminate[e]
  /\ rpc' = "join"
  /\ UNCHANGED <<given, read, routed, more_orders, groups, target, engineVars, sharedVars>>

\* Mutation of Joined: the threads are not waited for.
JoinedAtOnce(e) == TRUE

Joined(e) == epc[e] = "exited"

Join ==
  /\ rpc = "join"
  /\ Concurrent => \A e \in get_engines : Joined(e)
  /\ rpc' = "dump"
  /\ UNCHANGED <<given, read, routed, more_orders, groups, target, engineVars, sharedVars>>

DumpOrders ==
  /\ rpc = "dump"
  /\ rpc' = "done"
  /\ UNCHANGED <<given, read, routed, more_orders, groups, target, engineVars, sharedVars>>

-----------------------------------------------------------------------------
(* process_queued_orders of engine e, one iteration: pull (lock, copy, clear   *)
(* and unlock), process what was pulled, and decide whether to go on.          *)

Running(e, label) == rpc # "aborted" /\ epc[e] = label

PullLock(e) ==
  /\ Running(e, "pull")
  /\ Lock(e, "engine")
  /\ epc' = [epc EXCEPT ![e] = "copy"]
  /\ UNCHANGED <<given, routerVars, internal_queue, processed, incoming_orders, terminate>>

Copy(e) ==
  /\ Running(e, "copy")
  /\ internal_queue' = [internal_queue EXCEPT ![e] = incoming_orders[e]]
  /\ epc' = [epc EXCEPT ![e] = "clear"]
  /\ UNCHANGED <<given, routerVars, processed, sharedVars>>

ClearAndUnlock(e) ==
  /\ Running(e, "clear")
  /\ incoming_orders' = [incoming_orders EXCEPT ![e] = <<>>]
  /\ Unlock(e)
  /\ epc' = [epc EXCEPT ![e] = "process"]
  /\ UNCHANGED <<given, routerVars, internal_queue, processed, terminate>>

ProcessOrder(e) ==
  /\ Running(e, "process")
  /\ internal_queue[e] # <<>>
  /\ processed' = [processed EXCEPT ![e] = Append(@, Head(internal_queue[e]))]
  /\ internal_queue' = [internal_queue EXCEPT ![e] = Tail(@)]
  /\ UNCHANGED <<given, routerVars, epc, sharedVars>>

\* Mutation of AfterTest: the thread ends without another look at the queue.
AfterTestOnly(e) == IF terminate[e] THEN "exited" ELSE "pull"

\* terminate is read before the queue is looked at again.
AfterTest(e) == IF terminate[e] THEN "peek" ELSE "pull"

TestTerminate(e) ==
  /\ Running(e, "process")
  /\ Concurrent
  /\ internal_queue[e] = <<>>
  /\ epc' = [epc EXCEPT ![e] = AfterTest(e)]
  /\ UNCHANGED <<given, routerVars, internal_queue, processed, sharedVars>>

\* The size is read under the lock; nothing else is done with the lock held.
Peek(e) ==
  /\ Running(e, "peek")
  /\ order_mutex[e] = "free"
  /\ epc' = [epc EXCEPT ![e] = IF incoming_orders[e] = <<>> THEN "exited" ELSE "pull"]
  /\ UNCHANGED <<given, routerVars, internal_queue, processed, sharedVars>>

\* Without threads the loop ends after one iteration and event_loop goes on.
Return(e) ==
  /\ Running(e, "process")
  /\ ~Concurrent
  /\ internal_queue[e] = <<>>
  /\ epc' = [epc EXCEPT ![e] = "idle"]
  /\ rpc' = "deliver"
  /\ UNCHANGED <<given, read, routed, more_orders, groups, target, internal_queue,
                 processed, sharedVars>>

-----------------------------------------------------------------------------

Router == \/ StartLoop \/ GetOrders \/ BadLine \/ RouteOne \/ LockQueue \/ Push
          \/ EndOfBatch \/ StartJoin \/ Join \/ DumpOrders
          \/ \E e \in Engines : SpawnThread(e) \/ NextGroup(e) \/ TerminateProcessing(e)

Engine(e) == \/ PullLock(e) \/ Copy(e) \/ ClearAndUnlock(e) \/ ProcessOrder(e)
             \/ TestTerminate(e) \/ Peek(e) \/ Return(e)

Next == Router \/ \E e \in Engines : Engine(e)

\* Every thread that can run does.  An idle engine takes and releases its
\* mutex over and over, so weak fairness would let the main thread wait for it
\* forever; strong fairness says that a thread waiting for a mutex that is
\* free again and again gets it at some time.
Fairness == /\ WF_vars(Router)
            /\ SF_vars(LockQueue)
            /\ \A e \in Engines : WF_vars(Engine(e))

Spec == Init /\ [][Next]_vars
FairSpec == Spec /\ Fairness

-----------------------------------------------------------------------------

TypeOK ==
  /\ input \in Seq(Lines \cup {Malformed})
  /\ setup \in Setups
  /\ rpc \in {"spawn", "read", "route", "deliver", "lock", "push", "inline",
              "terminate", "join", "dump", "done", "aborted"}
  /\ read \in 0 .. Len(input)
  /\ routed \in 0 .. read
  /\ more_orders \in BOOLEAN
  /\ groups \in [Engines -> Seq(Nat)]
  /\ target \in Engines \cup {None}
  /\ epc \in [Engines -> {"idle", "pull", "copy", "clear", "process", "peek", "exited"}]
  /\ incoming_orders \in [Engines -> Seq(Nat)]
  /\ order_mutex \in [Engines -> {"free", "router", "engine"}]
  /\ terminate \in [Engines -> BOOLEAN]
  /\ internal_queue \in [Engines -> Seq(Nat)]
  /\ processed \in [Engines -> Seq(Nat)]

\* The queue of an engine is touched by one thread at a time: the main thread
\* is never pushing to an engine that is copying or clearing.
QueueExclusive ==
  \A e \in Engines : ~(rpc = "push" /\ target = e /\ epc[e] \in {"copy", "clear"})

\* Between the copy and the clear an order is in both queues; it counts once.
Waiting(e) == IF epc[e] = "clear" THEN <<>> ELSE incoming_orders[e]

\* Everything that has been routed to e, from done to just grouped.
Ledger(e) == processed[e] \o internal_queue[e] \o Waiting(e) \o groups[e]

Mine(e, n) == {p \in 1 .. n : input[p] # Malformed /\ find_engine(input[p]) = e}

Increasing(s) == \A i, j \in 1 .. Len(s) : i < j => s[i] < s[j]

\* No order is lost, duplicated, overtaken or given to the wrong engine on its
\* way: at every moment each engine's orders are its lines of the input so far,
\* each once and in the order of the input.
NothingLost == \A e \in Engines : /\ Increasing(Ledger(e))
                                  /\ Range(Ledger(e)) = Mine(e, routed)

\* When the open orders are dumped no engine is running, and each has
\* processed every line that was read for it, once and in the order of the
\* input.
DumpIsFinal ==
  rpc \in {"dump", "done"} =>
    \A e \in Engines : /\ epc[e] \in {"idle", "exited"}
                       /\ Increasing(processed[e])
                       /\ Range(processed[e]) = Mine(e, read)

\* README.md:5: the open orders are printed after all input is read.
WholeInputRead == (BatchSize > 0 /\ rpc = "done") => read = Len(input)

\* The program comes to an end, with a dump or with the abort.
Terminates == <>(rpc \in {"done", "aborted"})

Worker(line) == IF line = Malformed THEN Malformed ELSE find_engine(line)

Promise == INSTANCE InOrder
           WITH Workers  <- Engines,
                lines    <- [p \in DOMAIN input |-> Worker(input[p])],
                handled  <- processed,
                reported <- IF rpc = "done" THEN Engines ELSE {},
                stopped  <- rpc = "aborted"

\* The pipeline implements the promise of module InOrder, with any number of
\* threads.  A batch size below one reads nothing and dumps nothing; that is
\* the one way for the program to end without keeping it.
ImplementsInOrder ==
  Promise!Init /\ [][Promise!Next \/ BatchSize < 1]_(Promise!vars)

=============================================================================
