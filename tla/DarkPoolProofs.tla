--------------------------- MODULE DarkPoolProofs ---------------------------
(***************************************************************************)
(* Theorems about the order pipeline and about match-engine as a whole,    *)
(* for any engines, instruments and routing, any input, any batch size,    *)
(* with or without threads.                                                *)
(*                                                                         *)
(* What is proved of the pipeline rests on PoolAssumption only.  For the   *)
(* whole, every engine is compared with one matcher that takes the lines   *)
(* in turn: it always has the books that matcher had, of its instruments,  *)
(* when it came to the same line, and what it wrote with what it has yet   *)
(* to write is what that matcher had printed of them by then.              *)
(***************************************************************************)
EXTENDS Exchange, HeapProofs, SequenceTheorems, FiniteSetTheorems, TLAPS

-----------------------------------------------------------------------------
(* The inductive invariant *)

\* What the main thread's position says about its batch.
Phases ==
  /\ rpc = "route" => routed < read
  /\ rpc # "route" => routed = read
  /\ \A p \in 1 .. read : input[p] # Malformed
  /\ rpc \in {"lock", "push", "inline"} => target \in get_engines
  /\ rpc \notin {"route", "deliver", "lock", "push", "inline"} =>
       \A e \in Engines : groups[e] = <<>>

\* With threads, the holder of a mutex is where its position says.
Locking ==
  Concurrent =>
    /\ rpc # "inline"
    /\ \A e \in Engines :
         /\ order_mutex[e] = "engine" <=> epc[e] \in {"copy", "clear"}
         /\ order_mutex[e] = "router" <=> (rpc = "push" /\ target = e)
         /\ (rpc # "spawn" /\ e \in get_engines) => epc[e] # "idle"

\* Without threads, an engine runs only while the main thread is inside it,
\* and nothing is queued behind its back.
Calling ==
  ~Concurrent =>
    \A e \in Engines :
      /\ epc[e] # "idle" => rpc = "inline" /\ target = e
      /\ epc[e] \notin {"peek", "exited"}
      /\ epc[e] = "process" => incoming_orders[e] = <<>>

\* What an engine's position says about its queues.
Queues ==
  \A e \in Engines :
    /\ epc[e] = "clear" => internal_queue[e] = incoming_orders[e]
    /\ epc[e] \notin {"clear", "process"} => internal_queue[e] = <<>>
    /\ epc[e] = "idle" => incoming_orders[e] = <<>>
    /\ e \notin get_engines => epc[e] = "idle" /\ groups[e] = <<>>

\* An engine that saw terminate will not be given another order, so the empty
\* queue it saw under the lock stays empty.
Ending ==
  \A e \in Engines :
    /\ terminate[e] => rpc \in {"terminate", "join", "dump", "done"}
    /\ epc[e] \in {"peek", "exited"} => terminate[e]
    /\ epc[e] = "exited" => incoming_orders[e] = <<>>
    /\ (Concurrent /\ rpc \in {"dump", "done"} /\ e \in get_engines) => epc[e] = "exited"

\* A batch of at least one order stops short only at the end of the input.
Reading ==
  BatchSize > 0 =>
    /\ ~more_orders => read = Len(input)
    /\ rpc \in {"terminate", "join", "dump", "done"} => read = Len(input)

Control == Phases /\ Locking /\ Calling /\ Queues /\ Ending /\ Reading

Inv == TypeOK /\ Control /\ NothingLost

-----------------------------------------------------------------------------
(* The steps that keep types and control *)

LEMMA InitControl == Init => TypeOK /\ Control
  BY PoolAssumption
  DEF Init, TypeOK, Control, Phases, Locking, Calling, Queues, Ending, Reading

\* Every setup routes every instrument to one of its engines.
LEMMA Routes ==
  ASSUME setup \in Setups
  PROVE  /\ get_engines \subseteq Engines
         /\ \A i \in Lines : find_engine(i) \in get_engines
  BY PoolAssumption DEF get_engines, find_engine

LEMMA TypeStep ==
  ASSUME TypeOK, Control, [Next]_vars
  PROVE  TypeOK'
  <1> USE PoolAssumption DEF given, routerVars, engineVars, sharedVars, Concurrent, BatchSize, get_engines, find_engine
  <1>1. CASE StartLoop
    BY <1>1 DEF StartLoop, TypeOK
  <1>2. CASE GetOrders
    BY <1>2 DEF GetOrders, Wanted, LastRead, TypeOK, Control, Phases
  <1>3. CASE BadLine
    BY <1>3 DEF BadLine, Wanted, LastRead, TypeOK
  <1>4. CASE RouteOne
    <2>1. find_engine(input[routed + 1]) \in Engines
      <3>1. routed + 1 \in 1 .. read /\ routed + 1 \in 1 .. Len(input)
        BY <1>4 DEF RouteOne, TypeOK, Control, Phases
      <3>2. input[routed + 1] \in Lines
        BY <3>1 DEF TypeOK, Control, Phases
      <3>3. setup \in Setups
        BY DEF TypeOK
      <3> QED
        BY <3>2, <3>3, Routes
    <2>2. groups' \in [Engines -> Seq(Nat)] /\ routed' \in 0 .. read
      BY <1>4, <2>1 DEF RouteOne, TypeOK, Control, Phases
    <2> QED
      BY <1>4, <2>2 DEF RouteOne, TypeOK
  <1>5. CASE LockQueue
    BY <1>5 DEF LockQueue, Lock, TypeOK, Control, Phases
  <1>6. CASE Push
    <2>1. target \in Engines
      BY <1>6 DEF Push, TypeOK, Control, Phases
    <2>2. /\ incoming_orders' \in [Engines -> Seq(Nat)]
          /\ groups' \in [Engines -> Seq(Nat)]
      BY <1>6, <2>1 DEF Push, TypeOK
    <2>3. /\ order_mutex' \in [Engines -> {"free", "router", "engine"}]
          /\ epc' \in [Engines -> {"idle", "pull", "copy", "clear", "process", "peek", "exited"}]
      BY <1>6, <2>1 DEF Push, Unlock, TypeOK
    <2> QED
      BY <1>6, <2>2, <2>3 DEF Push, TypeOK
  <1>7. CASE EndOfBatch
    BY <1>7 DEF EndOfBatch, TypeOK
  <1>8. CASE StartJoin
    BY <1>8 DEF StartJoin, TypeOK
  <1>9. CASE Join
    BY <1>9 DEF Join, Joined, TypeOK
  <1>10. CASE DumpOrders
    BY <1>10 DEF DumpOrders, TypeOK
  <1>11. ASSUME NEW e \in Engines, SpawnThread(e) PROVE TypeOK'
    BY <1>11 DEF SpawnThread, TypeOK
  <1>12. ASSUME NEW e \in Engines, NextGroup(e) PROVE TypeOK'
    BY <1>12 DEF NextGroup, TypeOK, Control, Phases
  <1>13. ASSUME NEW e \in Engines, TerminateProcessing(e) PROVE TypeOK'
    BY <1>13 DEF TerminateProcessing, TypeOK
  <1>14. ASSUME NEW e \in Engines, PullLock(e) PROVE TypeOK'
    BY <1>14 DEF PullLock, Lock, Running, TypeOK
  <1>15. ASSUME NEW e \in Engines, Copy(e) PROVE TypeOK'
    BY <1>15 DEF Copy, Running, TypeOK
  <1>16. ASSUME NEW e \in Engines, ClearAndUnlock(e) PROVE TypeOK'
    <2>1. incoming_orders' \in [Engines -> Seq(Nat)]
      BY <1>16 DEF ClearAndUnlock, TypeOK
    <2>2. order_mutex' \in [Engines -> {"free", "router", "engine"}]
      BY <1>16 DEF ClearAndUnlock, Unlock, TypeOK
    <2>3. epc' \in [Engines -> {"idle", "pull", "copy", "clear", "process", "peek", "exited"}]
      BY <1>16 DEF ClearAndUnlock, TypeOK
    <2> QED
      BY <1>16, <2>1, <2>2, <2>3 DEF ClearAndUnlock, TypeOK
  <1>17. ASSUME NEW e \in Engines, ProcessOrder(e) PROVE TypeOK'
    <2>1. Head(internal_queue[e]) \in Nat /\ Tail(internal_queue[e]) \in Seq(Nat)
      BY <1>17, HeadTailProperties DEF ProcessOrder, TypeOK
    <2>2. processed' \in [Engines -> Seq(Nat)] /\ internal_queue' \in [Engines -> Seq(Nat)]
      BY <1>17, <2>1 DEF ProcessOrder, TypeOK
    <2> QED
      BY <1>17, <2>2 DEF ProcessOrder, TypeOK
  <1>18. ASSUME NEW e \in Engines, TestTerminate(e) PROVE TypeOK'
    BY <1>18 DEF TestTerminate, AfterTest, Running, TypeOK
  <1>19. ASSUME NEW e \in Engines, Peek(e) PROVE TypeOK'
    BY <1>19 DEF Peek, Running, TypeOK
  <1>20. ASSUME NEW e \in Engines, Return(e) PROVE TypeOK'
    BY <1>20 DEF Return, Running, TypeOK
  <1>21. CASE UNCHANGED vars
    BY <1>21 DEF vars, TypeOK
  <1> QED
    BY <1>1, <1>2, <1>3, <1>4, <1>5, <1>6, <1>7, <1>8, <1>9, <1>10,
       <1>11, <1>12, <1>13, <1>14, <1>15, <1>16, <1>17, <1>18, <1>19, <1>20,
       <1>21
    DEF Next, Router, Engine

LEMMA ControlStep ==
  ASSUME TypeOK, Control, [Next]_vars
  PROVE  Control'
  <1> USE PoolAssumption DEF given, routerVars, engineVars, sharedVars, Concurrent, BatchSize, get_engines, find_engine
  <1>1. CASE StartLoop
    BY <1>1 DEF StartLoop, TypeOK, Control, Phases, Locking, Calling, Queues,
           Ending, Reading
  <1>2. CASE GetOrders
    BY <1>2 DEF GetOrders, Wanted, LastRead, TypeOK, Control, Phases, Locking,
           Calling, Queues, Ending, Reading
  <1>3. CASE BadLine
    BY <1>3 DEF BadLine, Wanted, LastRead, TypeOK, Control, Phases, Locking,
           Calling, Queues, Ending, Reading
  <1>4. CASE RouteOne
    BY <1>4 DEF RouteOne, TypeOK, Control, Phases, Locking, Calling, Queues,
           Ending, Reading
  <1>5. CASE LockQueue
    BY <1>5 DEF LockQueue, Lock, TypeOK, Control, Phases, Locking, Calling,
           Queues, Ending, Reading
  <1>6. CASE Push
    <2>1. target \in get_engines /\ target \in Engines
      BY <1>6 DEF Push, TypeOK, Control, Phases
    <2>2. Phases' /\ Reading'
      BY <1>6, <2>1 DEF Push, TypeOK, Control, Phases, Reading
    <2>3. Locking'
      BY <1>6, <2>1 DEF Push, Unlock, TypeOK, Control, Phases, Locking
    <2>4. Calling'
      BY <1>6, <2>1 DEF Push, TypeOK, Control, Phases, Calling
    <2>5. Queues'
      BY <1>6, <2>1 DEF Push, TypeOK, Control, Phases, Locking, Calling, Queues
    <2>6. Ending'
      BY <1>6, <2>1 DEF Push, TypeOK, Control, Phases, Locking, Calling, Ending
    <2> QED
      BY <2>2, <2>3, <2>4, <2>5, <2>6 DEF Control
  <1>7. CASE EndOfBatch
    BY <1>7 DEF EndOfBatch, TypeOK, Control, Phases, Locking, Calling, Queues,
           Ending, Reading
  <1>8. CASE StartJoin
    BY <1>8 DEF StartJoin, TypeOK, Control, Phases, Locking, Calling, Queues,
           Ending, Reading
  <1>9. CASE Join
    BY <1>9 DEF Join, Joined, TypeOK, Control, Phases, Locking, Calling, Queues, Ending,
           Reading
  <1>10. CASE DumpOrders
    BY <1>10 DEF DumpOrders, TypeOK, Control, Phases, Locking, Calling, Queues,
           Ending, Reading
  <1>11. ASSUME NEW e \in Engines, SpawnThread(e) PROVE Control'
    BY <1>11 DEF SpawnThread, TypeOK, Control, Phases, Locking, Calling, Queues,
           Ending, Reading
  <1>12. ASSUME NEW e \in Engines, NextGroup(e) PROVE Control'
    BY <1>12 DEF NextGroup, TypeOK, Control, Phases, Locking, Calling, Queues,
           Ending, Reading
  <1>13. ASSUME NEW e \in Engines, TerminateProcessing(e) PROVE Control'
    BY <1>13 DEF TerminateProcessing, TypeOK, Control, Phases, Locking, Calling,
           Queues, Ending, Reading
  <1>14. ASSUME NEW e \in Engines, PullLock(e) PROVE Control'
    BY <1>14 DEF PullLock, Lock, Running, TypeOK, Control, Phases, Locking,
           Calling, Queues, Ending, Reading
  <1>15. ASSUME NEW e \in Engines, Copy(e) PROVE Control'
    BY <1>15 DEF Copy, Running, TypeOK, Control, Phases, Locking, Calling,
           Queues, Ending, Reading
  <1>16. ASSUME NEW e \in Engines, ClearAndUnlock(e) PROVE Control'
    BY <1>16 DEF ClearAndUnlock, Unlock, Running, TypeOK, Control, Phases,
           Locking, Calling, Queues, Ending, Reading
  <1>17. ASSUME NEW e \in Engines, ProcessOrder(e) PROVE Control'
    BY <1>17 DEF ProcessOrder, Running, TypeOK, Control, Phases, Locking,
           Calling, Queues, Ending, Reading
  <1>18. ASSUME NEW e \in Engines, TestTerminate(e) PROVE Control'
    <2>1. epc' = [epc EXCEPT ![e] = IF terminate[e] THEN "peek" ELSE "pull"]
      BY <1>18 DEF TestTerminate, AfterTest
    <2>2. Phases' /\ Reading' /\ Calling'
      BY <1>18, <2>1 DEF TestTerminate, Running, TypeOK, Control, Phases, Calling, Reading
    <2>3. Locking'
      BY <1>18, <2>1 DEF TestTerminate, Running, TypeOK, Control, Locking
    <2>4. Queues'
      BY <1>18, <2>1 DEF TestTerminate, Running, TypeOK, Control, Queues
    <2>5. Ending'
      BY <1>18, <2>1 DEF TestTerminate, Running, TypeOK, Control, Ending
    <2> QED
      BY <2>2, <2>3, <2>4, <2>5 DEF Control
  <1>19. ASSUME NEW e \in Engines, Peek(e) PROVE Control'
    BY <1>19 DEF Peek, Running, TypeOK, Control, Phases, Locking, Calling,
           Queues, Ending, Reading
  <1>20. ASSUME NEW e \in Engines, Return(e) PROVE Control'
    BY <1>20 DEF Return, Running, TypeOK, Control, Phases, Locking, Calling,
           Queues, Ending, Reading
  <1>21. CASE UNCHANGED vars
    BY <1>21 DEF vars, TypeOK, Control, Phases,
           Locking, Calling, Queues, Ending, Reading
  <1> QED
    BY <1>1, <1>2, <1>3, <1>4, <1>5, <1>6, <1>7, <1>8, <1>9, <1>10,
       <1>11, <1>12, <1>13, <1>14, <1>15, <1>16, <1>17, <1>18, <1>19, <1>20,
       <1>21
    DEF Next, Router, Engine

-----------------------------------------------------------------------------
(* The steps that keep the ledger *)

LEMMA ConcatOfNats ==
  ASSUME NEW s \in Seq(Nat), NEW t \in Seq(Nat), NEW u \in Seq(Nat)
  PROVE  (s \o t) \o u = s \o (t \o u)
  BY ConcatAssociative, SMTT(60)

LEMMA AppendToLast ==
  ASSUME NEW s \in Seq(Nat), NEW t \in Seq(Nat), NEW n \in Nat
  PROVE  s \o Append(t, n) = Append(s \o t, n)
  <1>1. s \o t \in Seq(Nat) /\ <<n>> \in Seq(Nat)
    BY ConcatProperties
  <1>2. s \o (t \o <<n>>) = (s \o t) \o <<n>>
    BY <1>1, ConcatAssociative, SMTT(60)
  <1> QED
    BY <1>1, <1>2, AppendIsConcat

LEMMA MoveHead ==
  ASSUME NEW a \in Seq(Nat), NEW b \in Seq(Nat), b # <<>>
  PROVE  Append(a, Head(b)) \o Tail(b) = a \o b
  <1>1. Head(b) \in Nat /\ Tail(b) \in Seq(Nat) /\ <<Head(b)>> \in Seq(Nat)
    BY HeadTailProperties
  <1>2. <<Head(b)>> \o Tail(b) = b
    <2>1. /\ <<Head(b)>> \o Tail(b) \in Seq(Nat)
          /\ Len(<<Head(b)>> \o Tail(b)) = Len(b)
          /\ \A i \in 1 .. Len(b) : (<<Head(b)>> \o Tail(b))[i] = b[i]
      BY <1>1, ConcatProperties, HeadTailProperties
    <2> QED
      BY <2>1, SeqEqual
  <1>3. (a \o <<Head(b)>>) \o Tail(b) = a \o (<<Head(b)>> \o Tail(b))
    BY <1>1, ConcatAssociative, SMTT(60)
  <1> QED
    BY <1>1, <1>2, <1>3, AppendIsConcat

LEMMA AppendIncreasing ==
  ASSUME NEW s \in Seq(Nat), NEW n \in Nat, Increasing(s), \A x \in Range(s) : x < n
  PROVE  Increasing(Append(s, n)) /\ Range(Append(s, n)) = Range(s) \cup {n}
  <1>1. /\ Len(Append(s, n)) = Len(s) + 1
        /\ Append(s, n)[Len(s) + 1] = n
        /\ \A i \in 1 .. Len(s) : Append(s, n)[i] = s[i] /\ s[i] \in Range(s)
    BY AppendProperties DEF Range
  <1>2. Increasing(Append(s, n))
    BY <1>1 DEF Increasing
  <1>3. Range(Append(s, n)) = Range(s) \cup {n}
    <2>1. DOMAIN Append(s, n) = DOMAIN s \cup {Len(s) + 1} /\ DOMAIN s = 1 .. Len(s)
      BY <1>1
    <2> QED
      BY <1>1, <2>1 DEF Range
  <1> QED
    BY <1>2, <1>3

\* A step other than RouteOne moves orders along the ledgers, or not at all.
LEMMA SameLedger ==
  ASSUME TypeOK, Control, [Next]_vars, ~RouteOne
  PROVE  \A f \in Engines : Ledger(f)' = Ledger(f)
  <1> USE PoolAssumption DEF given, routerVars, engineVars, sharedVars, Concurrent, BatchSize, get_engines, find_engine
  <1>1. CASE StartLoop
    BY <1>1 DEF StartLoop, Ledger, Waiting, TypeOK
  <1>2. CASE GetOrders
    BY <1>2 DEF GetOrders, Wanted, LastRead, Ledger, Waiting, TypeOK
  <1>3. CASE BadLine
    BY <1>3 DEF BadLine, Wanted, LastRead, Ledger, Waiting, TypeOK
  <1>4. CASE RouteOne
    BY <1>4
  <1>5. CASE LockQueue
    BY <1>5 DEF LockQueue, Lock, Ledger, Waiting, TypeOK
  <1>6. CASE Push
    <2> SUFFICES ASSUME NEW f \in Engines PROVE Ledger(f)' = Ledger(f)
      OBVIOUS
    <2>1. target \in Engines /\ epc[target] # "clear" /\ epc'[target] # "clear"
      BY <1>6 DEF Push, TypeOK, Control, Phases, Locking, Calling
    <2>2. CASE f = target
      <3>1. /\ incoming_orders'[f] = incoming_orders[f] \o groups[f]
            /\ groups'[f] = <<>>
            /\ processed' = processed /\ internal_queue' = internal_queue
        BY <1>6, <2>2 DEF Push, TypeOK
      <3>2. /\ processed[f] \in Seq(Nat) /\ internal_queue[f] \in Seq(Nat)
            /\ incoming_orders[f] \in Seq(Nat) /\ groups[f] \in Seq(Nat)
        BY DEF TypeOK
      <3>3. processed[f] \o internal_queue[f] \in Seq(Nat)
        BY <3>2, ConcatProperties
      <3>4. /\ incoming_orders[f] \o groups[f] \in Seq(Nat)
            /\ (processed[f] \o internal_queue[f]) \o (incoming_orders[f] \o groups[f]) \in Seq(Nat)
        BY <3>2, <3>3, ConcatProperties
      <3>5. (processed[f] \o internal_queue[f]) \o (incoming_orders[f] \o groups[f])
              = ((processed[f] \o internal_queue[f]) \o incoming_orders[f]) \o groups[f]
        BY <3>2, <3>3, ConcatOfNats, Zenon
      <3>6. ((processed[f] \o internal_queue[f]) \o (incoming_orders[f] \o groups[f])) \o <<>>
              = (processed[f] \o internal_queue[f]) \o (incoming_orders[f] \o groups[f])
        BY <3>4, ConcatEmptySeq
      <3> QED
        BY <2>1, <2>2, <3>1, <3>5, <3>6 DEF Ledger, Waiting
    <2>3. CASE f # target
      BY <1>6, <2>1, <2>3 DEF Push, Ledger, Waiting, TypeOK
    <2> QED
      BY <2>2, <2>3
  <1>7. CASE EndOfBatch
    BY <1>7 DEF EndOfBatch, Ledger, Waiting, TypeOK
  <1>8. CASE StartJoin
    BY <1>8 DEF StartJoin, Ledger, Waiting, TypeOK
  <1>9. CASE Join
    BY <1>9 DEF Join, Joined, Ledger, Waiting, TypeOK
  <1>10. CASE DumpOrders
    BY <1>10 DEF DumpOrders, Ledger, Waiting, TypeOK
  <1>11. ASSUME NEW e \in Engines, SpawnThread(e) PROVE \A f \in Engines : Ledger(f)' = Ledger(f)
    BY <1>11 DEF SpawnThread, Ledger, Waiting, TypeOK
  <1>12. ASSUME NEW e \in Engines, NextGroup(e) PROVE \A f \in Engines : Ledger(f)' = Ledger(f)
    BY <1>12 DEF NextGroup, Ledger, Waiting, TypeOK
  <1>13. ASSUME NEW e \in Engines, TerminateProcessing(e) PROVE \A f \in Engines : Ledger(f)' = Ledger(f)
    BY <1>13 DEF TerminateProcessing, Ledger, Waiting, TypeOK
  <1>14. ASSUME NEW e \in Engines, PullLock(e) PROVE \A f \in Engines : Ledger(f)' = Ledger(f)
    BY <1>14 DEF PullLock, Lock, Running, Ledger, Waiting, TypeOK
  <1>15. ASSUME NEW e \in Engines, Copy(e) PROVE \A f \in Engines : Ledger(f)' = Ledger(f)
    <2> SUFFICES ASSUME NEW f \in Engines PROVE Ledger(f)' = Ledger(f)
      OBVIOUS
    <2>1. CASE f = e
      <3>1. /\ internal_queue[f] = <<>> /\ internal_queue'[f] = incoming_orders[f]
            /\ epc[f] # "clear" /\ epc'[f] = "clear"
            /\ UNCHANGED <<processed, incoming_orders, groups>>
        BY <1>15, <2>1 DEF Copy, Running, TypeOK, Control, Queues
      <3>2. processed[f] \in Seq(Nat) /\ incoming_orders[f] \in Seq(Nat)
        BY DEF TypeOK
      <3>3. processed[f] \o incoming_orders[f] \in Seq(Nat)
        BY <3>2, ConcatProperties
      <3>4. processed[f] \o <<>> = processed[f]
        BY <3>2, ConcatEmptySeq
      <3>5. (processed[f] \o incoming_orders[f]) \o <<>> = processed[f] \o incoming_orders[f]
        BY <3>3, ConcatEmptySeq
      <3> QED
        BY <3>1, <3>4, <3>5 DEF Ledger, Waiting
    <2>2. CASE f # e
      BY <1>15, <2>2 DEF Copy, Ledger, Waiting, TypeOK
    <2> QED
      BY <2>1, <2>2
  <1>16. ASSUME NEW e \in Engines, ClearAndUnlock(e) PROVE \A f \in Engines : Ledger(f)' = Ledger(f)
    BY <1>16 DEF ClearAndUnlock, Unlock, Running, Ledger, Waiting, TypeOK
  <1>17. ASSUME NEW e \in Engines, ProcessOrder(e) PROVE \A f \in Engines : Ledger(f)' = Ledger(f)
    <2> SUFFICES ASSUME NEW f \in Engines PROVE Ledger(f)' = Ledger(f)
      OBVIOUS
    <2>1. CASE f = e
      <3>1. /\ internal_queue[f] # <<>>
            /\ processed[f] \in Seq(Nat) /\ internal_queue[f] \in Seq(Nat)
            /\ processed'[f] = Append(processed[f], Head(internal_queue[f]))
            /\ internal_queue'[f] = Tail(internal_queue[f])
        BY <1>17, <2>1 DEF ProcessOrder, TypeOK
      <3>2. processed'[f] \o internal_queue'[f] = processed[f] \o internal_queue[f]
        BY <3>1, MoveHead
      <3> QED
        BY <1>17, <3>2 DEF ProcessOrder, Ledger, Waiting
    <2>2. CASE f # e
      BY <1>17, <2>2 DEF ProcessOrder, Ledger, Waiting, TypeOK
    <2> QED
      BY <2>1, <2>2
  <1>18. ASSUME NEW e \in Engines, TestTerminate(e) PROVE \A f \in Engines : Ledger(f)' = Ledger(f)
    BY <1>18 DEF TestTerminate, AfterTest, Running, Ledger, Waiting, TypeOK
  <1>19. ASSUME NEW e \in Engines, Peek(e) PROVE \A f \in Engines : Ledger(f)' = Ledger(f)
    BY <1>19 DEF Peek, Running, Ledger, Waiting, TypeOK
  <1>20. ASSUME NEW e \in Engines, Return(e) PROVE \A f \in Engines : Ledger(f)' = Ledger(f)
    BY <1>20 DEF Return, Running, Ledger, Waiting, TypeOK
  <1>21. CASE UNCHANGED vars
    BY <1>21 DEF vars, Ledger, Waiting, TypeOK
  <1> QED
    BY <1>1, <1>2, <1>3, <1>4, <1>5, <1>6, <1>7, <1>8, <1>9, <1>10,
       <1>11, <1>12, <1>13, <1>14, <1>15, <1>16, <1>17, <1>18, <1>19, <1>20,
       <1>21
    DEF Next, Router, Engine

LEMMA SameInput == [Next]_vars => /\ given' = given
                                  /\ ~RouteOne => routed' = routed
  <1> SUFFICES ASSUME [Next]_vars
               PROVE  given' = given /\ (~RouteOne => routed' = routed)
    OBVIOUS
  <1> USE DEF given, routerVars, engineVars, sharedVars
  <1>1. CASE StartLoop
    BY <1>1 DEF StartLoop
  <1>2. CASE GetOrders
    BY <1>2 DEF GetOrders, Wanted, LastRead
  <1>3. CASE BadLine
    BY <1>3 DEF BadLine, Wanted, LastRead
  <1>4. CASE RouteOne
    BY <1>4 DEF RouteOne
  <1>5. CASE LockQueue
    BY <1>5 DEF LockQueue, Lock
  <1>6. CASE Push
    BY <1>6 DEF Push, Unlock
  <1>7. CASE EndOfBatch
    BY <1>7 DEF EndOfBatch
  <1>8. CASE StartJoin
    BY <1>8 DEF StartJoin
  <1>9. CASE Join
    BY <1>9 DEF Join
  <1>10. CASE DumpOrders
    BY <1>10 DEF DumpOrders
  <1>11. ASSUME NEW e \in Engines, SpawnThread(e) PROVE given' = given /\ routed' = routed
    BY <1>11 DEF SpawnThread
  <1>12. ASSUME NEW e \in Engines, NextGroup(e) PROVE given' = given /\ routed' = routed
    BY <1>12 DEF NextGroup
  <1>13. ASSUME NEW e \in Engines, TerminateProcessing(e) PROVE given' = given /\ routed' = routed
    BY <1>13 DEF TerminateProcessing
  <1>14. ASSUME NEW e \in Engines, PullLock(e) PROVE given' = given /\ routed' = routed
    BY <1>14 DEF PullLock, Lock, Running
  <1>15. ASSUME NEW e \in Engines, Copy(e) PROVE given' = given /\ routed' = routed
    BY <1>15 DEF Copy, Running
  <1>16. ASSUME NEW e \in Engines, ClearAndUnlock(e) PROVE given' = given /\ routed' = routed
    BY <1>16 DEF ClearAndUnlock, Unlock, Running
  <1>17. ASSUME NEW e \in Engines, ProcessOrder(e) PROVE given' = given /\ routed' = routed
    BY <1>17 DEF ProcessOrder, Running
  <1>18. ASSUME NEW e \in Engines, TestTerminate(e) PROVE given' = given /\ routed' = routed
    BY <1>18 DEF TestTerminate, AfterTest, Running
  <1>19. ASSUME NEW e \in Engines, Peek(e) PROVE given' = given /\ routed' = routed
    BY <1>19 DEF Peek, Running
  <1>20. ASSUME NEW e \in Engines, Return(e) PROVE given' = given /\ routed' = routed
    BY <1>20 DEF Return, Running
  <1>21. CASE UNCHANGED vars
    BY <1>21 DEF vars
  <1> QED
    BY <1>1, <1>2, <1>3, <1>4, <1>5, <1>6, <1>7, <1>8, <1>9, <1>10,
       <1>11, <1>12, <1>13, <1>14, <1>15, <1>16, <1>17, <1>18, <1>19, <1>20,
       <1>21
    DEF Next, Router, Engine

\* RouteOne appends the next line to one engine's ledger, behind lines that
\* all have smaller numbers.
LEMMA RouteOneLedger ==
  ASSUME TypeOK, Control, NothingLost, RouteOne
  PROVE  NothingLost'
  <1> DEFINE n == routed + 1
             to == find_engine(input[n])
  <1>1. n \in 1 .. Len(input) /\ n \in Nat /\ n \in 1 .. read
    BY DEF TypeOK, RouteOne, Control, Phases
  <1>2. input[n] \in Lines /\ to \in Engines
    BY <1>1, Routes DEF TypeOK, Control, Phases
  <1>3. /\ groups' = [groups EXCEPT ![to] = Append(@, n)]
        /\ routed' = n /\ input' = input /\ setup' = setup
        /\ UNCHANGED <<processed, internal_queue, incoming_orders, epc>>
    BY DEF RouteOne, given, engineVars, sharedVars
  <1> HIDE DEF n, to
  <1> SUFFICES ASSUME NEW f \in Engines
               PROVE  Increasing(Ledger(f)') /\ Range(Ledger(f)') = Mine(f, routed)'
    BY DEF NothingLost, Increasing
  <1>4. Increasing(Ledger(f)) /\ Range(Ledger(f)) = Mine(f, routed)
    BY DEF NothingLost
  <1>5. n = routed + 1 /\ routed \in Nat
    BY DEF n, TypeOK
  <1>6. CASE f = to
    <2>1. /\ processed[f] \in Seq(Nat) /\ internal_queue[f] \in Seq(Nat)
          /\ Waiting(f) \in Seq(Nat) /\ groups[f] \in Seq(Nat)
      BY DEF TypeOK, Waiting
    <2>2. Ledger(f)' = processed[f] \o internal_queue[f] \o Waiting(f) \o Append(groups[f], n)
      BY <1>3, <1>6 DEF Ledger, Waiting, TypeOK
    <2>3. Ledger(f)' = Append(Ledger(f), n)
      <3> DEFINE before == processed[f] \o internal_queue[f] \o Waiting(f)
                 group == groups[f]
      <3>1. before \in Seq(Nat) /\ group \in Seq(Nat) /\ n \in Nat
        BY <1>1, <2>1, ConcatProperties
      <3>2. before \o Append(group, n) = Append(before \o group, n)
        <4> HIDE DEF before, group
        <4> QED
          BY <3>1, AppendToLast
      <3> QED
        BY <2>2, <3>2 DEF Ledger
    <2>4. Ledger(f) \in Seq(Nat)
      <3>1. processed[f] \o internal_queue[f] \in Seq(Nat)
        BY <2>1, ConcatProperties
      <3>2. processed[f] \o internal_queue[f] \o Waiting(f) \in Seq(Nat)
        BY <2>1, <3>1, ConcatProperties
      <3> QED
        BY <2>1, <3>2, ConcatProperties DEF Ledger
    <2>5. \A x \in Range(Ledger(f)) : x < n
      BY <1>4, <1>5 DEF Mine
    <2>6. Mine(f, routed)' = Mine(f, routed) \cup {n}
      <3>1. Mine(f, routed)' = {p \in 1 .. n : input[p] # Malformed /\ find_engine(input[p]) = f}
        BY <1>3 DEF Mine, find_engine
      <3>2. 1 .. n = (1 .. routed) \cup {n}
        BY <1>5
      <3>3. input[n] # Malformed /\ find_engine(input[n]) = f
        BY <1>2, <1>6, PoolAssumption DEF to
      <3> QED
        BY <3>1, <3>2, <3>3 DEF Mine
    <2> QED
      BY <1>1, <1>4, <2>3, <2>4, <2>5, <2>6, AppendIncreasing
  <1>7. CASE f # to
    <2>1. Ledger(f)' = Ledger(f)
      BY <1>3, <1>7 DEF Ledger, Waiting, TypeOK
    <2>2. Mine(f, routed)' = Mine(f, routed)
      <3>1. Mine(f, routed)' = {p \in 1 .. n : input[p] # Malformed /\ find_engine(input[p]) = f}
        BY <1>3 DEF Mine, find_engine
      <3>2. 1 .. n = (1 .. routed) \cup {n}
        BY <1>5
      <3>3. find_engine(input[n]) # f
        BY <1>7 DEF to
      <3> QED
        BY <3>1, <3>2, <3>3 DEF Mine
    <2> QED
      BY <1>4, <2>1, <2>2
  <1> QED
    BY <1>6, <1>7

LEMMA LedgerStep ==
  ASSUME TypeOK, Control, NothingLost, [Next]_vars
  PROVE  NothingLost'
  <1>1. CASE RouteOne
    BY <1>1, RouteOneLedger
  <1>2. CASE ~RouteOne
    <2> SUFFICES ASSUME NEW f \in Engines
                 PROVE  Increasing(Ledger(f)') /\ Range(Ledger(f)') = Mine(f, routed)'
      BY DEF NothingLost, Increasing
    <2>1. Ledger(f)' = Ledger(f)
      BY <1>2, SameLedger
    <2>2. Mine(f, routed)' = Mine(f, routed)
      BY <1>2, SameInput DEF given, Mine, find_engine
    <2> QED
      BY <2>1, <2>2 DEF NothingLost
  <1> QED
    BY <1>1, <1>2

-----------------------------------------------------------------------------
(* Theorems *)

LEMMA Invariance == Spec => []Inv
  <1>1. Init => Inv
    <2> SUFFICES ASSUME Init PROVE Inv
      OBVIOUS
    <2>1. TypeOK /\ Control
      BY InitControl
    <2>2. NothingLost
      <3> SUFFICES ASSUME NEW e \in Engines
                   PROVE  Increasing(Ledger(e)) /\ Range(Ledger(e)) = Mine(e, routed)
        BY DEF NothingLost
      <3>1. Ledger(e) = <<>>
        BY DEF Init, Ledger, Waiting
      <3>2. Mine(e, routed) = {}
        BY DEF Init, Mine
      <3> QED
        BY <3>1, <3>2 DEF Increasing, Range
    <2> QED
      BY <2>1, <2>2 DEF Inv
  <1>2. Inv /\ [Next]_vars => Inv'
    BY TypeStep, ControlStep, LedgerStep DEF Inv
  <1> QED
    BY <1>1, <1>2, PTL DEF Spec

\* Every variable of the pipeline keeps its type.
THEOREM TypeCorrectness == Spec => []TypeOK
  BY Invariance, PTL DEF Inv

\* The main thread never pushes to an engine's queue between that engine's copy
\* and clear.
THEOREM QueuesAreExclusive == Spec => []QueueExclusive
  <1>1. Inv => QueueExclusive
    <2> SUFFICES ASSUME Inv, NEW e \in Engines,
                        rpc = "push", target = e, epc[e] \in {"copy", "clear"}
                 PROVE  FALSE
      BY DEF QueueExclusive
    <2>1. CASE Concurrent
      BY <2>1 DEF Inv, Control, Locking
    <2>2. CASE ~Concurrent
      BY <2>2 DEF Inv, Control, Calling, TypeOK
    <2> QED
      BY <2>1, <2>2
  <1> QED
    BY <1>1, Invariance, PTL

\* Whatever the interleaving, each engine has been given its lines of the input
\* so far, each once and in the order of the input.
THEOREM NoOrderIsLost == Spec => []NothingLost
  BY Invariance, PTL DEF Inv

\* When the program is through no engine runs.
LEMMA AllStopped ==
  ASSUME Inv, rpc \in {"dump", "done"}, NEW e \in Engines
  PROVE  epc[e] \in {"idle", "exited"}
  BY DEF Inv, TypeOK, Control, Calling, Queues, Ending

LEMMA InvDumpIsFinal == Inv => DumpIsFinal
  <1> SUFFICES ASSUME Inv, rpc \in {"dump", "done"}, NEW e \in Engines
               PROVE  /\ epc[e] \in {"idle", "exited"}
                      /\ Increasing(processed[e])
                      /\ Range(processed[e]) = Mine(e, read)
    BY DEF DumpIsFinal
  <1>1. epc[e] \in {"idle", "exited"}
    BY AllStopped
  <1>2. internal_queue[e] = <<>> /\ incoming_orders[e] = <<>> /\ groups[e] = <<>>
    BY <1>1 DEF Inv, Control, Queues, Ending, Phases
  <1>3. routed = read
    BY DEF Inv, Control, Phases
  <1>4. Ledger(e) = processed[e]
    <2>1. Ledger(e) = ((processed[e] \o <<>>) \o <<>>) \o <<>>
      BY <1>1, <1>2 DEF Ledger, Waiting
    <2>2. processed[e] \in Seq(Nat)
      BY DEF Inv, TypeOK
    <2> QED
      BY <2>1, <2>2, ConcatEmptySeq
  <1> QED
    BY <1>1, <1>3, <1>4 DEF Inv, NothingLost

\* At the final dump no engine is still working and every line that was read
\* has been processed by its engine: the termination protocol (store terminate,
\* process, load terminate, look at the queue again) loses nothing.
THEOREM DumpIsComplete == Spec => []DumpIsFinal
  BY InvDumpIsFinal, Invariance, PTL

\* With a batch size of at least one, a run that ends normally has read the
\* whole input.
THEOREM AllInputIsRead == Spec => []WholeInputRead
  <1>1. Inv => WholeInputRead
    BY DEF Inv, Control, Reading, WholeInputRead
  <1> QED
    BY <1>1, Invariance, PTL

-----------------------------------------------------------------------------
(* The refinement: ProcessOrder is Handle, DumpOrders is Report, BadLine is  *)
(* Stop, and every other step is a stutter of the promise.                   *)

\* The line an engine is about to process is its own, readable, and behind
\* exactly those of its lines that it has processed.
LEMMA NextInOrder ==
  ASSUME Inv, NEW e \in Engines, epc[e] = "process", internal_queue[e] # <<>>,
         NEW line, line = Head(internal_queue[e])
  PROVE  /\ line \in 1 .. read
         /\ line \in Mine(e, read)
         /\ Range(processed[e]) = {q \in Mine(e, Len(input)) : q < line}
  <1> DEFINE done == processed[e]
             rest == internal_queue[e]
             later == Waiting(e) \o groups[e]
             all == Ledger(e)
  <1>1. /\ done \in Seq(Nat) /\ rest \in Seq(Nat) /\ Waiting(e) \in Seq(Nat)
        /\ groups[e] \in Seq(Nat)
    BY DEF Inv, TypeOK, Waiting
  <1>2. /\ all \in Seq(Nat)
        /\ Len(all) >= Len(done) + Len(rest)
        /\ \A i \in 1 .. Len(done) : all[i] = done[i]
        /\ \A i \in 1 .. Len(rest) : all[Len(done) + i] = rest[i]
    <2>1. all = done \o rest \o Waiting(e) \o groups[e]
      BY DEF Ledger
    <2> DEFINE between == Waiting(e)
               group == groups[e]
    <2>2. between \in Seq(Nat) /\ group \in Seq(Nat)
      BY <1>1
    <2> HIDE DEF done, rest, between, group
    <2>3. /\ done \o rest \o between \o group \in Seq(Nat)
          /\ Len(done \o rest \o between \o group)
               = Len(done) + Len(rest) + Len(between) + Len(group)
          /\ \A i \in 1 .. Len(done) : (done \o rest \o between \o group)[i] = done[i]
          /\ \A i \in 1 .. Len(rest) :
               (done \o rest \o between \o group)[Len(done) + i] = rest[i]
      BY <1>1, <2>2
    <2>4. all = done \o rest \o between \o group
      BY <2>1 DEF between, group
    <2>5. Len(done) \in Nat /\ Len(rest) \in Nat /\ Len(between) \in Nat /\ Len(group) \in Nat
      BY <1>1, <2>2
    <2> HIDE DEF all
    <2>6. all \in Seq(Nat)
      BY <2>3, <2>4
    <2>7. Len(all) >= Len(done) + Len(rest)
      <3>1. Len(all) = Len(done) + Len(rest) + Len(between) + Len(group)
        BY <2>3, <2>4
      <3> QED
        BY <2>5, <3>1
    <2>8. \A i \in 1 .. Len(done) : all[i] = done[i]
      BY <2>3, <2>4
    <2>9. \A i \in 1 .. Len(rest) : all[Len(done) + i] = rest[i]
      BY <2>3, <2>4
    <2> QED
      BY <2>6, <2>7, <2>8, <2>9
  <1>3. Increasing(all) /\ Range(all) = Mine(e, routed)
    BY DEF Inv, NothingLost
  <1>4. routed \in 0 .. read /\ read \in 0 .. Len(input) /\ Len(input) \in Nat
    BY DEF Inv, TypeOK
  <1>5. /\ Len(done) \in Nat /\ Len(rest) \in Nat /\ Len(rest) > 0
        /\ line = rest[1]
    BY <1>1
  <1> DEFINE at == Len(done) + 1
  <1>6. at \in 1 .. Len(all) /\ all[at] = line /\ line \in Range(all)
    <2>1. Len(all) \in Nat /\ DOMAIN all = 1 .. Len(all)
      BY <1>2
    <2>2. at \in 1 .. Len(all) /\ all[at] = line
      <3> HIDE DEF all, done, rest
      <3> QED
        BY <1>2, <1>5, <2>1
    <2> HIDE DEF all, at
    <2> QED
      BY <2>1, <2>2 DEF Range
  <1>7. line \in Mine(e, read) /\ line \in 1 .. read /\ line <= routed
    BY <1>3, <1>4, <1>6 DEF Mine
  <1>8. Range(done) \subseteq {q \in Mine(e, Len(input)) : q < line}
    <2> SUFFICES ASSUME NEW i \in 1 .. Len(done)
                 PROVE  done[i] \in Mine(e, Len(input)) /\ done[i] < line
      <3>1. DOMAIN done = 1 .. Len(done)
        BY <1>1
      <3> HIDE DEF done
      <3> QED
        BY <3>1 DEF Range
    <2>1. i \in 1 .. Len(all) /\ i < at /\ all[i] = done[i]
      BY <1>2, <1>5, <1>6
    <2>2. all[i] < all[at] /\ all[i] \in Range(all)
      <3> HIDE DEF all, at, done
      <3> QED
        BY <1>2, <1>3, <1>6, <2>1 DEF Increasing, Range
    <2>3. all[i] \in Mine(e, routed)
      BY <1>3, <2>2
    <2> QED
      BY <1>4, <1>6, <2>1, <2>2, <2>3 DEF Mine
  <1>9. {q \in Mine(e, Len(input)) : q < line} \subseteq Range(done)
    <2> SUFFICES ASSUME NEW q \in Mine(e, Len(input)), q < line
                 PROVE  q \in Range(done)
      OBVIOUS
    <2>1. q \in Mine(e, routed)
      BY <1>4, <1>7 DEF Mine
    <2>2. PICK i \in 1 .. Len(all) : all[i] = q
      <3> HIDE DEF all
      <3> QED
        BY <1>2, <1>3, <2>1 DEF Range
    <2>3. i < at
      <3>1. ~(at < i) /\ at # i
        <4> HIDE DEF all, at
        <4>1. q \in Nat /\ line \in Nat
          BY <1>4, <1>7, <2>1 DEF Mine
        <4> QED
          BY <1>3, <1>6, <2>2, <4>1 DEF Increasing
      <3> QED
        BY <1>5, <3>1
    <2>4. i \in 1 .. Len(done) /\ done[i] = q
      BY <1>2, <1>5, <2>2, <2>3
    <2> QED
      BY <1>1, <2>4 DEF Range
  <1> QED
    BY <1>7, <1>8, <1>9

LEMMA PromiseInit == Init => Promise!Init
  <1> SUFFICES ASSUME Init PROVE Promise!Init
    OBVIOUS
  <1>1. TypeOK /\ setup \in Setups /\ input \in Seq(Lines \cup {Malformed})
    BY InitControl DEF TypeOK
  <1>2. \A p \in 1 .. Len(input) : Worker(input[p]) \in Engines \cup {Malformed}
    <2> TAKE p \in 1 .. Len(input)
    <2>1. input[p] \in Lines \cup {Malformed}
      BY <1>1
    <2> QED
      BY <1>1, <2>1, Routes DEF Worker
  <1>3. [p \in DOMAIN input |-> Worker(input[p])] \in Seq(Engines \cup {Malformed})
    BY <1>1, <1>2
  <1> QED
    BY <1>3 DEF Init, Promise!Init

\* Own lines, in the terms of the two modules.
LEMMA OwnIsMine ==
  ASSUME Inv
  PROVE  /\ \A e \in Engines : Promise!Own(e) = Mine(e, Len(input))
         /\ Promise!Own(Malformed) = {p \in 1 .. Len(input) : input[p] = Malformed}
         /\ DOMAIN [p \in DOMAIN input |-> Worker(input[p])] = 1 .. Len(input)
  <1>1. DOMAIN input = 1 .. Len(input) /\ setup \in Setups
    BY DEF Inv, TypeOK
  <1>2. \A p \in 1 .. Len(input) : input[p] # Malformed => find_engine(input[p]) \in Engines
    <2> SUFFICES ASSUME NEW p \in 1 .. Len(input), input[p] # Malformed
                 PROVE  find_engine(input[p]) \in Engines
      OBVIOUS
    <2>1. input[p] \in Lines
      BY DEF Inv, TypeOK
    <2> QED
      BY <1>1, <2>1, Routes
  <1>3. Malformed \notin Engines
    BY PoolAssumption
  <1> QED
    BY <1>1, <1>2, <1>3 DEF Promise!Own, Mine, Worker

\* Only those three actions change what the promise speaks of.
LEMMA QuietStep ==
  ASSUME Inv, [Next]_vars,
         ~(DumpOrders \/ BadLine \/ \E e \in Engines : ProcessOrder(e))
  PROVE  /\ processed' = processed
         /\ rpc' = "done" <=> rpc = "done"
         /\ rpc' = "aborted" <=> rpc = "aborted"
  <1> USE DEF routerVars, engineVars
  <1>1. CASE StartLoop
    BY <1>1 DEF StartLoop
  <1>2. CASE GetOrders
    BY <1>2 DEF GetOrders
  <1>3. CASE RouteOne
    BY <1>3 DEF RouteOne
  <1>4. CASE LockQueue
    BY <1>4 DEF LockQueue
  <1>5. CASE Push
    BY <1>5 DEF Push
  <1>6. CASE EndOfBatch
    BY <1>6 DEF EndOfBatch
  <1>7. CASE StartJoin
    BY <1>7 DEF StartJoin
  <1>8. CASE Join
    BY <1>8 DEF Join
  <1>9. ASSUME NEW e \in Engines, SpawnThread(e)
        PROVE  processed' = processed /\ (rpc' = rpc \/ {rpc, rpc'} \subseteq {"deliver", "lock"})
    BY <1>9 DEF SpawnThread
  <1>10. ASSUME NEW e \in Engines, NextGroup(e)
        PROVE  processed' = processed /\ (rpc' = rpc \/ {rpc, rpc'} \subseteq {"deliver", "lock"})
    BY <1>10 DEF NextGroup
  <1>11. ASSUME NEW e \in Engines, TerminateProcessing(e)
        PROVE  processed' = processed /\ (rpc' = rpc \/ {rpc, rpc'} \subseteq {"deliver", "lock"})
    BY <1>11 DEF TerminateProcessing
  <1>12. ASSUME NEW e \in Engines, PullLock(e)
        PROVE  processed' = processed /\ (rpc' = rpc \/ {rpc, rpc'} \subseteq {"deliver", "lock"})
    BY <1>12 DEF PullLock
  <1>13. ASSUME NEW e \in Engines, Copy(e)
        PROVE  processed' = processed /\ (rpc' = rpc \/ {rpc, rpc'} \subseteq {"deliver", "lock"})
    BY <1>13 DEF Copy
  <1>14. ASSUME NEW e \in Engines, ClearAndUnlock(e)
        PROVE  processed' = processed /\ (rpc' = rpc \/ {rpc, rpc'} \subseteq {"deliver", "lock"})
    BY <1>14 DEF ClearAndUnlock
  <1>15. ASSUME NEW e \in Engines, TestTerminate(e)
        PROVE  processed' = processed /\ (rpc' = rpc \/ {rpc, rpc'} \subseteq {"deliver", "lock"})
    BY <1>15 DEF TestTerminate
  <1>16. ASSUME NEW e \in Engines, Peek(e)
        PROVE  processed' = processed /\ (rpc' = rpc \/ {rpc, rpc'} \subseteq {"deliver", "lock"})
    BY <1>16 DEF Peek
  <1>17. ASSUME NEW e \in Engines, Return(e)
        PROVE  processed' = processed /\ rpc' = "deliver" /\ rpc \notin {"done", "aborted"}
    BY <1>17, AllStopped DEF Return, Running
  <1>18. CASE UNCHANGED vars
    BY <1>18 DEF vars
  <1> QED
    BY <1>1, <1>2, <1>3, <1>4, <1>5, <1>6, <1>7, <1>8, <1>9, <1>10, <1>11, <1>12, <1>13, <1>14, <1>15, <1>16, <1>17, <1>18
    DEF Next, Router, Engine

LEMMA PromiseStep ==
  ASSUME Inv, [Next]_vars
  PROVE  [Promise!Next \/ BatchSize < 1]_(Promise!vars)
  <1>1. given' = given
    BY SameInput
  <1>2. [p \in DOMAIN input |-> Worker(input[p])]' = [p \in DOMAIN input |-> Worker(input[p])]
    BY <1>1 DEF given, Worker, find_engine
  <1>3. ASSUME NEW e \in Engines, ProcessOrder(e) PROVE Promise!Next
    <2> DEFINE line == Head(internal_queue[e])
    <2>1. /\ line \in 1 .. read /\ line \in Mine(e, read)
          /\ Range(processed[e]) = {q \in Mine(e, Len(input)) : q < line}
      BY <1>3, NextInOrder DEF ProcessOrder, Running
    <2>2. rpc # "aborted" /\ rpc # "done"
      BY <1>3, AllStopped DEF ProcessOrder, Running
    <2>3. read \in 0 .. Len(input) /\ \A q \in 1 .. read : input[q] # Malformed
      BY DEF Inv, TypeOK, Control, Phases
    <2>4. line \in Mine(e, Len(input)) /\ line \in 1 .. Len(input)
      BY <2>1, <2>3 DEF Mine
    <2>5. \A q \in 1 .. line : [p \in DOMAIN input |-> Worker(input[p])][q] # Malformed
      <3> TAKE q \in 1 .. line
      <3>1. q \in 1 .. read /\ q \in 1 .. Len(input)
        BY <2>1, <2>3
      <3>2. input[q] \in Lines /\ setup \in Setups /\ q \in DOMAIN input
        BY <2>3, <3>1 DEF Inv, TypeOK
      <3>3. find_engine(input[q]) \in Engines
        BY <3>2, Routes
      <3> QED
        BY <2>3, <3>1, <3>2, <3>3, PoolAssumption DEF Worker
    <2>6. /\ processed' = [processed EXCEPT ![e] = Append(@, line)]
          /\ rpc' = rpc
      BY <1>3 DEF ProcessOrder, routerVars
    <2> HIDE DEF line
    <2>7. Promise!Handle(e, line)
      BY <1>2, <2>1, <2>2, <2>4, <2>5, <2>6, OwnIsMine DEF Promise!Handle, Promise!Range, Range
    <2> QED
      BY <2>4, <2>7, OwnIsMine DEF Promise!Next
  <1>4. CASE DumpOrders
    <2>1. CASE BatchSize < 1
      BY <2>1
    <2>2. CASE ~(BatchSize < 1)
      <3>1. rpc = "dump" /\ rpc' = "done" /\ processed' = processed
        BY <1>4 DEF DumpOrders, engineVars
      <3>2. read = Len(input)
        <4>1. BatchSize > 0
          BY <2>2, PoolAssumption DEF Inv, TypeOK, BatchSize
        <4> QED
          BY <3>1, <4>1 DEF Inv, Control, Reading
      <3>3. \A e \in Engines : Range(processed[e]) = Mine(e, read)
        BY <3>1, InvDumpIsFinal DEF DumpIsFinal
      <3>4. Promise!Own(Malformed) = {}
        BY <3>2, OwnIsMine DEF Inv, Control, Phases
      <3>5. Promise!Report(Engines)
        BY <1>2, <3>1, <3>2, <3>3, <3>4, OwnIsMine DEF Promise!Report, Promise!Range, Range
      <3> QED
        BY <3>5 DEF Promise!Next
    <2> QED
      BY <2>1, <2>2
  <1>5. CASE BadLine
    <2>1. rpc = "read" /\ rpc' = "aborted" /\ processed' = processed
      BY <1>5 DEF BadLine, engineVars
    <2>2. \E p \in 1 .. Len(input) : input[p] = Malformed
      BY <1>5, PoolAssumption DEF BadLine, Wanted, LastRead, BatchSize, Inv, TypeOK
    <2>3. Promise!Stop
      BY <1>2, <2>1, <2>2, OwnIsMine DEF Promise!Stop
    <2> QED
      BY <2>3 DEF Promise!Next
  <1>6. CASE ~(DumpOrders \/ BadLine \/ \E e \in Engines : ProcessOrder(e))
    <2>1. processed' = processed /\ (rpc' = "done" <=> rpc = "done")
                                /\ (rpc' = "aborted" <=> rpc = "aborted")
      BY <1>6, QuietStep
    <2> QED
      BY <1>2, <2>1 DEF Promise!vars
  <1> QED
    BY <1>3, <1>4, <1>5, <1>6

\* Each program that keeps the invariant keeps the promise: whatever the number
\* of threads, every engine handles its lines in the order of the input and the
\* dump comes after the last of them.
THEOREM PipelineKeepsPromise == Spec => ImplementsInOrder
  <1>1. Inv /\ [Next]_vars => [Promise!Next \/ BatchSize < 1]_(Promise!vars)
    BY PromiseStep
  <1> QED
    BY <1>1, PromiseInit, Invariance, PTL DEF Spec, ImplementsInOrder

-----------------------------------------------------------------------------
(* Sequences made of sequences *)

\* Induction over sequences: from each to the one with an element appended.
LEMMA SeqInduction ==
  ASSUME NEW S, NEW T, <<>> \in T, \A s \in T \cap Seq(S), x \in S : Append(s, x) \in T
  PROVE  Seq(S) \subseteq T
  <1> DEFINE U == {n \in Nat : \A s \in Seq(S) : Len(s) = n => s \in T}
  <1>1. 0 \in U
    <2>1. \A s \in Seq(S) : Len(s) = 0 => s = <<>>
      BY EmptySeq
    <2> QED
      BY <2>1
  <1>2. ASSUME NEW n \in U \cap Nat PROVE n + 1 \in U
    <2> SUFFICES ASSUME NEW s \in Seq(S), Len(s) = n + 1 PROVE s \in T
      OBVIOUS
    <2>1. s # <<>>
      OBVIOUS
    <2>2. PICK f \in Seq(S), x \in S : s = Append(f, x)
      BY <2>1, SequenceEmptyOrAppend
    <2>3. Len(f) = n
      BY <2>2
    <2> QED
      BY <2>2, <2>3
  <1>3. Nat \subseteq U
    <2> HIDE DEF U
    <2> QED
      BY <1>1, <1>2, SetInduction
  <1> QED
    BY <1>3

\* The recursion in FlattenSeq, from the empty sequence.
Flattens(g, s) == g[0] = <<>> /\ \A k \in 1 .. Len(s) : g[k] = g[k - 1] \o s[k]

LEMMA FlattenDefined ==
  ASSUME NEW S, NEW s \in Seq(Seq(S))
  PROVE  \E g : /\ Flattens(g, s) /\ FlattenSeq(s) = g[Len(s)]
                /\ \A k \in 0 .. Len(s) : g[k] \in Seq(S)
  <1> DEFINE e(f, i) == IF i = 1 THEN s[i] ELSE f[i - 1] \o s[i]
             From(n) == \E f : f = [i \in 1 .. n |-> e(f, i)]
             T == {n \in Nat : From(n)}
  <1>1. From(0)
    <2> DEFINE f == [i \in 1 .. 0 |-> 0]
    <2>1. f = [i \in 1 .. 0 |-> e(f, i)]
      OBVIOUS
    <2> HIDE DEF f
    <2> QED
      BY <2>1
  <1>2. ASSUME NEW n \in Nat, From(n) PROVE From(n + 1)
    <2>1. PICK f : f = [i \in 1 .. n |-> e(f, i)]
      BY <1>2
    <2> DEFINE h == [i \in 1 .. n + 1 |-> IF i = n + 1 THEN e(f, i) ELSE f[i]]
    <2>2. ASSUME NEW i \in 1 .. n + 1 PROVE e(h, i) = e(f, i)
      <3>1. i # 1 => h[i - 1] = f[i - 1]
        OBVIOUS
      <3> HIDE DEF h
      <3> QED
        BY <3>1
    <2>3. ASSUME NEW i \in 1 .. n + 1 PROVE h[i] = e(f, i)
      <3> HIDE DEF e
      <3>1. CASE i = n + 1
        BY <3>1
      <3>2. CASE i # n + 1
        <4>1. i \in 1 .. n /\ h[i] = f[i]
          BY <3>2
        <4>2. f[i] = e(f, i)
          <5> HIDE DEF h
          <5> QED
            BY <2>1, <4>1
        <4> QED
          BY <4>1, <4>2
      <3> QED
        BY <3>1, <3>2
    <2>4. h = [i \in 1 .. n + 1 |-> e(h, i)]
      BY <2>2, <2>3
    <2> HIDE DEF h
    <2> QED
      BY <2>4
  <1> HIDE DEF From
  <1>3. From(Len(s))
    <2>1. 0 \in T /\ \A n \in T \cap Nat : n + 1 \in T
      BY <1>1, <1>2
    <2>2. Nat \subseteq T
      <3> HIDE DEF T
      <3> QED
        BY <2>1, SetInduction
    <2>3. Len(s) \in T
      BY <2>2
    <2> QED
      BY <2>3
  <1> DEFINE f == CHOOSE g : g = [i \in 1 .. Len(s) |-> e(g, i)]
             g == [k \in 0 .. Len(s) |-> IF k = 0 THEN <<>> ELSE f[k]]
  <1>4. f = [i \in 1 .. Len(s) |-> e(f, i)]
    BY <1>3 DEF From
  <1>5. FlattenSeq(s) = IF Len(s) = 0 THEN s ELSE f[Len(s)]
    BY DEF FlattenSeq
  <1> HIDE DEF f
  <1>6. Len(s) \in Nat /\ (Len(s) = 0 => s = <<>>) /\ \A k \in 1 .. Len(s) : s[k] \in Seq(S)
    BY EmptySeq
  <1>7. FlattenSeq(s) = g[Len(s)]
    BY <1>5, <1>6
  <1>8. \A k \in 1 .. Len(s) : g[k] = g[k - 1] \o s[k]
    <2> TAKE k \in 1 .. Len(s)
    <2>1. g[k] = f[k] /\ f[k] = e(f, k)
      <3>1. g[k] = f[k]
        OBVIOUS
      <3> HIDE DEF e, g
      <3> QED
        BY <1>4, <3>1
    <2>2. CASE k = 1
      <3>1. g[k - 1] = <<>> /\ s[k] \in Seq(S)
        BY <1>6, <2>2
      <3>2. g[k] = s[k]
        BY <2>1, <2>2
      <3> HIDE DEF g
      <3> QED
        BY <3>1, <3>2, ConcatEmptySeq
    <2>3. CASE k # 1
      <3>1. g[k - 1] = f[k - 1]
        BY <1>6, <2>3
      <3> HIDE DEF g
      <3>2. f[k] = f[k - 1] \o s[k]
        BY <2>1, <2>3
      <3> QED
        BY <2>1, <3>1, <3>2
    <2> QED
      BY <2>2, <2>3
  <1>9. g[0] = <<>>
    BY <1>6
  <1> HIDE DEF g
  <1>10. \A k \in 0 .. Len(s) : g[k] \in Seq(S)
    <2> DEFINE V == {k \in Nat : k <= Len(s) => g[k] \in Seq(S)}
    <2>1. 0 \in V
      <3>1. <<>> \in Seq(S)
        OBVIOUS
      <3> QED
        BY <1>9, <3>1
    <2>2. ASSUME NEW k \in V \cap Nat PROVE k + 1 \in V
      <3> SUFFICES ASSUME k + 1 <= Len(s) PROVE g[k + 1] \in Seq(S)
        OBVIOUS
      <3>1. k + 1 \in 1 .. Len(s) /\ (k + 1) - 1 = k /\ g[k] \in Seq(S)
        BY <1>6
      <3>2. g[k + 1] = g[k] \o s[k + 1] /\ s[k + 1] \in Seq(S)
        BY <1>6, <1>8, <3>1
      <3> QED
        BY <3>1, <3>2
    <2>3. Nat \subseteq V
      <3> HIDE DEF V
      <3> QED
        BY <2>1, <2>2, SetInduction
    <2> QED
      BY <1>6, <2>3
  <1> QED
    BY <1>7, <1>8, <1>9, <1>10 DEF Flattens

LEMMA FlattenUnique ==
  ASSUME NEW s, Len(s) \in Nat, NEW n \in 0 .. Len(s), NEW f, NEW t, Flattens(f, t),
         NEW g, Flattens(g, s), n <= Len(t), Len(t) \in Nat, \A k \in 1 .. n : t[k] = s[k]
  PROVE  f[n] = g[n]
  <1> DEFINE V == {k \in Nat : k <= n => f[k] = g[k]}
  <1>1. 0 \in V
    BY DEF Flattens
  <1>2. ASSUME NEW k \in V \cap Nat PROVE k + 1 \in V
    <2> SUFFICES ASSUME k + 1 <= n PROVE f[k + 1] = g[k + 1]
      OBVIOUS
    <2>1. k + 1 \in 1 .. n /\ k + 1 \in 1 .. Len(s) /\ k + 1 \in 1 .. Len(t) /\ (k + 1) - 1 = k
      OBVIOUS
    <2>2. f[k] = g[k] /\ t[k + 1] = s[k + 1]
      BY <2>1
    <2>3. f[k + 1] = f[k] \o t[k + 1] /\ g[k + 1] = g[k] \o s[k + 1]
      BY <2>1 DEF Flattens
    <2> QED
      BY <2>2, <2>3
  <1>3. Nat \subseteq V
    <2> HIDE DEF V
    <2> QED
      BY <1>1, <1>2, SetInduction
  <1> QED
    BY <1>3

LEMMA FlattenEmpty == FlattenSeq(<<>>) = <<>>
  BY DEF FlattenSeq

\* What FlattenSeq makes of a sequence with one more at its end.
LEMMA FlattenAppend ==
  ASSUME NEW S, NEW s \in Seq(Seq(S)), NEW x \in Seq(S)
  PROVE  /\ FlattenSeq(s) \in Seq(S)
         /\ FlattenSeq(Append(s, x)) = FlattenSeq(s) \o x
  <1> DEFINE t == Append(s, x)
             n == Len(s)
  <1>1. /\ t \in Seq(Seq(S)) /\ Len(t) = n + 1 /\ n \in Nat /\ t[n + 1] = x
        /\ \A k \in 1 .. n : t[k] = s[k]
    OBVIOUS
  <1>2. PICK g : Flattens(g, s) /\ FlattenSeq(s) = g[n] /\ \A k \in 0 .. n : g[k] \in Seq(S)
    BY FlattenDefined
  <1> HIDE DEF t, n
  <1>3. PICK f : Flattens(f, t) /\ FlattenSeq(t) = f[Len(t)]
    BY <1>1, FlattenDefined
  <1>4. f[n] = g[n]
    <2>1. Len(s) = n /\ Len(s) \in Nat /\ n \in 0 .. Len(s) /\ n <= Len(t) /\ Len(t) \in Nat
      BY <1>1 DEF n
    <2>2. Flattens(g, s) /\ Flattens(f, t) /\ \A k \in 1 .. n : t[k] = s[k]
      BY <1>1, <1>2, <1>3
    <2> QED
      BY ONLY <2>1, <2>2, FlattenUnique
  <1>5. f[n + 1] = f[n] \o t[n + 1]
    <2>1. n + 1 \in 1 .. Len(t) /\ (n + 1) - 1 = n
      BY <1>1
    <2> QED
      BY <1>3, <2>1 DEF Flattens
  <1>6. FlattenSeq(t) = FlattenSeq(s) \o x
    BY <1>1, <1>2, <1>3, <1>4, <1>5
  <1>7. FlattenSeq(s) \in Seq(S)
    BY <1>1, <1>2
  <1> QED
    BY <1>6, <1>7 DEF t

-----------------------------------------------------------------------------
(* Lines of output and their pieces *)

LEMMA IsAppend ==
  ASSUME NEW S, NEW s \in Seq(S), NEW x \in S, NEW w, w = [k \in 1 .. Len(s) + 1 |-> w[k]],
         w[Len(s) + 1] = x, \A k \in 1 .. Len(s) : w[k] = s[k]
  PROVE  w = Append(s, x)
  <1> DEFINE u == Append(s, x)
  <1>1. /\ u \in Seq(S) /\ Len(u) = Len(s) + 1 /\ Len(s) \in Nat
        /\ u[Len(s) + 1] = x /\ \A k \in 1 .. Len(s) : u[k] = s[k]
    OBVIOUS
  <1> HIDE DEF u
  <1>3. \A k \in 1 .. Len(s) + 1 : u[k] = w[k]
    <2>1. \A k \in 1 .. Len(s) + 1 : k = Len(s) + 1 \/ k \in 1 .. Len(s)
      BY <1>1
    <2>2. u[Len(s) + 1] = w[Len(s) + 1] /\ \A k \in 1 .. Len(s) : u[k] = w[k]
      BY <1>1
    <2> QED
      BY ONLY <2>1, <2>2, Zenon
  <1>2. w \in Seq(S) /\ Len(w) = Len(s) + 1
    <2>1. \A k \in 1 .. Len(s) + 1 : w[k] \in S
      OBVIOUS
    <2> QED
      BY <1>1, <2>1
  <1> QED
    BY <1>1, <1>2, <1>3, SeqEqual DEF u

LinePieces(text) == [n \in 1 .. PiecesPerLine |-> [text |-> text, piece |-> n]]
PiecesOf(T) == [text : T, piece : 1 .. PiecesPerLine]

LEMMA LinePiecesTyped ==
  ASSUME NEW T, NEW x \in T
  PROVE  /\ LinePieces(x) \in Seq(PiecesOf(T))
         /\ Len(LinePieces(x)) = PiecesPerLine
         /\ \A n \in 1 .. PiecesPerLine : LinePieces(x)[n] = [text |-> x, piece |-> n]
  <1>1. PiecesPerLine \in Nat
    BY ExchangeAssumption
  <1>2. \A n \in 1 .. PiecesPerLine : [text |-> x, piece |-> n] \in PiecesOf(T)
    BY DEF PiecesOf
  <1> QED
    BY <1>1, <1>2 DEF LinePieces

LEMMA PiecesNone == Pieces(<<>>) = <<>>
  <1>1. [k \in DOMAIN <<>> |-> LinePieces(<<>>[k])] = <<>>
    OBVIOUS
  <1>2. Pieces(<<>>) = FlattenSeq([k \in DOMAIN <<>> |-> LinePieces(<<>>[k])])
    BY DEF Pieces, LinePieces
  <1> QED
    BY <1>1, <1>2, FlattenEmpty

LEMMA PiecesAppend ==
  ASSUME NEW T, NEW t \in Seq(T), NEW x \in T
  PROVE  /\ Pieces(t) \in Seq(PiecesOf(T))
         /\ Pieces(Append(t, x)) = Pieces(t) \o LinePieces(x)
  <1> DEFINE m == [k \in DOMAIN t |-> LinePieces(t[k])]
             u == Append(t, x)
             w == [k \in DOMAIN u |-> LinePieces(u[k])]
             n == Len(t)
  <1>1. /\ n \in Nat /\ DOMAIN t = 1 .. n /\ DOMAIN u = 1 .. n + 1 /\ u[n + 1] = x
        /\ \A k \in 1 .. n : u[k] = t[k] /\ t[k] \in T
    OBVIOUS
  <1>2. Pieces(t) = FlattenSeq(m) /\ Pieces(u) = FlattenSeq(w)
    BY DEF Pieces, LinePieces
  <1> HIDE DEF u, n
  <1>3. m \in Seq(Seq(PiecesOf(T))) /\ Len(m) = n
    <2>1. \A k \in 1 .. n : LinePieces(t[k]) \in Seq(PiecesOf(T))
      BY <1>1, LinePiecesTyped
    <2> QED
      BY <1>1, <2>1
  <1>4. w = Append(m, LinePieces(x))
    <2>1. /\ DOMAIN w = 1 .. n + 1 /\ w[n + 1] = LinePieces(x)
          /\ \A k \in 1 .. n : w[k] = m[k]
      BY <1>1
    <2>2. w = [k \in 1 .. n + 1 |-> w[k]]
      BY <1>1
    <2>3. LinePieces(x) \in Seq(PiecesOf(T))
      BY LinePiecesTyped
    <2> HIDE DEF w, m
    <2>4. /\ w = [k \in 1 .. Len(m) + 1 |-> w[k]] /\ w[Len(m) + 1] = LinePieces(x)
          /\ \A k \in 1 .. Len(m) : w[k] = m[k]
      BY <1>3, <2>1, <2>2
    <2> QED
      BY <1>3, <2>3, <2>4, IsAppend
  <1>5. LinePieces(x) \in Seq(PiecesOf(T))
    BY LinePiecesTyped
  <1> HIDE DEF w, m
  <1> QED
    BY <1>2, <1>3, <1>4, <1>5, FlattenAppend DEF u

LEMMA PiecesConcat ==
  ASSUME NEW T, NEW t \in Seq(T), NEW u \in Seq(T)
  PROVE  Pieces(t \o u) = Pieces(t) \o Pieces(u)
  <1> DEFINE V == {v \in Seq(T) : Pieces(t \o v) = Pieces(t) \o Pieces(v)}
  <1>1. <<>> \in V
    <2>1. Pieces(t) \o <<>> = Pieces(t) /\ t \o <<>> = t
      <3>1. CASE T = {}
        <4>1. t = <<>>
          BY <3>1
        <4> QED
          BY <4>1, PiecesNone
      <3>2. CASE T # {}
        <4>1. Pieces(t) \in Seq(PiecesOf(T))
          BY <3>2, PiecesAppend
        <4> QED
          BY <4>1, ConcatEmptySeq
      <3> QED
        BY <3>1, <3>2
    <2>2. <<>> \in Seq(T)
      OBVIOUS
    <2> QED
      BY <2>1, <2>2, PiecesNone
  <1>2. ASSUME NEW v \in V \cap Seq(T), NEW x \in T PROVE Append(v, x) \in V
    <2>1. Append(v, x) \in Seq(T) /\ t \o v \in Seq(T)
      OBVIOUS
    <2>2. t \o Append(v, x) = Append(t \o v, x)
      OBVIOUS
    <2>3. Pieces(Append(t \o v, x)) = Pieces(t \o v) \o LinePieces(x)
      BY <2>1, PiecesAppend
    <2>4. /\ Pieces(t) \in Seq(PiecesOf(T)) /\ Pieces(v) \in Seq(PiecesOf(T))
          /\ LinePieces(x) \in Seq(PiecesOf(T))
          /\ Pieces(Append(v, x)) = Pieces(v) \o LinePieces(x)
      BY PiecesAppend, LinePiecesTyped
    <2>5. (Pieces(t) \o Pieces(v)) \o LinePieces(x) = Pieces(t) \o (Pieces(v) \o LinePieces(x))
      BY <2>4, ConcatAssociative, SMTT(60)
    <2> QED
      BY <2>1, <2>2, <2>3, <2>4, <2>5
  <1>3. Seq(T) \subseteq V
    <2> HIDE DEF V
    <2> QED
      BY <1>1, <1>2, SeqInduction
  <1> QED
    BY <1>3

-----------------------------------------------------------------------------
(* The pieces about some instruments *)

\* What Only keeps of one piece.
Kept(I, x) == IF x.text.instrument \in I THEN <<x>> ELSE <<>>

LEMMA OnlyNothing == ASSUME NEW I PROVE Only(I, <<>>) = <<>>
  <1>1. [k \in DOMAIN <<>> |-> Kept(I, <<>>[k])] = <<>>
    OBVIOUS
  <1>2. Only(I, <<>>) = FlattenSeq([k \in DOMAIN <<>> |-> Kept(I, <<>>[k])])
    BY DEF Only, Kept
  <1> QED
    BY <1>1, <1>2, FlattenEmpty

LEMMA OnlyAppend ==
  ASSUME NEW I, NEW P, NEW p \in Seq(P), NEW x \in P
  PROVE  /\ Only(I, p) \in Seq(P)
         /\ Only(I, Append(p, x)) = Only(I, p) \o Kept(I, x)
  <1> DEFINE m == [k \in DOMAIN p |-> Kept(I, p[k])]
             u == Append(p, x)
             w == [k \in DOMAIN u |-> Kept(I, u[k])]
             n == Len(p)
  <1>1. /\ n \in Nat /\ DOMAIN p = 1 .. n /\ DOMAIN u = 1 .. n + 1 /\ u[n + 1] = x
        /\ \A k \in 1 .. n : u[k] = p[k] /\ p[k] \in P
    OBVIOUS
  <1>2. Only(I, p) = FlattenSeq(m) /\ Only(I, u) = FlattenSeq(w)
    BY DEF Only, Kept
  <1> HIDE DEF u, n
  <1>3. \A y \in P : Kept(I, y) \in Seq(P)
    BY DEF Kept
  <1>4. m \in Seq(Seq(P)) /\ Len(m) = n
    BY <1>1, <1>3
  <1>5. w = Append(m, Kept(I, x))
    <2>1. /\ DOMAIN w = 1 .. n + 1 /\ w[n + 1] = Kept(I, x)
          /\ \A k \in 1 .. n : w[k] = m[k]
      BY <1>1
    <2>2. w = [k \in 1 .. n + 1 |-> w[k]]
      BY <1>1
    <2>3. Kept(I, x) \in Seq(P)
      BY <1>3
    <2> HIDE DEF w, m
    <2>4. /\ w = [k \in 1 .. Len(m) + 1 |-> w[k]] /\ w[Len(m) + 1] = Kept(I, x)
          /\ \A k \in 1 .. Len(m) : w[k] = m[k]
      BY <1>4, <2>1, <2>2
    <2> QED
      BY <1>4, <2>3, <2>4, IsAppend
  <1> HIDE DEF w, m
  <1> QED
    BY <1>2, <1>3, <1>4, <1>5, FlattenAppend DEF u

LEMMA OnlyTyped ==
  ASSUME NEW I, NEW P, NEW p \in Seq(P)
  PROVE  Only(I, p) \in Seq(P)
  <1>1. CASE P = {}
    <2>1. p = <<>>
      BY <1>1
    <2> QED
      BY <2>1, OnlyNothing
  <1>2. CASE P # {}
    BY <1>2, OnlyAppend
  <1> QED
    BY <1>1, <1>2

LEMMA OnlyConcat ==
  ASSUME NEW I, NEW P, NEW p \in Seq(P), NEW q \in Seq(P)
  PROVE  Only(I, p \o q) = Only(I, p) \o Only(I, q)
  <1> DEFINE V == {v \in Seq(P) : Only(I, p \o v) = Only(I, p) \o Only(I, v)}
  <1>1. <<>> \in V
    <2>1. Only(I, p) \o <<>> = Only(I, p) /\ p \o <<>> = p
      BY OnlyTyped, ConcatEmptySeq
    <2>2. <<>> \in Seq(P)
      OBVIOUS
    <2> QED
      BY <2>1, <2>2, OnlyNothing
  <1>2. ASSUME NEW v \in V \cap Seq(P), NEW x \in P PROVE Append(v, x) \in V
    <2>1. Append(v, x) \in Seq(P) /\ p \o v \in Seq(P)
      OBVIOUS
    <2>2. p \o Append(v, x) = Append(p \o v, x)
      OBVIOUS
    <2>3. Only(I, Append(p \o v, x)) = Only(I, p \o v) \o Kept(I, x)
      BY <2>1, OnlyAppend
    <2>4. Only(I, p) \in Seq(P) /\ Only(I, v) \in Seq(P) /\ Kept(I, x) \in Seq(P)
      BY OnlyTyped DEF Kept
    <2>5. Only(I, Append(v, x)) = Only(I, v) \o Kept(I, x)
      BY OnlyAppend
    <2>6. (Only(I, p) \o Only(I, v)) \o Kept(I, x) = Only(I, p) \o (Only(I, v) \o Kept(I, x))
      BY ONLY <2>4, ConcatAssociative, SMTT(30)
    <2>7. Only(I, p \o v) = Only(I, p) \o Only(I, v)
      OBVIOUS
    <2> QED
      BY <2>1, <2>2, <2>3, <2>5, <2>6, <2>7
  <1>3. Seq(P) \subseteq V
    <2> HIDE DEF V
    <2> QED
      BY <1>1, <1>2, SeqInduction
  <1> QED
    BY <1>3

LEMMA OnlyNone ==
  ASSUME NEW I, NEW P, \A x \in P : x.text.instrument \notin I, NEW p \in Seq(P)
  PROVE  Only(I, p) = <<>>
  <1> DEFINE V == {v \in Seq(P) : Only(I, v) = <<>>}
  <1>1. <<>> \in V
    BY OnlyNothing
  <1>2. ASSUME NEW v \in V \cap Seq(P), NEW x \in P PROVE Append(v, x) \in V
    <2>1. Only(I, Append(v, x)) = Only(I, v) \o Kept(I, x) /\ Kept(I, x) = <<>>
      BY OnlyAppend DEF Kept
    <2> QED
      BY <2>1
  <1>3. Seq(P) \subseteq V
    <2> HIDE DEF V
    <2> QED
      BY <1>1, <1>2, SeqInduction
  <1> QED
    BY <1>3

LEMMA OnlyAll ==
  ASSUME NEW I, NEW P, \A x \in P : x.text.instrument \in I, NEW p \in Seq(P)
  PROVE  Only(I, p) = p
  <1> DEFINE V == {v \in Seq(P) : Only(I, v) = v}
  <1>1. <<>> \in V
    BY OnlyNothing
  <1>2. ASSUME NEW v \in V \cap Seq(P), NEW x \in P PROVE Append(v, x) \in V
    <2>1. Only(I, Append(v, x)) = Only(I, v) \o Kept(I, x) /\ Kept(I, x) = <<x>>
      BY OnlyAppend DEF Kept
    <2>2. v \o <<x>> = Append(v, x) /\ Append(v, x) \in Seq(P)
      OBVIOUS
    <2> QED
      BY <2>1, <2>2
  <1>3. Seq(P) \subseteq V
    <2> HIDE DEF V
    <2> QED
      BY <1>1, <1>2, SeqInduction
  <1> QED
    BY <1>3

LEMMA OnlyOnly ==
  ASSUME NEW I, NEW J, J \subseteq I, NEW P, NEW p \in Seq(P)
  PROVE  Only(J, Only(I, p)) = Only(J, p)
  <1> DEFINE V == {v \in Seq(P) : Only(J, Only(I, v)) = Only(J, v)}
  <1>1. <<>> \in V
    BY OnlyNothing
  <1>2. ASSUME NEW v \in V \cap Seq(P), NEW x \in P PROVE Append(v, x) \in V
    <2>1. Only(I, v) \in Seq(P) /\ Kept(I, x) \in Seq(P)
      BY OnlyTyped DEF Kept
    <2>2. Only(J, Only(I, v) \o Kept(I, x)) = Only(J, Only(I, v)) \o Only(J, Kept(I, x))
      BY <2>1, OnlyConcat
    <2>3. Only(J, Kept(I, x)) = Kept(J, x)
      <3>1. CASE x.text.instrument \in I
        <4>1. Kept(I, x) = <<x>> /\ <<x>> = Append(<<>>, x) /\ <<>> \in Seq(P)
          BY <3>1 DEF Kept
        <4>2. Only(J, Append(<<>>, x)) = Only(J, <<>>) \o Kept(J, x)
          BY <4>1, OnlyAppend
        <4>3. Kept(J, x) \in Seq(P)
          BY DEF Kept
        <4> QED
          BY <4>1, <4>2, <4>3, OnlyNothing, ConcatEmptySeq
      <3>2. CASE x.text.instrument \notin I
        BY <3>2, OnlyNothing DEF Kept
      <3> QED
        BY <3>1, <3>2
    <2>4. /\ Only(I, Append(v, x)) = Only(I, v) \o Kept(I, x)
          /\ Only(J, Append(v, x)) = Only(J, v) \o Kept(J, x)
      BY OnlyAppend
    <2>5. Only(J, Only(I, v)) = Only(J, v) /\ Append(v, x) \in Seq(P)
      OBVIOUS
    <2> QED
      BY <2>2, <2>3, <2>4, <2>5
  <1>3. Seq(P) \subseteq V
    <2> HIDE DEF V
    <2> QED
      BY <1>1, <1>2, SeqInduction
  <1> QED
    BY <1>3

-----------------------------------------------------------------------------
(* Whole lines *)

\* A line is about one instrument.
LEMMA LineKept ==
  ASSUME NEW I, NEW T, NEW x \in T
  PROVE  Only(I, LinePieces(x)) = IF x.instrument \in I THEN LinePieces(x) ELSE <<>>
  <1> DEFINE P == PiecesOf({x})
  <1>1. LinePieces(x) \in Seq(P)
    <2>1. x \in {x}
      OBVIOUS
    <2> QED
      BY <2>1, LinePiecesTyped
  <1>2. \A y \in P : y.text.instrument = x.instrument
    BY DEF PiecesOf
  <1> HIDE DEF P
  <1>3. CASE x.instrument \in I
    <2>1. Only(I, LinePieces(x)) = LinePieces(x)
      BY <1>1, <1>2, <1>3, OnlyAll
    <2> QED
      BY <1>3, <2>1
  <1>4. CASE x.instrument \notin I
    <2>1. Only(I, LinePieces(x)) = <<>>
      BY <1>1, <1>2, <1>4, OnlyNone
    <2> QED
      BY <1>4, <2>1
  <1> QED
    BY <1>3, <1>4

\* Whole, and the last line is complete.
Complete(p) == Whole(p) /\ (Len(p) > 0 => p[Len(p)].piece = PiecesPerLine)

LEMMA LineComplete ==
  ASSUME NEW T, NEW p \in Seq(PiecesOf(T)), Complete(p), NEW x \in T
  PROVE  Complete(p \o LinePieces(x))
  <1> DEFINE b == LinePieces(x)
             q == p \o b
             m == Len(p)
  <1>1. PiecesPerLine \in Nat \ {0}
    BY ExchangeAssumption
  <1>2. /\ b \in Seq(PiecesOf(T)) /\ Len(b) = PiecesPerLine
        /\ \A n \in 1 .. PiecesPerLine : b[n] = [text |-> x, piece |-> n]
    BY LinePiecesTyped
  <1> HIDE DEF b
  <1>3. /\ m \in Nat /\ DOMAIN p = 1 .. m /\ Len(q) = m + PiecesPerLine
        /\ DOMAIN q = 1 .. m + PiecesPerLine
        /\ \A k \in 1 .. m : q[k] = p[k]
        /\ \A k \in m + 1 .. m + PiecesPerLine : q[k] = b[k - m]
    <2>1. /\ m \in Nat /\ DOMAIN p = 1 .. m
          /\ q \in Seq(PiecesOf(T)) /\ Len(q) = m + Len(b)
          /\ \A k \in 1 .. m + Len(b) : q[k] = IF k <= m THEN p[k] ELSE b[k - m]
      <3>1. /\ p \o b \in Seq(PiecesOf(T)) /\ Len(p \o b) = Len(p) + Len(b)
            /\ \A k \in 1 .. Len(p) + Len(b) :
                 (p \o b)[k] = IF k <= Len(p) THEN p[k] ELSE b[k - Len(p)]
        BY ONLY <1>2, p \in Seq(PiecesOf(T)), ConcatProperties
      <3>2. Len(p) \in Nat /\ DOMAIN p = 1 .. Len(p)
        OBVIOUS
      <3> QED
        BY <3>1, <3>2 DEF q, m
    <2>2. DOMAIN q = 1 .. Len(q)
      BY <2>1
    <2> HIDE DEF q, m
    <2> QED
      BY <1>1, <1>2, <2>1, <2>2
  <1> HIDE DEF q, m
  <1>4. \A k \in m + 1 .. m + PiecesPerLine :
          k - m \in 1 .. PiecesPerLine /\ q[k] = [text |-> x, piece |-> k - m]
    <2> TAKE k \in m + 1 .. m + PiecesPerLine
    <2>1. k - m \in 1 .. PiecesPerLine
      BY <1>1, <1>3
    <2>2. b[k - m] = [text |-> x, piece |-> k - m]
      BY <1>2, <2>1
    <2> QED
      BY <1>3, <2>1, <2>2
  <1>5. ASSUME NEW k \in DOMAIN q
        PROVE  IF q[k].piece = 1 THEN k > 1 => q[k - 1].piece = PiecesPerLine
               ELSE k > 1 /\ q[k - 1] = [q[k] EXCEPT !.piece = @ - 1]
    <2>1. CASE k \in 1 .. m
      <3>1. k \in DOMAIN p /\ q[k] = p[k] /\ (k > 1 => k - 1 \in 1 .. m)
        BY <1>3, <2>1
      <3>2. k > 1 => q[k - 1] = p[k - 1]
        BY <1>3, <3>1
      <3>3. IF p[k].piece = 1 THEN k > 1 => p[k - 1].piece = PiecesPerLine
            ELSE k > 1 /\ p[k - 1] = [p[k] EXCEPT !.piece = @ - 1]
        BY <3>1 DEF Complete, Whole
      <3> QED
        BY <3>1, <3>2, <3>3
    <2>2. CASE k = m + 1
      <3>1. k \in m + 1 .. m + PiecesPerLine /\ k - m = 1
        BY <1>1, <1>3, <2>2
      <3>2. q[k] = [text |-> x, piece |-> 1]
        BY <1>4, <3>1
      <3>3. k > 1 => q[k - 1].piece = PiecesPerLine
        <4> SUFFICES ASSUME k > 1 PROVE q[k - 1].piece = PiecesPerLine
          OBVIOUS
        <4>1. k - 1 = m /\ m \in 1 .. m /\ m > 0
          BY <1>3, <2>2
        <4>2. q[m] = p[m] /\ p[m].piece = PiecesPerLine
          BY <1>3, <4>1 DEF Complete, m
        <4> QED
          BY <4>1, <4>2
      <3> QED
        BY <3>2, <3>3
    <2>3. CASE k \in m + 2 .. m + PiecesPerLine
      <3>1. /\ k \in m + 1 .. m + PiecesPerLine /\ k - 1 \in m + 1 .. m + PiecesPerLine
            /\ k > 1 /\ k - m # 1 /\ (k - 1) - m = (k - m) - 1
        BY <1>1, <1>3, <2>3
      <3>2. q[k] = [text |-> x, piece |-> k - m] /\ q[k - 1] = [text |-> x, piece |-> (k - m) - 1]
        BY <1>4, <3>1
      <3> QED
        BY <3>1, <3>2
    <2>4. k \in 1 .. m \/ k = m + 1 \/ k \in m + 2 .. m + PiecesPerLine
      BY <1>1, <1>3
    <2> QED
      BY <2>1, <2>2, <2>3, <2>4
  <1>6. q[Len(q)].piece = PiecesPerLine
    <2> DEFINE l == Len(q)
    <2>1. l \in m + 1 .. m + PiecesPerLine /\ l - m = PiecesPerLine
      BY <1>1, <1>3
    <2> HIDE DEF l
    <2>2. q[l] = [text |-> x, piece |-> l - m]
      BY <1>4, <2>1
    <2>3. q[l].piece = PiecesPerLine
      BY <2>1, <2>2
    <2> QED
      BY <2>3 DEF l
  <1>7. Complete(q)
    BY <1>5, <1>6 DEF Complete, Whole
  <1> QED
    BY <1>7 DEF q, b

\* The pieces of whole lines, those about some of the instruments.
LEMMA LinesComplete ==
  ASSUME NEW I, NEW T, NEW t \in Seq(T)
  PROVE  Complete(Only(I, Pieces(t)))
  <1> DEFINE V == {v \in Seq(T) : Complete(Only(I, Pieces(v)))}
  <1>1. <<>> \in V
    <2>1. Complete(<<>>)
      BY DEF Complete, Whole
    <2> QED
      BY <2>1, PiecesNone, OnlyNothing
  <1>2. ASSUME NEW v \in V \cap Seq(T), NEW x \in T PROVE Append(v, x) \in V
    <2>1. /\ Pieces(v) \in Seq(PiecesOf(T)) /\ LinePieces(x) \in Seq(PiecesOf(T))
          /\ Pieces(Append(v, x)) = Pieces(v) \o LinePieces(x)
      BY PiecesAppend, LinePiecesTyped
    <2>2. Only(I, Pieces(v) \o LinePieces(x)) = Only(I, Pieces(v)) \o Only(I, LinePieces(x))
      BY <2>1, OnlyConcat
    <2>3. Only(I, LinePieces(x)) = IF x.instrument \in I THEN LinePieces(x) ELSE <<>>
      BY LineKept
    <2>4. Only(I, Pieces(v)) \in Seq(PiecesOf(T)) /\ Complete(Only(I, Pieces(v)))
      BY <2>1, OnlyTyped
    <2>5. Complete(Only(I, Pieces(v)) \o Only(I, LinePieces(x)))
      <3>1. CASE x.instrument \in I
        BY <2>3, <2>4, <3>1, LineComplete
      <3>2. CASE x.instrument \notin I
        <4>1. Only(I, Pieces(v)) \o <<>> = Only(I, Pieces(v))
          BY <2>4, ConcatEmptySeq
        <4> QED
          BY <2>3, <2>4, <3>2, <4>1
      <3> QED
        BY <3>1, <3>2
    <2>6. Append(v, x) \in Seq(T)
      OBVIOUS
    <2> QED
      BY <2>1, <2>2, <2>5, <2>6
  <1>3. Seq(T) \subseteq V
    <2> HIDE DEF V
    <2> QED
      BY <1>1, <1>2, SeqInduction
  <1> QED
    BY <1>3

\* What comes first of a whole output is whole.
LEMMA FirstWhole ==
  ASSUME NEW P, NEW p \in Seq(P), NEW q \in Seq(P), Whole(p \o q)
  PROVE  Whole(p)
  <1> DEFINE r == p \o q
  <1>1. /\ Len(p) \in Nat /\ DOMAIN p = 1 .. Len(p) /\ DOMAIN p \subseteq DOMAIN r
        /\ \A k \in 1 .. Len(p) : r[k] = p[k]
    OBVIOUS
  <1>2. Whole(r)
    OBVIOUS
  <1> HIDE DEF r
  <1>3. \A k \in DOMAIN p : k > 1 => k - 1 \in 1 .. Len(p)
    BY <1>1
  <1> SUFFICES ASSUME NEW k \in DOMAIN p
               PROVE  IF p[k].piece = 1 THEN k > 1 => p[k - 1].piece = PiecesPerLine
                      ELSE k > 1 /\ p[k - 1] = [p[k] EXCEPT !.piece = @ - 1]
    BY DEF Whole
  <1>4. r[k] = p[k] /\ (k > 1 => r[k - 1] = p[k - 1]) /\ k \in DOMAIN r
    BY <1>1, <1>3
  <1>5. IF r[k].piece = 1 THEN k > 1 => r[k - 1].piece = PiecesPerLine
        ELSE k > 1 /\ r[k - 1] = [r[k] EXCEPT !.piece = @ - 1]
    BY <1>2, <1>4 DEF Whole
  <1> QED
    BY <1>4, <1>5

-----------------------------------------------------------------------------
(* Sequences put together from those of some numbers, in the order of the numbers *)

PartOf(h, J, i) == IF i \in J THEN h[i] ELSE <<>>
Part(h, J, n) == FlattenSeq([i \in 1 .. n |-> PartOf(h, J, i)])

LEMMA PartNothing == ASSUME NEW h, NEW J PROVE Part(h, J, 0) = <<>>
  <1>1. [i \in 1 .. 0 |-> PartOf(h, J, i)] = <<>>
    OBVIOUS
  <1> QED
    BY <1>1, FlattenEmpty DEF Part

LEMMA EqualsAppend ==
  ASSUME NEW S, NEW s \in Seq(S), NEW x \in S, NEW w \in Seq(S), Len(w) = Len(s) + 1,
         w[Len(s) + 1] = x, \A k \in 1 .. Len(s) : w[k] = s[k]
  PROVE  w = Append(s, x)
  <1> DEFINE u == Append(s, x)
  <1>1. /\ u \in Seq(S) /\ Len(u) = Len(s) + 1 /\ Len(s) \in Nat
        /\ u[Len(s) + 1] = x /\ \A k \in 1 .. Len(s) : u[k] = s[k]
    OBVIOUS
  <1> HIDE DEF u
  <1>2. \A k \in 1 .. Len(s) + 1 : u[k] = w[k]
    <2>1. \A k \in 1 .. Len(s) + 1 : k = Len(s) + 1 \/ k \in 1 .. Len(s)
      BY <1>1
    <2>2. u[Len(s) + 1] = w[Len(s) + 1] /\ \A k \in 1 .. Len(s) : u[k] = w[k]
      BY <1>1
    <2> QED
      BY ONLY <2>1, <2>2, Zenon
  <1> QED
    BY <1>1, <1>2, SeqEqual DEF u

LEMMA PartGrows ==
  ASSUME NEW S, NEW n \in Nat, NEW h, NEW J, \A i \in 1 .. n + 1 : h[i] \in Seq(S)
  PROVE  /\ Part(h, J, n) \in Seq(S)
         /\ PartOf(h, J, n + 1) \in Seq(S)
         /\ Part(h, J, n + 1) = Part(h, J, n) \o PartOf(h, J, n + 1)
  <1> DEFINE s == [i \in 1 .. n |-> PartOf(h, J, i)]
             w == [i \in 1 .. n + 1 |-> PartOf(h, J, i)]
  <1>1. \A i \in 1 .. n + 1 : PartOf(h, J, i) \in Seq(S)
    BY DEF PartOf
  <1>2. s \in Seq(Seq(S)) /\ Len(s) = n
    BY <1>1
  <1>3. w = [i \in 1 .. Len(s) + 1 |-> w[i]]
    BY <1>2
  <1>4. w[Len(s) + 1] = PartOf(h, J, n + 1) /\ \A i \in 1 .. Len(s) : w[i] = s[i]
    BY <1>2
  <1>5. PartOf(h, J, n + 1) \in Seq(S)
    BY <1>1
  <1>8. w \in Seq(Seq(S)) /\ Len(w) = Len(s) + 1
    BY <1>1, <1>2
  <1> HIDE DEF s, w
  <1>6. w = Append(s, PartOf(h, J, n + 1))
    <2> DEFINE y == PartOf(h, J, n + 1)
               T == Seq(S)
    <2>1. /\ s \in Seq(T) /\ y \in T /\ w = [i \in 1 .. Len(s) + 1 |-> w[i]]
          /\ w[Len(s) + 1] = y /\ \A i \in 1 .. Len(s) : w[i] = s[i]
      BY <1>2, <1>3, <1>4, <1>5
    <2> HIDE DEF y, T
    <2>2. /\ s \in Seq(T) /\ y \in T /\ w \in Seq(T) /\ Len(w) = Len(s) + 1
          /\ w[Len(s) + 1] = y /\ \A k \in 1 .. Len(s) : w[k] = s[k]
      BY <1>8, <2>1 DEF T
    <2>3. w = Append(s, y)
      BY ONLY <2>2, EqualsAppend
    <2> QED
      BY <2>3 DEF y
  <1>7. FlattenSeq(s) \in Seq(S) /\ FlattenSeq(w) = FlattenSeq(s) \o PartOf(h, J, n + 1)
    BY <1>2, <1>5, <1>6, FlattenAppend
  <1> QED
    BY <1>5, <1>7 DEF Part, s, w

LEMMA PartTyped ==
  ASSUME NEW S, NEW n \in Nat, NEW h, NEW J, \A i \in 1 .. n : h[i] \in Seq(S)
  PROVE  Part(h, J, n) \in Seq(S)
  <1>1. CASE n = 0
    <2>1. Part(h, J, n) = <<>> /\ <<>> \in Seq(S)
      BY <1>1, PartNothing
    <2> QED
      BY <2>1
  <1>2. CASE n # 0
    <2>1. n - 1 \in Nat /\ (n - 1) + 1 = n
      BY <1>2
    <2>2. Part(h, J, n - 1) \in Seq(S) /\ PartOf(h, J, n) \in Seq(S)
          /\ Part(h, J, n) = Part(h, J, n - 1) \o PartOf(h, J, n)
      BY <2>1, PartGrows
    <2> QED
      BY <2>2
  <1> QED
    BY <1>1, <1>2

TypedUpTo(h, n, S) == \A i \in 1 .. n : h[i] \in Seq(S)
NoneUpTo(J, m) == \A i \in 1 .. m : i \notin J

LEMMA PartNone ==
  ASSUME NEW S, NEW N \in Nat, NEW h, NEW J, TypedUpTo(h, N, S),
         NEW m \in 0 .. N, NoneUpTo(J, m)
  PROVE  Part(h, J, m) = <<>>
  <1> DEFINE V == {n \in Nat : n <= m => Part(h, J, n) = <<>>}
  <1>1. 0 \in V
    BY PartNothing
  <1>2. ASSUME NEW n \in V \cap Nat PROVE n + 1 \in V
    <2> SUFFICES ASSUME n + 1 <= m PROVE Part(h, J, n + 1) = <<>>
      OBVIOUS
    <2>1. n + 1 \in 1 .. m /\ \A i \in 1 .. n + 1 : i \in 1 .. N
      OBVIOUS
    <2>2. Part(h, J, n + 1) = Part(h, J, n) \o PartOf(h, J, n + 1)
      <3>1. \A i \in 1 .. n + 1 : h[i] \in Seq(S)
        BY <2>1 DEF TypedUpTo
      <3> QED
        BY <3>1, PartGrows
    <2>3. PartOf(h, J, n + 1) = <<>> /\ Part(h, J, n) = <<>>
      BY <2>1 DEF PartOf, NoneUpTo
    <2> QED
      BY <2>2, <2>3
  <1>3. Nat \subseteq V
    <2> HIDE DEF V
    <2> QED
      BY <1>1, <1>2, SetInduction
  <1> QED
    BY <1>3

\* Numbers below others come first.
LEMMA PartSplit ==
  ASSUME NEW S, NEW N \in Nat, NEW h, \A i \in 1 .. N : h[i] \in Seq(S),
         NEW J \in SUBSET Nat, NEW K \in SUBSET Nat, \A j \in J, k \in K : j < k
  PROVE  Part(h, J \cup K, N) = Part(h, J, N) \o Part(h, K, N)
  <1> DEFINE L == J \cup K
             V == {n \in Nat : n <= N => Part(h, L, n) = Part(h, J, n) \o Part(h, K, n)}
  <1> HIDE DEF L
  <1>1. 0 \in V
    <2>1. Part(h, L, 0) = <<>> /\ Part(h, J, 0) = <<>> /\ Part(h, K, 0) = <<>>
      BY PartNothing
    <2>2. <<>> \o <<>> = <<>>
      OBVIOUS
    <2> QED
      BY <2>1, <2>2
  <1>2. ASSUME NEW n \in V \cap Nat PROVE n + 1 \in V
    <2> SUFFICES ASSUME n + 1 <= N
                 PROVE  Part(h, L, n + 1) = Part(h, J, n + 1) \o Part(h, K, n + 1)
      OBVIOUS
    <2> DEFINE a == Part(h, J, n)
               b == Part(h, K, n)
               x == h[n + 1]
    <2>1. \A i \in 1 .. n + 1 : i \in 1 .. N
      OBVIOUS
    <2>2. \A i \in 1 .. n + 1 : h[i] \in Seq(S)
      BY <2>1
    <2>3. /\ Part(h, L, n + 1) = Part(h, L, n) \o PartOf(h, L, n + 1)
          /\ Part(h, J, n + 1) = a \o PartOf(h, J, n + 1)
          /\ Part(h, K, n + 1) = b \o PartOf(h, K, n + 1)
          /\ a \in Seq(S) /\ b \in Seq(S)
      BY <2>2, PartGrows
    <2>8. x \in Seq(S)
      BY <2>2
    <2>4. Part(h, L, n) = a \o b
      OBVIOUS
    <2>5. CASE n + 1 \in K
      <3>1. n + 1 \notin J /\ n + 1 \in L
        BY <2>5 DEF L
      <3>2. PartOf(h, L, n + 1) = x /\ PartOf(h, J, n + 1) = <<>> /\ PartOf(h, K, n + 1) = x
        BY <2>5, <3>1 DEF PartOf
      <3>3. (a \o b) \o x = a \o (b \o x) /\ a \o <<>> = a
        <4> HIDE DEF a, b, x
        <4>1. (a \o b) \o x = a \o (b \o x)
          BY ONLY <2>3, <2>8, ConcatAssociative, SMTT(30)
        <4>2. a \o <<>> = a
          BY <2>3, ConcatEmptySeq
        <4> QED
          BY <4>1, <4>2
      <3> QED
        BY <2>3, <2>4, <3>2, <3>3
    <2>6. CASE n + 1 \in J
      <3>1. n + 1 \notin K /\ n + 1 \in L /\ \A i \in 1 .. n : i \notin K
        BY <2>6 DEF L
      <3>2. PartOf(h, L, n + 1) = x /\ PartOf(h, J, n + 1) = x /\ PartOf(h, K, n + 1) = <<>>
        BY <2>6, <3>1 DEF PartOf
      <3>3. b = <<>>
        <4>1. /\ N \in Nat /\ TypedUpTo(h, N, S)
              /\ n \in 0 .. N /\ NoneUpTo(K, n)
          BY <3>1 DEF TypedUpTo, NoneUpTo
        <4> HIDE DEF V
        <4> QED
          BY ONLY <4>1, PartNone
      <3>4. a \o <<>> = a /\ (a \o x) \o <<>> = a \o x /\ <<>> \o <<>> = <<>>
        <4>1. a \o x \in Seq(S)
          BY <2>3, <2>8
        <4> HIDE DEF a, b, x
        <4>2. a \o <<>> = a /\ (a \o x) \o <<>> = a \o x
          BY ONLY <2>3, <4>1, ConcatEmptySeq
        <4> QED
          BY <4>2
      <3>5. Part(h, K, n + 1) = <<>> /\ Part(h, L, n) = a
        BY <2>3, <2>4, <3>2, <3>3, <3>4
      <3> QED
        BY <2>3, <3>2, <3>4, <3>5
    <2>7. CASE n + 1 \notin J /\ n + 1 \notin K
      <3>1. PartOf(h, L, n + 1) = <<>> /\ PartOf(h, J, n + 1) = <<>> /\ PartOf(h, K, n + 1) = <<>>
        BY <2>7 DEF PartOf, L
      <3>2. a \o <<>> = a /\ b \o <<>> = b /\ (a \o b) \o <<>> = a \o b
        <4>1. a \o b \in Seq(S)
          BY <2>3
        <4> HIDE DEF a, b, x
        <4> QED
          BY ONLY <2>3, <4>1, ConcatEmptySeq
      <3> QED
        BY <2>3, <2>4, <3>1, <3>2
    <2> QED
      BY <2>5, <2>6, <2>7
  <1>3. Nat \subseteq V
    <2> HIDE DEF V
    <2> QED
      BY <1>1, <1>2, SetInduction
  <1> QED
    <2>1. N \in V
      BY <1>3
    <2>2. Part(h, L, N) = Part(h, J, N) \o Part(h, K, N)
      BY <2>1
    <2> QED
      BY ONLY <2>2 DEF L

\* The union of the sets of the members of C up to m.
Joint(D, C, m) == UNION {D[e] : e \in C \cap 1 .. m}

\* Parts put together in the order of the sets they are of.
InSequence(D, C, M) ==
  /\ \A e \in 1 .. M : D[e] \in SUBSET Nat
  /\ \A d, e \in C \cap 1 .. M : d < e => \A j \in D[d], k \in D[e] : j < k
AreParts(g, h, D, N, M) == \A e \in 1 .. M : g[e] = Part(h, D[e], N)

LEMMA PartsTogether ==
  ASSUME NEW S, NEW N \in Nat, NEW h, TypedUpTo(h, N, S),
         NEW M \in Nat, NEW C, NEW D, InSequence(D, C, M),
         NEW g, AreParts(g, h, D, N, M)
  PROVE  Part(g, C, M) = Part(h, Joint(D, C, M), N)
  <1> DEFINE V == {m \in Nat : m <= M => Part(g, C, m) = Part(h, Joint(D, C, m), N)}
  <1>4. /\ \A i \in 1 .. N : h[i] \in Seq(S)
        /\ \A e \in 1 .. M : D[e] \in SUBSET Nat /\ g[e] = Part(h, D[e], N)
        /\ \A d, e \in C \cap 1 .. M : d < e => \A j \in D[d], k \in D[e] : j < k
    BY DEF TypedUpTo, InSequence, AreParts
  <1>1. 0 \in V
    <2>1. Joint(D, C, 0) = {}
      BY DEF Joint
    <2>2. Part(h, {}, N) = <<>>
      <3>1. N \in 0 .. N /\ TypedUpTo(h, N, S) /\ NoneUpTo({}, N)
        BY DEF TypedUpTo, NoneUpTo
      <3> QED
        BY <3>1, PartNone
    <2> QED
      BY <2>1, <2>2, PartNothing
  <1>2. ASSUME NEW m \in V \cap Nat PROVE m + 1 \in V
    <2> SUFFICES ASSUME m + 1 <= M PROVE Part(g, C, m + 1) = Part(h, Joint(D, C, m + 1), N)
      OBVIOUS
    <2>1. m + 1 \in 1 .. M /\ \A e \in 1 .. m + 1 : e \in 1 .. M
      OBVIOUS
    <2>2. \A e \in 1 .. m + 1 : g[e] \in Seq(S)
      BY <1>4, <2>1, PartTyped
    <2>3. Part(g, C, m) \in Seq(S) /\ Part(g, C, m + 1) = Part(g, C, m) \o PartOf(g, C, m + 1)
      BY <2>2, PartGrows
    <2>4. Part(g, C, m) = Part(h, Joint(D, C, m), N)
      BY <2>1
    <2>5. CASE m + 1 \in C
      <3>1. PartOf(g, C, m + 1) = Part(h, D[m + 1], N)
        BY <1>4, <2>1, <2>5 DEF PartOf
      <3>2. Joint(D, C, m + 1) = Joint(D, C, m) \cup D[m + 1]
        <4>1. C \cap 1 .. m + 1 = (C \cap 1 .. m) \cup {m + 1}
          BY <2>5
        <4> QED
          BY <4>1 DEF Joint
      <3>3. Joint(D, C, m) \in SUBSET Nat /\ D[m + 1] \in SUBSET Nat
        BY <1>4, <2>1 DEF Joint
      <3>4. \A j \in Joint(D, C, m), k \in D[m + 1] : j < k
        <4> SUFFICES ASSUME NEW j \in Joint(D, C, m), NEW k \in D[m + 1] PROVE j < k
          OBVIOUS
        <4>1. PICK d \in C \cap 1 .. m : j \in D[d]
          BY DEF Joint
        <4>2. d \in C \cap 1 .. M /\ m + 1 \in C \cap 1 .. M /\ d < m + 1
          BY <2>1, <2>5
        <4> QED
          BY <1>4, <4>1, <4>2
      <3>5. Part(h, Joint(D, C, m) \cup D[m + 1], N)
              = Part(h, Joint(D, C, m), N) \o Part(h, D[m + 1], N)
        BY <1>4, <3>3, <3>4, PartSplit
      <3> QED
        BY <2>3, <2>4, <3>1, <3>2, <3>5
    <2>6. CASE m + 1 \notin C
      <3>1. PartOf(g, C, m + 1) = <<>>
        BY <2>6 DEF PartOf
      <3>2. Joint(D, C, m + 1) = Joint(D, C, m)
        <4>1. C \cap 1 .. m + 1 = C \cap 1 .. m
          BY <2>6
        <4> QED
          BY <4>1 DEF Joint
      <3> QED
        BY <2>3, <2>4, <3>1, <3>2, ConcatEmptySeq
    <2> QED
      BY <2>5, <2>6
  <1>3. Nat \subseteq V
    <2> HIDE DEF V
    <2> QED
      BY <1>1, <1>2, SetInduction
  <1> QED
    BY <1>3

-----------------------------------------------------------------------------
(* The books of an engine *)

OrderRecords == [id : Nat, side : Sides, instrument : Instruments, qty : Int, price : Int,
                 timestamp : Int]
Books == [buys : Seq(OrderRecords), sells : Seq(OrderRecords)]
Matches == [book : Books, order : OrderRecords, trades : Seq(TradeLines)]

LEMMA OrdersReducible == Reducible(OrderRecords)
  BY DEF Reducible, OrderRecords

LEMMA TradedBook ==
  ASSUME NEW book \in Books, NEW o, HasContra(book, o), NEW q \in Int
  PROVE  AfterTrade(book, o, q) \in Books
  <1> DEFINE n == AfterTrade(book, o, q)
  <1>1. book.buys \in Seq(OrderRecords) /\ book.sells \in Seq(OrderRecords)
    BY DEF Books
  <1>2. CASE o.side = "BUY"
    <2> DEFINE c == book.sells
               w == PurgeContainer(Reduced(c, q))
               v == PurgeContainer(book.buys)
    <2>1. Against(o) = "sells" /\ c # <<>>
      BY <1>2 DEF Against, HasContra, ContraOrders
    <2>2. n = [buys |-> v, sells |-> w]
      BY <2>1 DEF AfterTrade, Purge, Reduced, Books
    <2>3. w \in Seq(OrderRecords)
      <3>1. w = PurgeContainer(Reduced(c, q)) /\ c \in Seq(OrderRecords)
        BY <1>1
      <3> HIDE DEF w, c
      <3> QED
        BY <2>1, <3>1, FrontTraded, OrdersReducible
    <2>4. v \in Seq(OrderRecords)
      BY <1>1, Purged
    <2> HIDE DEF v, w, n
    <2>5. n \in Books
      BY <2>2, <2>3, <2>4 DEF Books
    <2> QED
      BY <2>5 DEF n
  <1>3. CASE o.side # "BUY"
    <2> DEFINE c == book.buys
               w == PurgeContainer(Reduced(c, q))
               v == PurgeContainer(book.sells)
    <2>1. Against(o) = "buys" /\ c # <<>>
      BY <1>3 DEF Against, HasContra, ContraOrders
    <2>2. n = [buys |-> w, sells |-> v]
      BY <2>1 DEF AfterTrade, Purge, Reduced, Books
    <2>3. w \in Seq(OrderRecords)
      <3>1. w = PurgeContainer(Reduced(c, q)) /\ c \in Seq(OrderRecords)
        BY <1>1
      <3> HIDE DEF w, c
      <3> QED
        BY <2>1, <3>1, FrontTraded, OrdersReducible
    <2>4. v \in Seq(OrderRecords)
      BY <1>1, Purged
    <2> HIDE DEF v, w, n
    <2>5. n \in Books
      BY <2>2, <2>3, <2>4 DEF Books
    <2> QED
      BY <2>5 DEF n
  <1> QED
    BY <1>2, <1>3

LEMMA ContrasTyped ==
  ASSUME NEW book \in Books, NEW o
  PROVE  ContraOrders(book, o) \in Seq(OrderRecords)
  <1>1. ContraOrders(book, o) \in {book.buys, book.sells}
    BY DEF ContraOrders, Against, Books
  <1> QED
    BY <1>1 DEF Books

LEMMA TradedOnce ==
  ASSUME NEW m \in Matches
  PROVE  Round(m) \in Matches
  <1>1. CASE CanTrade(m)
    <2> DEFINE f == FrontContra(m.book, m.order)
               x == TradeLine(m.order, f)
    <2>1. /\ m.book \in Books /\ m.order \in OrderRecords /\ m.trades \in Seq(TradeLines)
          /\ HasContra(m.book, m.order)
      BY <1>1 DEF Matches, CanTrade
    <2>2. f \in OrderRecords
      <3>1. ContraOrders(m.book, m.order) \in Seq(OrderRecords)
        BY <2>1, ContrasTyped
      <3>2. ContraOrders(m.book, m.order) # <<>>
        BY <2>1 DEF HasContra
      <3> QED
        BY <3>1, <3>2 DEF FrontContra
    <2>3. x \in TradeLines /\ x.qty \in Int
      <3>1. TradeQuantity(m.order, f) \in Int
        BY <2>1, <2>2 DEF TradeQuantity, OrderRecords
      <3> HIDE DEF f
      <3> QED
        BY <2>1, <2>2, <3>1 DEF TradeLine, TradeLines, OrderRecords
    <2>4. TradeOnce(m) = [book   |-> AfterTrade(m.book, m.order, x.qty),
                          order  |-> [m.order EXCEPT !.qty = @ - x.qty],
                          trades |-> Append(m.trades, x)]
      BY DEF TradeOnce
    <2> HIDE DEF x, f
    <2>5. AfterTrade(m.book, m.order, x.qty) \in Books
      BY <2>1, <2>3, TradedBook
    <2>6. [m.order EXCEPT !.qty = @ - x.qty] \in OrderRecords
      BY <2>1, <2>3 DEF OrderRecords
    <2>7. Append(m.trades, x) \in Seq(TradeLines)
      BY <2>1, <2>3
    <2>8. TradeOnce(m) \in Matches
      BY <2>4, <2>5, <2>6, <2>7 DEF Matches
    <2> QED
      BY <1>1, <2>8 DEF Round
  <1>2. CASE ~CanTrade(m)
    BY <1>2 DEF Round
  <1> QED
    BY <1>1, <1>2

LEMMA AllTraded ==
  ASSUME NEW m \in Matches
  PROVE  TradeAll(m) \in Matches
  <1> DEFINE N == Contras(m)
  <1>1. N \in Nat
    <2>1. ContraOrders(m.book, m.order) \in Seq(OrderRecords)
      BY ContrasTyped DEF Matches
    <2> QED
      BY <2>1 DEF Contras
  <1>2. PICK f : Rounds(f, m, N) /\ TradeAll(m) = f[N]
    BY <1>1, TradeAllRounds
  <1> HIDE DEF N
  <1> DEFINE T == {k \in Nat : k <= N => f[k] \in Matches}
  <1>3. 0 \in T
    BY <1>2 DEF Rounds
  <1>4. ASSUME NEW k \in T \cap Nat PROVE k + 1 \in T
    <2> SUFFICES ASSUME k + 1 <= N PROVE f[k + 1] \in Matches
      OBVIOUS
    <2>1. k + 1 \in 1 .. N /\ (k + 1) - 1 = k /\ f[k] \in Matches
      BY <1>1
    <2>2. f[k + 1] = Round(f[(k + 1) - 1])
      BY <1>2, <2>1 DEF Rounds
    <2> QED
      BY <2>1, <2>2, TradedOnce
  <1>5. Nat \subseteq T
    <2> HIDE DEF T
    <2> QED
      BY <1>3, <1>4, SetInduction
  <1>6. N \in T
    BY <1>1, <1>5
  <1>7. f[N] \in Matches
    BY <1>1, <1>6
  <1> QED
    BY <1>2, <1>7

LEMMA AddedBook ==
  ASSUME NEW book \in Books, NEW o \in OrderRecords
  PROVE  AddToBook(book, o) \in Books
  BY BookAdded DEF Books

LEMMA Matched ==
  ASSUME NEW book \in Books, NEW o \in OrderRecords
  PROVE  /\ MatchOrder(book, o).book \in Books
         /\ MatchOrder(book, o).trades \in Seq(TradeLines)
  <1> DEFINE m == [book |-> book, order |-> o, trades |-> <<>>]
             n == TradeAll(m)
  <1>1. m \in Matches
    BY DEF Matches
  <1>2. n \in Matches
    <2> HIDE DEF m
    <2> QED
      BY <1>1, AllTraded
  <1>3. MatchOrder(book, o) = Remains(n)
    BY DEF MatchOrder
  <1> HIDE DEF n
  <1>4. n.book \in Books /\ n.order \in OrderRecords /\ n.trades \in Seq(TradeLines)
    BY <1>2 DEF Matches
  <1>5. /\ [n EXCEPT !.book = AddToBook(@, n.order)].book = AddToBook(n.book, n.order)
        /\ [n EXCEPT !.book = AddToBook(@, n.order)].trades = n.trades
    BY <1>2 DEF Matches
  <1>6. AddToBook(n.book, n.order) \in Books
    BY <1>4, AddedBook
  <1> QED
    BY <1>3, <1>4, <1>5, <1>6 DEF Remains

-----------------------------------------------------------------------------
(* What an engine does with an order *)

IsLibrary(books) == DOMAIN books \subseteq Instruments /\ books \in [DOMAIN books -> Books]

MatchedIn(books, o) ==
  IF o.instrument \in DOMAIN books
  THEN MatchOrder(books[o.instrument], o)
  ELSE [book |-> AddToBook(EmptyBook, o), trades |-> <<>>]

LEMMA HandledIs ==
  ASSUME NEW books, NEW o
  PROVE  /\ Handled(books, o).books = [j \in DOMAIN books \cup {o.instrument} |->
                                         IF j = o.instrument THEN MatchedIn(books, o).book
                                                             ELSE books[j]]
         /\ Handled(books, o).trades = MatchedIn(books, o).trades
  BY DEF Handled, MatchedIn

LEMMA MatchedInTyped ==
  ASSUME NEW books, IsLibrary(books), NEW o \in OrderRecords
  PROVE  MatchedIn(books, o).book \in Books /\ MatchedIn(books, o).trades \in Seq(TradeLines)
  <1>1. CASE o.instrument \in DOMAIN books
    <2>1. books[o.instrument] \in Books
      BY <1>1 DEF IsLibrary
    <2> QED
      BY <1>1, <2>1, Matched DEF MatchedIn
  <1>2. CASE o.instrument \notin DOMAIN books
    <2>1. EmptyBook \in Books /\ <<>> \in Seq(TradeLines)
      BY DEF EmptyBook, Books
    <2>2. AddToBook(EmptyBook, o) \in Books
      BY <2>1, AddedBook
    <2> QED
      BY <1>2, <2>1, <2>2 DEF MatchedIn
  <1> QED
    BY <1>1, <1>2

HandledBooks(books, i, x) == [j \in DOMAIN books \cup {i} |-> IF j = i THEN x ELSE books[j]]

LEMMA HandledAre ==
  ASSUME NEW books, NEW o
  PROVE  /\ Handled(books, o).books
              = HandledBooks(books, o.instrument, MatchedIn(books, o).book)
         /\ Handled(books, o).trades = MatchedIn(books, o).trades
  BY HandledIs DEF HandledBooks

LEMMA HandledTyped ==
  ASSUME NEW books, NEW o, IsLibrary(books), o \in OrderRecords
  PROVE  /\ IsLibrary(Handled(books, o).books)
         /\ DOMAIN Handled(books, o).books = DOMAIN books \cup {o.instrument}
         /\ Handled(books, o).trades \in Seq(TradeLines)
  <1> DEFINE n == Handled(books, o).books
             i == o.instrument
             D == DOMAIN books \cup {i}
             x == MatchedIn(books, o).book
  <1>1. x \in Books /\ MatchedIn(books, o).trades \in Seq(TradeLines)
    BY MatchedInTyped
  <1>2. n = HandledBooks(books, i, x)
    BY HandledAre
  <1>3. D \subseteq Instruments /\ \A j \in DOMAIN books : books[j] \in Books
    BY DEF IsLibrary, OrderRecords
  <1> HIDE DEF n, x, i
  <1>4. DOMAIN n = D /\ \A j \in D : n[j] \in Books
    BY <1>1, <1>2, <1>3 DEF HandledBooks
  <1>5. n = [j \in D |-> n[j]]
    BY <1>2 DEF HandledBooks
  <1> HIDE DEF D
  <1>6. n \in [D -> Books]
    BY <1>4, <1>5
  <1>7. IsLibrary(n) /\ DOMAIN n = D
    BY <1>3, <1>4, <1>6 DEF IsLibrary
  <1> QED
    BY <1>1, <1>7, HandledAre DEF n, D, i

\* The books of some instruments.
On(I, books) == [i \in DOMAIN books \cap I |-> books[i]]

LEMMA OnHandled ==
  ASSUME NEW books, NEW I, NEW o
  PROVE  /\ o.instrument \in I =>
              /\ On(I, Handled(books, o).books) = Handled(On(I, books), o).books
              /\ Handled(books, o).trades = Handled(On(I, books), o).trades
         /\ o.instrument \notin I => On(I, Handled(books, o).books) = On(I, books)
  <1> DEFINE i == o.instrument
             n == Handled(books, o).books
             x == MatchedIn(books, o).book
             b == On(I, books)
  <1>1. /\ n = [j \in DOMAIN books \cup {i} |-> IF j = i THEN x ELSE books[j]]
        /\ Handled(books, o).trades = MatchedIn(books, o).trades
    BY HandledIs
  <1>2. DOMAIN b = DOMAIN books \cap I /\ \A j \in DOMAIN b : b[j] = books[j]
    BY DEF On
  <1>3. CASE i \in I
    <2>1. MatchedIn(b, o) = MatchedIn(books, o)
      BY <1>2, <1>3 DEF MatchedIn
    <2>2. /\ Handled(b, o).books = [j \in DOMAIN b \cup {i} |-> IF j = i THEN x ELSE b[j]]
          /\ Handled(b, o).trades = MatchedIn(books, o).trades
      BY <2>1, HandledIs
    <2>3. On(I, n) = [j \in DOMAIN n \cap I |-> n[j]]
      BY DEF On
    <2> HIDE DEF n, x, b, i
    <2>4. DOMAIN n \cap I = DOMAIN b \cup {i}
      BY <1>1, <1>2, <1>3
    <2>5. ASSUME NEW j \in DOMAIN b \cup {i}
          PROVE  n[j] = IF j = i THEN x ELSE b[j]
      BY <1>1, <1>2, <1>3
    <2>6. On(I, n) = Handled(b, o).books
      BY <2>2, <2>3, <2>4, <2>5
    <2> QED
      BY <1>1, <1>3, <2>2, <2>6 DEF n, b, i
  <1>4. CASE i \notin I
    <2>1. On(I, n) = [j \in DOMAIN n \cap I |-> n[j]] /\ b = [j \in DOMAIN books \cap I |-> books[j]]
      BY DEF On
    <2> HIDE DEF n, x, b, i
    <2>2. DOMAIN n \cap I = DOMAIN books \cap I
      BY <1>1, <1>4
    <2>3. ASSUME NEW j \in DOMAIN books \cap I PROVE n[j] = books[j]
      BY <1>1, <1>4
    <2>4. On(I, n) = b
      BY <2>1, <2>2, <2>3
    <2> QED
      BY <1>4, <2>4 DEF n, b, i
  <1> QED
    BY <1>3, <1>4

LEMMA OnTyped ==
  ASSUME NEW books, IsLibrary(books), NEW I
  PROVE  IsLibrary(On(I, books)) /\ DOMAIN On(I, books) = DOMAIN books \cap I
  BY DEF IsLibrary, On

-----------------------------------------------------------------------------
(* The one matcher of the reference *)

\* What it has after another order.
Then(before, o) ==
  [books |-> Handled(before.books, o).books,
   texts |-> before.texts \o TradeText(o, Handled(before.books, o).trades)]

Turns(f, orders) ==
  /\ f[0] = [books |-> <<>>, texts |-> <<>>]
  /\ \A n \in 1 .. Len(orders) : f[n] = Then(f[n - 1], orders[n])

LEMMA InTurnDefined ==
  ASSUME NEW orders, Len(orders) \in Nat
  PROVE  Turns(InTurn(orders), orders)
  <1> DEFINE N == Len(orders)
             start == [books |-> <<>>, texts |-> <<>>]
             e(g, k) == IF k = 0 THEN start ELSE Then(g[k - 1], orders[k])
             From(n) == \E g : g = [k \in 0 .. n |-> e(g, k)]
             T == {n \in Nat : From(n)}
  <1>1. From(0)
    <2> DEFINE g == [k \in 0 .. 0 |-> start]
    <2> HIDE DEF start
    <2>1. g = [k \in 0 .. 0 |-> e(g, k)]
      OBVIOUS
    <2> HIDE DEF g
    <2> QED
      BY <2>1
  <1>2. ASSUME NEW n \in Nat, From(n) PROVE From(n + 1)
    <2>1. PICK g : g = [k \in 0 .. n |-> e(g, k)]
      BY <1>2
    <2> HIDE DEF start
    <2> DEFINE h == [k \in 0 .. n + 1 |-> IF k = n + 1 THEN e(g, k) ELSE g[k]]
    <2>2. ASSUME NEW k \in 0 .. n + 1 PROVE e(h, k) = e(g, k)
      <3>1. k # 0 => h[k - 1] = g[k - 1]
        OBVIOUS
      <3> HIDE DEF h
      <3> QED
        BY <3>1
    <2>3. ASSUME NEW k \in 0 .. n + 1 PROVE h[k] = e(g, k)
      <3>1. CASE k = n + 1
        BY <3>1
      <3>2. CASE k # n + 1
        BY <2>1, <3>2
      <3> QED
        BY <3>1, <3>2
    <2>4. h = [k \in 0 .. n + 1 |-> e(h, k)]
      BY <2>2, <2>3
    <2> HIDE DEF h
    <2> QED
      BY <2>4
  <1> HIDE DEF From
  <1>3. From(N)
    <2>1. 0 \in T /\ \A n \in T \cap Nat : n + 1 \in T
      BY <1>1, <1>2
    <2>2. Nat \subseteq T
      <3> HIDE DEF T
      <3> QED
        BY <2>1, SetInduction
    <2> HIDE DEF N
    <2>3. N \in T
      BY <2>2 DEF N
    <2> QED
      BY <2>3
  <1> DEFINE f == CHOOSE g : g = [k \in 0 .. N |-> e(g, k)]
  <1>4. f = [k \in 0 .. N |-> e(f, k)]
    BY <1>3 DEF From
  <1>5. InTurn(orders) = f
    BY DEF InTurn, Then
  <1> HIDE DEF f, N
  <1>6. N \in Nat
    BY DEF N
  <1> HIDE DEF start
  <1>7. f[0] = start
    BY <1>4, <1>6
  <1>8. ASSUME NEW n \in 1 .. N PROVE f[n] = Then(f[n - 1], orders[n])
    BY <1>4, <1>6
  <1> QED
    BY <1>5, <1>7, <1>8 DEF Turns, N, start

\* The one matcher's turns at the lines of the input.
Turn(in) == InTurn([p \in DOMAIN in |-> OrderOf(p, in[p])])

\* The lines up to r can be read.
Readable(in, r) == in \in Seq(Lines \cup {Malformed}) /\ r \in 0 .. Len(in)
                   /\ \A p \in 1 .. r : in[p] # Malformed

LEMMA TurnIs ==
  ASSUME NEW in, in \in Seq(Lines \cup {Malformed})
  PROVE  /\ Turn(in)[0] = [books |-> <<>>, texts |-> <<>>]
         /\ \A n \in 1 .. Len(in) : Turn(in)[n] = Then(Turn(in)[n - 1], OrderOf(n, in[n]))
  <1> DEFINE orders == [p \in DOMAIN in |-> OrderOf(p, in[p])]
  <1>1. Len(in) \in Nat /\ DOMAIN in = 1 .. Len(in)
    OBVIOUS
  <1>2. Len(orders) = Len(in) /\ \A n \in 1 .. Len(in) : orders[n] = OrderOf(n, in[n])
    BY <1>1
  <1> HIDE DEF orders
  <1>3. Turns(InTurn(orders), orders)
    BY <1>1, <1>2, InTurnDefined
  <1>4. Turn(in) = InTurn(orders)
    BY DEF Turn, orders
  <1> QED
    BY <1>2, <1>3, <1>4 DEF Turns

Listed == {line.instrument : line \in Lines}
Texts(I) == [instrument : Instruments \cap I, content : TradeLines \cup OrderRecords]

LEMMA OrderTyped ==
  ASSUME NEW line \in Lines, NEW p \in Nat
  PROVE  /\ OrderOf(p, line) \in OrderRecords
         /\ OrderOf(p, line).instrument = line.instrument
         /\ line.instrument \in Instruments \cap Listed
  <1>1. line \in [side : Sides, instrument : Instruments, qty : Int, price : Int, timestamp : Int]
    BY ExchangeAssumption
  <1> QED
    BY <1>1 DEF OrderOf, OrderRecords, Listed

LEMMA LinesReadable ==
  ASSUME NEW in, NEW r, Readable(in, r), NEW p \in 1 .. r
  PROVE  in[p] \in Lines /\ p \in 1 .. Len(in) /\ p \in Nat
  BY DEF Readable

LEMMA TradeTextTyped ==
  ASSUME NEW o \in OrderRecords, NEW t \in Seq(TradeLines)
  PROVE  TradeText(o, t) \in Seq(Texts({o.instrument}))
  <1>1. /\ DOMAIN t = 1 .. Len(t) /\ Len(t) \in Nat /\ o.instrument \in Instruments
        /\ \A k \in 1 .. Len(t) : t[k] \in TradeLines
    BY DEF OrderRecords
  <1>2. \A k \in 1 .. Len(t) : Text(o.instrument, t[k]) \in Texts({o.instrument})
    BY <1>1 DEF Text, Texts
  <1>3. TradeText(o, t) = [k \in 1 .. Len(t) |-> Text(o.instrument, t[k])]
    BY <1>1 DEF TradeText
  <1> DEFINE S == Texts({o.instrument})
  <1> HIDE DEF S
  <1>4. \A k \in 1 .. Len(t) : Text(o.instrument, t[k]) \in S
    BY <1>2 DEF S
  <1>5. [k \in 1 .. Len(t) |-> Text(o.instrument, t[k])] \in Seq(S)
    BY <1>1, <1>4
  <1> QED
    BY <1>3, <1>5 DEF S

LEMMA PiecesTyped ==
  ASSUME NEW T, NEW t \in Seq(T)
  PROVE  Pieces(t) \in Seq(PiecesOf(T))
  <1>1. CASE t = <<>>
    <2>1. Pieces(t) = <<>> /\ <<>> \in Seq(PiecesOf(T))
      BY <1>1, PiecesNone
    <2> QED
      BY <2>1
  <1>2. CASE t # <<>>
    <2>1. PICK x \in T : TRUE
      <3>1. t[1] \in T
        BY <1>2
      <3> QED
        BY <3>1
    <2> QED
      BY <2>1, PiecesAppend
  <1> QED
    BY <1>1, <1>2

LEMMA TextsWider ==
  ASSUME NEW I, NEW J, I \subseteq J
  PROVE  Texts(I) \subseteq Texts(J)
  BY DEF Texts

TurnGood(t) == /\ IsLibrary(t.books) /\ DOMAIN t.books \subseteq Listed
               /\ t.texts \in Seq(Texts(Listed))

LEMMA ThenGood ==
  ASSUME NEW before, TurnGood(before), NEW o, o \in OrderRecords, o.instrument \in Listed
  PROVE  TurnGood(Then(before, o))
  <1> DEFINE h == Handled(before.books, o)
             x == TradeText(o, h.trades)
  <1>1. /\ Then(before, o).books = h.books
        /\ Then(before, o).texts = before.texts \o x
    BY DEF Then
  <1>2. /\ IsLibrary(h.books) /\ DOMAIN h.books = DOMAIN before.books \cup {o.instrument}
        /\ h.trades \in Seq(TradeLines)
    BY HandledTyped DEF TurnGood
  <1>3. x \in Seq(Texts({o.instrument}))
    BY <1>2, TradeTextTyped
  <1> HIDE DEF h, x
  <1>4. x \in Seq(Texts(Listed))
    <2>1. Texts({o.instrument}) \subseteq Texts(Listed)
      BY TextsWider
    <2> QED
      BY ONLY <1>3, <2>1, SeqWider
  <1>5. before.texts \o x \in Seq(Texts(Listed))
    BY <1>4 DEF TurnGood
  <1> QED
    BY <1>1, <1>2, <1>5 DEF TurnGood

LEMMA TurnTyped ==
  ASSUME NEW in, NEW r, Readable(in, r), NEW n \in 0 .. r
  PROVE  TurnGood(Turn(in)[n])
  <1> DEFINE V == {k \in Nat : k <= r => TurnGood(Turn(in)[k])}
  <1>1. in \in Seq(Lines \cup {Malformed}) /\ r \in Nat /\ r <= Len(in) /\ Len(in) \in Nat
    BY DEF Readable
  <1>2. 0 \in V
    <2>1. Turn(in)[0].books = <<>> /\ Turn(in)[0].texts = <<>>
      BY <1>1, TurnIs
    <2>2. DOMAIN <<>> = {} /\ <<>> \in Seq(Texts(Listed)) /\ <<>> \in [{} -> Books]
      OBVIOUS
    <2> QED
      BY <2>1, <2>2 DEF TurnGood, IsLibrary
  <1>3. ASSUME NEW k \in V \cap Nat PROVE k + 1 \in V
    <2> SUFFICES ASSUME k + 1 <= r PROVE TurnGood(Turn(in)[k + 1])
      OBVIOUS
    <2>1. k + 1 \in 1 .. r /\ (k + 1) - 1 = k /\ TurnGood(Turn(in)[k]) /\ k + 1 \in 1 .. Len(in)
      BY <1>1
    <2>2. Turn(in)[k + 1] = Then(Turn(in)[k], OrderOf(k + 1, in[k + 1]))
      BY <1>1, <2>1, TurnIs
    <2>3. OrderOf(k + 1, in[k + 1]) \in OrderRecords /\ OrderOf(k + 1, in[k + 1]).instrument \in Listed
      BY <2>1, LinesReadable, OrderTyped
    <2> QED
      BY <2>1, <2>2, <2>3, ThenGood
  <1>4. Nat \subseteq V
    <2> HIDE DEF V
    <2> QED
      BY <1>2, <1>3, SetInduction
  <1>5. n \in V
    BY <1>1, <1>4
  <1> QED
    BY <1>1, <1>5

-----------------------------------------------------------------------------
(* What the matcher has of some instruments *)

ViewBooks(I, t) == On(I, t.books)
ViewPieces(I, t) == Only(I, Pieces(t.texts))

LEMMA ViewThen ==
  ASSUME NEW before, TurnGood(before), NEW I, NEW o, o \in OrderRecords, NEW h,
         h = Handled(ViewBooks(I, before), o)
  PROVE  /\ o.instrument \in I =>
              /\ ViewBooks(I, Then(before, o)) = h.books
              /\ ViewPieces(I, Then(before, o))
                   = ViewPieces(I, before) \o Pieces(TradeText(o, h.trades))
         /\ o.instrument \notin I =>
              /\ ViewBooks(I, Then(before, o)) = ViewBooks(I, before)
              /\ ViewPieces(I, Then(before, o)) = ViewPieces(I, before)
  <1> DEFINE b == before.books
             t == before.texts
             g == Handled(b, o)
             x == TradeText(o, g.trades)
  <1>1. /\ Then(before, o).books = g.books
        /\ Then(before, o).texts = t \o x
    BY DEF Then
  <1>2. /\ IsLibrary(b) /\ t \in Seq(Texts(Listed)) /\ g.trades \in Seq(TradeLines)
    BY HandledTyped DEF TurnGood
  <1>3. x \in Seq(Texts({o.instrument}))
    BY <1>2, TradeTextTyped
  <1>4. /\ o.instrument \in I => On(I, g.books) = h.books /\ g.trades = h.trades
        /\ o.instrument \notin I => On(I, g.books) = On(I, b)
    BY OnHandled DEF ViewBooks
  <1> HIDE DEF g, x, t, b
  <1>5. t \in Seq(Texts(Instruments)) /\ x \in Seq(Texts(Instruments))
    <2>1. Texts({o.instrument}) \subseteq Texts(Instruments) /\ Texts(Listed) \subseteq Texts(Instruments)
      BY DEF Texts
    <2> QED
      BY ONLY <1>2, <1>3, <2>1, SeqWider
  <1>6. Pieces(t \o x) = Pieces(t) \o Pieces(x)
    BY ONLY <1>5, PiecesConcat
  <1> DEFINE P == PiecesOf(Texts(Instruments))
             Q == PiecesOf(Texts({o.instrument}))
  <1>7. Pieces(t) \in Seq(P) /\ Pieces(x) \in Seq(P) /\ Pieces(x) \in Seq(Q)
    <2>1. Pieces(t) \in Seq(P) /\ Pieces(x) \in Seq(P)
      BY ONLY <1>5, PiecesTyped
    <2>2. Pieces(x) \in Seq(Q)
      BY ONLY <1>3, PiecesTyped
    <2> QED
      BY <2>1, <2>2
  <1>8. \A y \in Q : y.text.instrument = o.instrument
    BY DEF PiecesOf, Texts
  <1> HIDE DEF P, Q
  <1>9. Only(I, Pieces(t \o x)) = Only(I, Pieces(t)) \o Only(I, Pieces(x))
    BY ONLY <1>6, <1>7, OnlyConcat
  <1>10. Only(I, Pieces(t)) \in Seq(P)
    BY ONLY <1>7, OnlyTyped
  <1>11. CASE o.instrument \in I
    <2>1. \A y \in Q : y.text.instrument \in I
      BY <1>8, <1>11
    <2>2. Only(I, Pieces(x)) = Pieces(x)
      BY ONLY <1>7, <2>1, OnlyAll
    <2> QED
      BY <1>1, <1>4, <1>9, <1>11, <2>2 DEF ViewBooks, ViewPieces, x, t, b
  <1>12. CASE o.instrument \notin I
    <2>1. \A y \in Q : y.text.instrument \notin I
      BY <1>8, <1>12
    <2>2. Only(I, Pieces(x)) = <<>>
      BY ONLY <1>7, <2>1, OnlyNone
    <2>3. Only(I, Pieces(t)) \o <<>> = Only(I, Pieces(t))
      BY ONLY <1>10, ConcatEmptySeq
    <2> QED
      BY <1>1, <1>4, <1>9, <1>12, <2>2, <2>3 DEF ViewBooks, ViewPieces, x, t, b
  <1> QED
    BY <1>11, <1>12

LEMMA TurnSkips ==
  ASSUME NEW in, NEW r, Readable(in, r), NEW I, NEW m \in 0 .. r, NEW n \in m .. r,
         \A p \in m + 1 .. n : in[p].instrument \notin I
  PROVE  /\ ViewBooks(I, Turn(in)[n]) = ViewBooks(I, Turn(in)[m])
         /\ ViewPieces(I, Turn(in)[n]) = ViewPieces(I, Turn(in)[m])
  <1> DEFINE B(k) == ViewBooks(I, Turn(in)[k])
             P(k) == ViewPieces(I, Turn(in)[k])
             V == {k \in Nat : m + k <= n => B(m + k) = B(m) /\ P(m + k) = P(m)}
  <1>1. /\ in \in Seq(Lines \cup {Malformed}) /\ r \in Nat /\ r <= Len(in) /\ Len(in) \in Nat
        /\ m \in Nat /\ n \in Nat /\ m <= n /\ n <= r /\ m + 0 = m
    BY DEF Readable
  <1>2. 0 \in V
    BY <1>1
  <1>3. ASSUME NEW k \in V \cap Nat PROVE k + 1 \in V
    <2> SUFFICES ASSUME m + (k + 1) <= n PROVE B(m + (k + 1)) = B(m) /\ P(m + (k + 1)) = P(m)
      OBVIOUS
    <2>1. PICK q \in Nat : q = m + (k + 1)
      BY <1>1
    <2>2. q - 1 = m + k /\ q \in m + 1 .. n /\ q \in 1 .. r /\ q - 1 \in 0 .. r /\ q \in 1 .. Len(in)
      BY <1>1, <2>1
    <2>3. B(q - 1) = B(m) /\ P(q - 1) = P(m)
      BY <1>1, <2>2
    <2>4. Turn(in)[q] = Then(Turn(in)[q - 1], OrderOf(q, in[q]))
      BY <1>1, <2>2, TurnIs
    <2>5. OrderOf(q, in[q]) \in OrderRecords /\ OrderOf(q, in[q]).instrument \notin I
      BY <2>2, LinesReadable, OrderTyped
    <2>6. TurnGood(Turn(in)[q - 1])
      BY <2>2, TurnTyped
    <2>7. B(q) = B(q - 1) /\ P(q) = P(q - 1)
      BY <2>4, <2>5, <2>6, ViewThen
    <2> QED
      BY <2>1, <2>3, <2>7
  <1>4. Nat \subseteq V
    <2> HIDE DEF V
    <2> QED
      BY <1>2, <1>3, SetInduction
  <1>5. n - m \in V /\ m + (n - m) = n
    BY <1>1, <1>4
  <1> QED
    BY <1>1, <1>5

-----------------------------------------------------------------------------
(* The instruments and the lines of an engine *)

\* With the setup s: InstrumentsOf and Mine.
Given(s, e) == {line.instrument : line \in {l \in Lines : s.find_engine[l] = e}}
LinesOf(in, s, e, n) == {p \in 1 .. n : in[p] # Malformed /\ s.find_engine[in[p]] = e}

LEMMA EnginesNumbered ==
  ASSUME NEW s \in Setups
  PROVE  /\ \A line \in Lines : s.find_engine[line] \in s.engines /\ line.instrument \in Instruments
         /\ s.engines \subseteq 1 .. LastEngine /\ LastEngine \in Nat /\ Engines = 1 .. LastEngine
         /\ \A a, b \in Lines : a.instrument <= b.instrument => s.find_engine[a] <= s.find_engine[b]
  <1>1. s.engines \subseteq Engines /\ s.find_engine \in [Lines -> s.engines]
    BY PoolAssumption
  <1>2. \A line \in Lines : line.instrument \in Instruments
    BY ExchangeAssumption
  <1> QED
    BY <1>1, <1>2, ExchangeAssumption

LEMMA GivenTo ==
  ASSUME NEW s \in Setups, NEW e, NEW line \in Lines
  PROVE  line.instrument \in Given(s, e) <=> s.find_engine[line] = e
  <1>1. s.find_engine[line] = e => line.instrument \in Given(s, e)
    BY DEF Given
  <1>2. ASSUME line.instrument \in Given(s, e) PROVE s.find_engine[line] = e
    <2>1. PICK l \in Lines : s.find_engine[l] = e /\ line.instrument = l.instrument
      BY <1>2 DEF Given
    <2>2. line.instrument \in Int /\ l.instrument \in Int
      BY EnginesNumbered DEF Instruments
    <2>3. line.instrument <= l.instrument /\ l.instrument <= line.instrument
      BY <2>1, <2>2
    <2>4. s.find_engine[line] <= s.find_engine[l] /\ s.find_engine[l] <= s.find_engine[line]
      BY <2>3, EnginesNumbered
    <2>5. s.find_engine[line] \in Int /\ s.find_engine[l] \in Int
      BY EnginesNumbered
    <2> QED
      BY <2>1, <2>4, <2>5
  <1> QED
    BY <1>1, <1>2

LEMMA GivenInOrder ==
  ASSUME NEW s \in Setups, NEW d \in Int, NEW e \in Int, d < e,
         NEW j \in Given(s, d), NEW k \in Given(s, e)
  PROVE  j < k
  <1>1. PICK l \in Lines : s.find_engine[l] = d /\ j = l.instrument
    BY DEF Given
  <1>2. PICK m \in Lines : s.find_engine[m] = e /\ k = m.instrument
    BY DEF Given
  <1>3. j \in Int /\ k \in Int
    BY <1>1, <1>2, EnginesNumbered DEF Instruments
  <1>4. ~(k <= j)
    BY <1>1, <1>2, EnginesNumbered
  <1> QED
    BY <1>3, <1>4

LEMMA GivenAll ==
  ASSUME NEW s \in Setups
  PROVE  /\ \A e : Given(s, e) \subseteq Instruments
         /\ \A i \in Listed : \E e \in s.engines : i \in Given(s, e)
         /\ \A e : Given(s, e) \subseteq Listed
  BY EnginesNumbered DEF Given, Listed

LEMMA NotOurs ==
  ASSUME NEW s \in Setups, NEW in, NEW r, Readable(in, r), NEW e, NEW n \in 0 .. r,
         NEW p \in 1 .. n, p \notin LinesOf(in, s, e, n)
  PROVE  in[p].instrument \notin Given(s, e)
  <1>1. p \in 1 .. r
    BY DEF Readable
  <1>2. in[p] \in Lines /\ in[p] # Malformed
    BY <1>1, LinesReadable DEF Readable
  <1> QED
    BY <1>2, GivenTo DEF LinesOf

LEMMA SameViewFrom ==
  ASSUME NEW s \in Setups, NEW in, NEW r, Readable(in, r), NEW e,
         NEW m \in 0 .. r, NEW n \in m .. r, LinesOf(in, s, e, m) = LinesOf(in, s, e, n)
  PROVE  /\ ViewBooks(Given(s, e), Turn(in)[n]) = ViewBooks(Given(s, e), Turn(in)[m])
         /\ ViewPieces(Given(s, e), Turn(in)[n]) = ViewPieces(Given(s, e), Turn(in)[m])
  <1>1. ASSUME NEW p \in m + 1 .. n PROVE in[p].instrument \notin Given(s, e)
    <2>1. p \in 1 .. n /\ n \in 0 .. r /\ p \notin 1 .. m
      BY DEF Readable
    <2>2. p \notin LinesOf(in, s, e, m)
      BY <2>1 DEF LinesOf
    <2>3. p \notin LinesOf(in, s, e, n)
      BY <2>2
    <2> QED
      BY ONLY <2>1, <2>3, NotOurs, Readable(in, r), s \in Setups
  <1> QED
    BY <1>1, TurnSkips

LEMMA SameView ==
  ASSUME NEW s \in Setups, NEW in, NEW r, Readable(in, r), NEW e,
         NEW m \in 0 .. r, NEW n \in 0 .. r, LinesOf(in, s, e, m) = LinesOf(in, s, e, n)
  PROVE  /\ ViewBooks(Given(s, e), Turn(in)[n]) = ViewBooks(Given(s, e), Turn(in)[m])
         /\ ViewPieces(Given(s, e), Turn(in)[n]) = ViewPieces(Given(s, e), Turn(in)[m])
  <1>1. n \in m .. r \/ m \in n .. r
    BY DEF Readable
  <1>2. CASE n \in m .. r
    BY <1>2, SameViewFrom
  <1>3. CASE m \in n .. r
    BY <1>3, SameViewFrom
  <1> QED
    BY <1>1, <1>2, <1>3

\* An engine that has come as far as the matcher had after n lines, and works on
\* its next line p.
LEMMA NextView ==
  ASSUME NEW s \in Setups, NEW in, NEW r, Readable(in, r), NEW e, NEW n \in 0 .. r,
         NEW p \in 1 .. r, s.find_engine[in[p]] = e,
         LinesOf(in, s, e, n) = LinesOf(in, s, e, p - 1),
         NEW o, o = OrderOf(p, in[p]),
         NEW b, b = ViewBooks(Given(s, e), Turn(in)[n]), NEW h, h = Handled(b, o)
  PROVE  /\ ViewBooks(Given(s, e), Turn(in)[p]) = h.books
         /\ ViewPieces(Given(s, e), Turn(in)[p])
              = ViewPieces(Given(s, e), Turn(in)[n]) \o Pieces(TradeText(o, h.trades))
         /\ TurnGood(Turn(in)[p]) /\ TurnGood(Turn(in)[n])
         /\ o \in OrderRecords /\ h.trades \in Seq(TradeLines) /\ o.instrument \in Given(s, e)
  <1> DEFINE I == Given(s, e)
             t == Turn(in)[p - 1]
  <1>1. p - 1 \in 0 .. r /\ p \in 1 .. Len(in) /\ in \in Seq(Lines \cup {Malformed})
        /\ p \in 0 .. r
    BY DEF Readable
  <1>2. in[p] \in Lines /\ p \in Nat
    BY LinesReadable
  <1>3. o \in OrderRecords /\ o.instrument \in I
    BY <1>2, OrderTyped, GivenTo
  <1>4. b = ViewBooks(I, t) /\ ViewPieces(I, Turn(in)[n]) = ViewPieces(I, t)
    BY <1>1, SameView
  <1>5. TurnGood(t) /\ TurnGood(Turn(in)[p]) /\ TurnGood(Turn(in)[n])
    BY <1>1, TurnTyped
  <1>6. Turn(in)[p] = Then(t, o)
    BY <1>1, TurnIs
  <1>7. ViewBooks(I, Then(t, o)) = h.books
        /\ ViewPieces(I, Then(t, o)) = ViewPieces(I, t) \o Pieces(TradeText(o, h.trades))
    <2>1. h = Handled(ViewBooks(I, t), o)
      BY <1>4
    <2> HIDE DEF I, t
    <2> QED
      BY ONLY <1>3, <1>5, <2>1, ViewThen
  <1>8. h.trades \in Seq(TradeLines)
    <2>1. IsLibrary(b)
      BY <1>5, OnTyped DEF ViewBooks, TurnGood
    <2> QED
      BY <1>3, <2>1, HandledTyped
  <1> QED
    BY <1>3, <1>4, <1>5, <1>6, <1>7, <1>8

-----------------------------------------------------------------------------
(* The dump *)

\* What is printed of the book of i.
Printed(books, i) == IF i \in DOMAIN books THEN BookText(books, i) ELSE <<>>
PrintedBooks(books) == [i \in Instruments |-> Printed(books, i)]

LEMMA BookTextTyped ==
  ASSUME NEW books, IsLibrary(books), NEW i \in DOMAIN books
  PROVE  /\ BookText(books, i) \in Seq(Texts({i}))
         /\ Len(BookText(books, i)) = get_order_book_size(books[i])
         /\ get_order_book_size(books[i]) \in Nat
  <1> DEFINE all == books[i].buys \o books[i].sells
  <1>1. i \in Instruments /\ books[i].buys \in Seq(OrderRecords) /\ books[i].sells \in Seq(OrderRecords)
    BY DEF IsLibrary, Books
  <1>2. all \in Seq(OrderRecords) /\ Len(all) = Len(books[i].buys) + Len(books[i].sells)
    BY <1>1
  <1>3. BookText(books, i) = [k \in DOMAIN all |-> Text(i, all[k])]
    BY DEF BookText
  <1> HIDE DEF all
  <1>4. DOMAIN all = 1 .. Len(all) /\ Len(all) \in Nat /\ \A k \in 1 .. Len(all) : all[k] \in OrderRecords
    BY ONLY <1>2, SeqMembers
  <1> DEFINE S == Texts({i})
  <1>5. \A k \in 1 .. Len(all) : Text(i, all[k]) \in S
    BY <1>1, <1>4 DEF Text, Texts
  <1> HIDE DEF S
  <1>6. BookText(books, i) \in Seq(S) /\ Len(BookText(books, i)) = Len(all)
    BY <1>3, <1>4, <1>5
  <1> QED
    BY <1>1, <1>2, <1>4, <1>6 DEF S, get_order_book_size

LEMMA PrintedTyped ==
  ASSUME NEW books, IsLibrary(books), DOMAIN books \subseteq Listed
  PROVE  \A i \in 1 .. LastInstrument : PrintedBooks(books)[i] \in Seq(Texts(Listed))
  <1> SUFFICES ASSUME NEW i \in 1 .. LastInstrument
               PROVE  Printed(books, i) \in Seq(Texts(Listed))
    BY DEF PrintedBooks, Instruments
  <1>1. CASE i \in DOMAIN books
    <2>1. BookText(books, i) \in Seq(Texts({i}))
      BY <1>1, BookTextTyped
    <2>2. Texts({i}) \subseteq Texts(Listed)
      BY <1>1, TextsWider
    <2>3. BookText(books, i) \in Seq(Texts(Listed))
      BY ONLY <2>1, <2>2, SeqWider
    <2> QED
      BY <1>1, <2>3 DEF Printed
  <1>2. CASE i \notin DOMAIN books
    <2>1. <<>> \in Seq(Texts(Listed))
      OBVIOUS
    <2> QED
      BY <1>2, <2>1 DEF Printed
  <1> QED
    BY <1>1, <1>2

\* The dump of the books of some instruments.
LEMMA DumpOn ==
  ASSUME NEW books, NEW J
  PROVE  DumpText(On(J, books)) = Part(PrintedBooks(books), J, LastInstrument)
  <1> DEFINE b == On(J, books)
             h == PrintedBooks(books)
  <1>1. ASSUME NEW i \in Instruments
        PROVE  (IF i \in DOMAIN b THEN BookText(b, i) ELSE <<>>) = PartOf(h, J, i)
    <2>1. h[i] = Printed(books, i)
      BY <1>1 DEF PrintedBooks
    <2>2. i \in DOMAIN b <=> i \in DOMAIN books /\ i \in J
      BY DEF On
    <2>3. CASE i \in DOMAIN b
      <3>1. b[i] = books[i]
        BY <2>2, <2>3 DEF On
      <3>2. BookText(b, i) = BookText(books, i)
        BY <3>1 DEF BookText
      <3> QED
        BY <2>1, <2>2, <2>3, <3>2 DEF Printed, PartOf
    <2>4. CASE i \notin DOMAIN b
      BY <2>1, <2>2, <2>4 DEF Printed, PartOf
    <2> QED
      BY <2>3, <2>4
  <1> HIDE DEF b, h
  <1>2. [i \in Instruments |-> IF i \in DOMAIN b THEN BookText(b, i) ELSE <<>>]
          = [i \in 1 .. LastInstrument |-> PartOf(h, J, i)]
    BY <1>1 DEF Instruments
  <1>3. DumpText(b) = FlattenSeq([i \in 1 .. LastInstrument |-> PartOf(h, J, i)])
    BY <1>2 DEF DumpText
  <1> QED
    BY <1>3 DEF Part, b, h

LEMMA OnAll ==
  ASSUME NEW books, IsLibrary(books), NEW J, DOMAIN books \subseteq J
  PROVE  On(J, books) = books
  <1>1. DOMAIN books \cap J = DOMAIN books
    OBVIOUS
  <1>2. books = [i \in DOMAIN books |-> books[i]]
    BY DEF IsLibrary
  <1> QED
    BY <1>1, <1>2 DEF On

LEMMA DumpIs ==
  ASSUME NEW books, IsLibrary(books), NEW J, DOMAIN books \subseteq J
  PROVE  DumpText(books) = Part(PrintedBooks(books), J, LastInstrument)
  BY OnAll, DumpOn

LEMMA DumpTyped ==
  ASSUME NEW books, IsLibrary(books), DOMAIN books \subseteq Listed
  PROVE  DumpText(books) \in Seq(Texts(Listed))
  <1>1. LastInstrument \in Nat
    BY ExchangeAssumption
  <1>2. \A i \in 1 .. LastInstrument : PrintedBooks(books)[i] \in Seq(Texts(Listed))
    BY PrintedTyped
  <1>3. Part(PrintedBooks(books), Listed, LastInstrument) \in Seq(Texts(Listed))
    BY <1>1, <1>2, PartTyped
  <1> QED
    BY <1>3, DumpIs

\* The dumps of the engines, one after the other, are the dump of all books.
LEMMA DumpOfEngines ==
  ASSUME NEW s \in Setups, NEW books, IsLibrary(books), DOMAIN books \subseteq Listed,
         NEW of, \A e \in s.engines : of[e] = On(Given(s, e), books)
  PROVE  FlattenSeq([e \in Engines |-> IF e \in s.engines THEN DumpText(of[e]) ELSE <<>>])
           = DumpText(books)
  <1> DEFINE C == s.engines
             M == LastEngine
             N == LastInstrument
             h == PrintedBooks(books)
             D == [e \in 1 .. M |-> Given(s, e)]
             g == [e \in 1 .. M |-> Part(h, D[e], N)]
  <1>1. M \in Nat /\ N \in Nat /\ C \subseteq 1 .. M /\ Engines = 1 .. M
    BY ExchangeAssumption, EnginesNumbered
  <1>2. ASSUME NEW e \in 1 .. M
        PROVE  (IF e \in C THEN DumpText(of[e]) ELSE <<>>) = PartOf(g, C, e)
    <2>1. CASE e \in C
      <3>1. DumpText(of[e]) = Part(h, Given(s, e), N)
        BY <2>1, DumpOn
      <3>2. g[e] = Part(h, Given(s, e), N)
        OBVIOUS
      <3> HIDE DEF g
      <3> QED
        BY <2>1, <3>1, <3>2 DEF PartOf
    <2>2. CASE e \notin C
      BY <2>2 DEF PartOf
    <2> QED
      BY <2>1, <2>2
  <1>3. Part(g, C, M) = Part(h, Joint(D, C, M), N)
    <2> DEFINE S == Texts(Listed)
    <2>1. \A i \in 1 .. N : h[i] \in Seq(S)
      BY PrintedTyped
    <2>2. \A e \in 1 .. M : D[e] \in SUBSET Nat
      <3>1. \A e \in 1 .. M : Given(s, e) \subseteq Instruments
        BY GivenAll
      <3> QED
        BY <3>1 DEF Instruments
    <2>3. \A d, e \in C \cap 1 .. M : d < e => \A j \in D[d], k \in D[e] : j < k
      BY GivenInOrder
    <2>4. \A e \in 1 .. M : g[e] = Part(h, D[e], N)
      OBVIOUS
    <2> HIDE DEF g, D, h, C, M, N, S
    <2>5. TypedUpTo(h, N, S) /\ InSequence(D, C, M) /\ AreParts(g, h, D, N, M)
      BY <2>1, <2>2, <2>3, <2>4 DEF TypedUpTo, InSequence, AreParts
    <2> QED
      BY ONLY <1>1, <2>5, PartsTogether
  <1>4. DOMAIN books \subseteq Joint(D, C, M)
    <2> SUFFICES ASSUME NEW i \in DOMAIN books PROVE \E e \in C \cap 1 .. M : i \in D[e]
      BY DEF Joint
    <2>1. PICK e \in C : i \in Given(s, e)
      BY GivenAll
    <2>2. e \in C \cap 1 .. M /\ D[e] = Given(s, e)
      BY <1>1
    <2> QED
      BY <2>1, <2>2
  <1> HIDE DEF g, D
  <1>5. DumpText(books) = Part(h, Joint(D, C, M), N)
    BY <1>4, DumpIs
  <1>6. [e \in Engines |-> IF e \in C THEN DumpText(of[e]) ELSE <<>>]
          = [e \in 1 .. M |-> PartOf(g, C, e)]
    <2>1. [e \in 1 .. M |-> IF e \in C THEN DumpText(of[e]) ELSE <<>>]
            = [e \in 1 .. M |-> PartOf(g, C, e)]
      BY ONLY <1>2, Zenon
    <2> QED
      BY <1>1, <2>1
  <1>7. FlattenSeq([e \in Engines |-> IF e \in C THEN DumpText(of[e]) ELSE <<>>]) = Part(g, C, M)
    BY <1>6 DEF Part
  <1> QED
    BY <1>3, <1>5, <1>7

-----------------------------------------------------------------------------
(* The size of the dump *)

SizeOf(books, i) == IF i \in DOMAIN books THEN get_order_book_size(books[i]) ELSE 0

LEMMA AverageDefined ==
  ASSUME NEW books, NEW N, N = LastInstrument, N \in Nat
  PROVE  \E f : /\ f[0] = 0 /\ \A k \in 1 .. N : f[k] = f[k - 1] + SizeOf(books, k)
                /\ Average(books) = f[N] \div Cardinality(DOMAIN books)
  <1> DEFINE e(g, k) == IF k = 0 THEN 0 ELSE g[k - 1] + SizeOf(books, k)
             From(n) == \E g : g = [k \in 0 .. n |-> e(g, k)]
             T == {n \in Nat : From(n)}
  <1>1. From(0)
    <2> DEFINE g == [k \in 0 .. 0 |-> 0]
    <2>1. g = [k \in 0 .. 0 |-> e(g, k)]
      OBVIOUS
    <2> HIDE DEF g
    <2> QED
      BY <2>1
  <1>2. ASSUME NEW n \in Nat, From(n) PROVE From(n + 1)
    <2>1. PICK g : g = [k \in 0 .. n |-> e(g, k)]
      BY <1>2
    <2> DEFINE h == [k \in 0 .. n + 1 |-> IF k = n + 1 THEN e(g, k) ELSE g[k]]
    <2>2. ASSUME NEW k \in 0 .. n + 1 PROVE e(h, k) = e(g, k)
      <3>1. k # 0 => h[k - 1] = g[k - 1]
        OBVIOUS
      <3> HIDE DEF h
      <3> QED
        BY <3>1
    <2>3. ASSUME NEW k \in 0 .. n + 1 PROVE h[k] = e(g, k)
      <3>1. CASE k = n + 1
        BY <3>1
      <3>2. CASE k # n + 1
        BY <2>1, <3>2
      <3> QED
        BY <3>1, <3>2
    <2>4. h = [k \in 0 .. n + 1 |-> e(h, k)]
      BY <2>2, <2>3
    <2> HIDE DEF h
    <2> QED
      BY <2>4
  <1> HIDE DEF From
  <1>3. From(N)
    <2>1. 0 \in T /\ \A n \in T \cap Nat : n + 1 \in T
      BY <1>1, <1>2
    <2>2. Nat \subseteq T
      <3> HIDE DEF T
      <3> QED
        BY <2>1, SetInduction
    <2>3. N \in T
      BY <2>2
    <2> QED
      BY <2>3
  <1> DEFINE f == CHOOSE g : g = [i \in 0 .. N |-> e(g, i)]
  <1>4. f = [k \in 0 .. N |-> e(f, k)]
    BY <1>3 DEF From
  <1>5. Average(books) = f[N] \div Cardinality(DOMAIN books)
    BY DEF Average, SizeOf
  <1> HIDE DEF f
  <1> QED
    BY <1>4, <1>5

LEMMA DumpLength ==
  ASSUME NEW books, IsLibrary(books), DOMAIN books \subseteq Listed
  PROVE  /\ Average(books) = Len(DumpText(books)) \div Cardinality(DOMAIN books)
         /\ Len(DumpText(books)) \in Nat
  <1> DEFINE h == PrintedBooks(books)
             J == DOMAIN books
             N == LastInstrument
             S == Texts(Listed)
  <1>1. N \in Nat
    BY ExchangeAssumption
  <1>2. PICK f : /\ f[0] = 0 /\ \A k \in 1 .. N : f[k] = f[k - 1] + SizeOf(books, k)
                 /\ Average(books) = f[N] \div Cardinality(DOMAIN books)
    BY <1>1, AverageDefined
  <1>3. \A i \in 1 .. N : h[i] \in Seq(S)
    BY PrintedTyped
  <1>4. ASSUME NEW i \in 1 .. N PROVE PartOf(h, J, i) \in Seq(S) /\ Len(PartOf(h, J, i)) = SizeOf(books, i)
    <2>1. CASE i \in J
      <3>1. h[i] = BookText(books, i)
        BY <1>4, <2>1 DEF PrintedBooks, Printed, Instruments
      <3> QED
        BY <1>3, <2>1, <3>1, BookTextTyped DEF PartOf, SizeOf
    <2>2. CASE i \notin J
      BY <2>2 DEF PartOf, SizeOf
    <2> QED
      BY <2>1, <2>2
  <1>5. DumpText(books) = Part(h, J, N)
    BY DumpIs
  <1> HIDE DEF h, J, S
  <1> DEFINE V == {k \in Nat : k <= N => Len(Part(h, J, k)) = f[k]}
  <1>6. 0 \in V
    BY <1>2, PartNothing
  <1>7. ASSUME NEW k \in V \cap Nat PROVE k + 1 \in V
    <2> SUFFICES ASSUME k + 1 <= N PROVE Len(Part(h, J, k + 1)) = f[k + 1]
      OBVIOUS
    <2>1. k + 1 \in 1 .. N /\ (k + 1) - 1 = k /\ Len(Part(h, J, k)) = f[k]
      BY <1>1
    <2>2. \A i \in 1 .. k + 1 : h[i] \in Seq(S)
      BY <1>1, <1>3
    <2>3. /\ Part(h, J, k) \in Seq(S) /\ PartOf(h, J, k + 1) \in Seq(S)
          /\ Part(h, J, k + 1) = Part(h, J, k) \o PartOf(h, J, k + 1)
      BY <2>2, PartGrows
    <2>4. Len(Part(h, J, k + 1)) = Len(Part(h, J, k)) + Len(PartOf(h, J, k + 1))
      BY <2>3
    <2>5. f[k + 1] = f[k] + SizeOf(books, k + 1)
      BY <1>2, <2>1
    <2>6. Len(PartOf(h, J, k + 1)) = SizeOf(books, k + 1)
      BY <1>4, <2>1
    <2> QED
      BY <2>1, <2>4, <2>5, <2>6
  <1>8. Nat \subseteq V
    <2> HIDE DEF V
    <2> QED
      BY <1>6, <1>7, SetInduction
  <1>9. Len(Part(h, J, N)) = f[N]
    <2>1. N \in V
      BY <1>1, <1>8
    <2> QED
      BY <1>1, <2>1
  <1>10. Part(h, J, N) \in Seq(S)
    BY <1>1, <1>3, PartTyped
  <1> QED
    BY <1>2, <1>5, <1>9, <1>10

-----------------------------------------------------------------------------
(* An engine and the one matcher *)

AllPieces == PiecesOf(Texts(Listed))
OwnPieces(s, e) == PiecesOf(Texts(Given(s, e)))

\* The engine e with the books b has processed the lines done, which are its
\* lines among the first n; the pieces u are yet to follow the output front.  It
\* has what the matcher has of its instruments after n lines.
EngineView(b, u, front, in, s, e, done, n) ==
  /\ Range(done) = LinesOf(in, s, e, n)
  /\ b = ViewBooks(Given(s, e), Turn(in)[n])
  /\ Only(Given(s, e), front) \o u = ViewPieces(Given(s, e), Turn(in)[n])

Keeps(b, u, front, in, s, e, done, r) ==
  \E n \in 0 .. r : EngineView(b, u, front, in, s, e, done, n)

LEMMA KeepsFirst ==
  ASSUME NEW in \in Seq(Lines \cup {Malformed}), NEW s, NEW e
  PROVE  Keeps(<<>>, <<>>, <<>>, in, s, e, <<>>, 0)
  <1>1. Range(<<>>) = {} /\ LinesOf(in, s, e, 0) = {}
    BY DEF Range, LinesOf
  <1>2. Turn(in)[0].books = <<>> /\ Turn(in)[0].texts = <<>>
    BY TurnIs
  <1>3. On(Given(s, e), <<>>) = <<>>
    BY DEF On
  <1>4. Only(Given(s, e), Pieces(<<>>)) = <<>> /\ Only(Given(s, e), <<>>) = <<>>
    BY PiecesNone, OnlyNothing
  <1>5. <<>> \o <<>> = <<>>
    OBVIOUS
  <1>6. EngineView(<<>>, <<>>, <<>>, in, s, e, <<>>, 0)
    BY <1>1, <1>2, <1>3, <1>4, <1>5 DEF EngineView, ViewBooks, ViewPieces
  <1>7. 0 \in 0 .. 0
    OBVIOUS
  <1> QED
    BY <1>6, <1>7 DEF Keeps

LEMMA KeepsLonger ==
  ASSUME NEW b, NEW u, NEW front, NEW in, NEW s, NEW e, NEW done, NEW r \in Nat, NEW q \in Nat,
         r <= q, Keeps(b, u, front, in, s, e, done, r)
  PROVE  Keeps(b, u, front, in, s, e, done, q)
  <1>1. \A n \in 0 .. r : n \in 0 .. q
    OBVIOUS
  <1> QED
    BY <1>1 DEF Keeps

LEMMA KeepsAll ==
  ASSUME NEW b, NEW u, NEW front, NEW in, NEW s \in Setups, NEW e, NEW done, NEW r,
         Readable(in, r), Keeps(b, u, front, in, s, e, done, r), Range(done) = LinesOf(in, s, e, r)
  PROVE  EngineView(b, u, front, in, s, e, done, r)
  <1>1. PICK n \in 0 .. r : EngineView(b, u, front, in, s, e, done, n)
    BY DEF Keeps
  <1>2. r \in 0 .. r /\ LinesOf(in, s, e, n) = LinesOf(in, s, e, r)
    BY <1>1 DEF EngineView, Readable
  <1>3. /\ ViewBooks(Given(s, e), Turn(in)[r]) = ViewBooks(Given(s, e), Turn(in)[n])
        /\ ViewPieces(Given(s, e), Turn(in)[r]) = ViewPieces(Given(s, e), Turn(in)[n])
    BY <1>2, SameView
  <1> QED
    BY <1>1, <1>3 DEF EngineView

LEMMA KeepsNext ==
  ASSUME NEW s \in Setups, NEW in, NEW r, Readable(in, r), NEW e, NEW b, NEW front \in Seq(AllPieces),
         NEW done, Keeps(b, <<>>, front, in, s, e, done, r),
         NEW p \in 1 .. r, s.find_engine[in[p]] = e, Range(done) = LinesOf(in, s, e, p - 1),
         NEW o, o = OrderOf(p, in[p]), NEW h, h = Handled(b, o),
         NEW more, Range(more) = LinesOf(in, s, e, p),
         NEW u, u = Pieces(TradeText(o, h.trades))
  PROVE  /\ Keeps(h.books, u, front, in, s, e, more, r)
         /\ u \in Seq(OwnPieces(s, e))
  <1> DEFINE I == Given(s, e)
  <1>1. PICK n \in 0 .. r : EngineView(b, <<>>, front, in, s, e, done, n)
    BY DEF Keeps
  <1>2. /\ LinesOf(in, s, e, n) = LinesOf(in, s, e, p - 1)
        /\ b = ViewBooks(I, Turn(in)[n])
        /\ Only(I, front) \o <<>> = ViewPieces(I, Turn(in)[n])
    BY <1>1 DEF EngineView
  <1>3. /\ ViewBooks(I, Turn(in)[p]) = h.books
        /\ ViewPieces(I, Turn(in)[p]) = ViewPieces(I, Turn(in)[n]) \o u
        /\ o \in OrderRecords /\ h.trades \in Seq(TradeLines) /\ o.instrument \in I
    <2> HIDE DEF I
    <2>1. b = ViewBooks(Given(s, e), Turn(in)[n])
      BY <1>2 DEF I
    <2>2. /\ ViewBooks(Given(s, e), Turn(in)[p]) = h.books
          /\ ViewPieces(Given(s, e), Turn(in)[p])
               = ViewPieces(Given(s, e), Turn(in)[n]) \o Pieces(TradeText(o, h.trades))
          /\ o \in OrderRecords /\ h.trades \in Seq(TradeLines) /\ o.instrument \in Given(s, e)
      <3>1. /\ s \in Setups /\ Readable(in, r) /\ n \in 0 .. r /\ p \in 1 .. r
            /\ s.find_engine[in[p]] = e /\ LinesOf(in, s, e, n) = LinesOf(in, s, e, p - 1)
            /\ o = OrderOf(p, in[p]) /\ b = ViewBooks(Given(s, e), Turn(in)[n]) /\ h = Handled(b, o)
        BY <1>2, <2>1
      <3> QED
        BY ONLY <3>1, NextView
    <2> QED
      BY <2>2 DEF I
  <1>4. Only(I, front) \o <<>> = Only(I, front)
    <2>1. Only(I, front) \in Seq(AllPieces)
      BY OnlyTyped
    <2> QED
      BY ONLY <2>1, ConcatEmptySeq
  <1>5. EngineView(h.books, u, front, in, s, e, more, p)
    BY <1>2, <1>3, <1>4 DEF EngineView
  <1>6. p \in 0 .. r
    BY DEF Readable
  <1>7. u \in Seq(OwnPieces(s, e))
    <2>1. TradeText(o, h.trades) \in Seq(Texts({o.instrument}))
      BY <1>3, TradeTextTyped
    <2>2. Texts({o.instrument}) \subseteq Texts(I)
      BY <1>3, TextsWider
    <2>3. TradeText(o, h.trades) \in Seq(Texts(I))
      BY ONLY <2>1, <2>2, SeqWider
    <2>4. Pieces(TradeText(o, h.trades)) \in Seq(PiecesOf(Texts(I)))
      BY ONLY <2>3, PiecesTyped
    <2> QED
      BY <2>4 DEF OwnPieces
  <1> QED
    BY <1>5, <1>6, <1>7 DEF Keeps

LEMMA OwnPiece ==
  ASSUME NEW s \in Setups, NEW e, NEW x \in OwnPieces(s, e)
  PROVE  x.text.instrument \in Given(s, e) /\ x \in AllPieces
  <1>1. Given(s, e) \subseteq Listed
    BY GivenAll
  <1> QED
    BY <1>1 DEF OwnPieces, AllPieces, PiecesOf, Texts

LEMMA OwnPiecesTyped ==
  ASSUME NEW s \in Setups, NEW e, NEW u \in Seq(OwnPieces(s, e))
  PROVE  u \in Seq(AllPieces)
  <1>1. OwnPieces(s, e) \subseteq AllPieces
    BY OwnPiece
  <1> QED
    BY ONLY <1>1, u \in Seq(OwnPieces(s, e)), SeqWider

LEMMA KeepsWritten ==
  ASSUME NEW s \in Setups, NEW in, NEW r, NEW e, NEW b, NEW front \in Seq(AllPieces), NEW done,
         NEW u \in Seq(OwnPieces(s, e)), u # <<>>,
         Keeps(b, u, front, in, s, e, done, r)
  PROVE  Keeps(b, Tail(u), Append(front, Head(u)), in, s, e, done, r)
  <1> DEFINE I == Given(s, e)
             x == Head(u)
             a == Only(I, front)
             v == Tail(u)
  <1>1. x \in OwnPieces(s, e) /\ u = <<x>> \o v /\ v \in Seq(OwnPieces(s, e))
    OBVIOUS
  <1>2. x.text.instrument \in I /\ x \in AllPieces
    BY <1>1, OwnPiece
  <1> HIDE DEF x, v
  <1>3. Only(I, Append(front, x)) = a \o <<x>> /\ a \in Seq(AllPieces)
    <2>1. Kept(I, x) = <<x>>
      BY <1>2 DEF Kept
    <2>2. front \in Seq(AllPieces) /\ x \in AllPieces
      BY <1>2
    <2> HIDE DEF I
    <2>3. Only(I, front) \in Seq(AllPieces) /\ Only(I, Append(front, x)) = Only(I, front) \o Kept(I, x)
      BY ONLY <2>2, OnlyAppend
    <2> QED
      BY <2>1, <2>3
  <1>4. v \in Seq(AllPieces) /\ <<x>> \in Seq(AllPieces)
    BY <1>1, <1>2, OwnPiecesTyped
  <1> HIDE DEF a
  <1>5. (a \o <<x>>) \o v = a \o (<<x>> \o v)
    BY ONLY <1>3, <1>4, ConcatAssociative, SMTT(30)
  <1>6. Only(I, Append(front, x)) \o v = a \o u
    BY <1>1, <1>3, <1>5
  <1> QED
    BY <1>6 DEF Keeps, EngineView, a, v, x

LEMMA KeepsWrittenByOther ==
  ASSUME NEW s, NEW in, NEW r, NEW e, NEW b, NEW front \in Seq(AllPieces), NEW done,
         NEW u, NEW x \in AllPieces, x.text.instrument \notin Given(s, e),
         Keeps(b, u, front, in, s, e, done, r)
  PROVE  Keeps(b, u, Append(front, x), in, s, e, done, r)
  <1> DEFINE I == Given(s, e)
  <1>1. Kept(I, x) = <<>>
    BY DEF Kept
  <1>2. Only(I, Append(front, x)) = Only(I, front) \o <<>> /\ Only(I, front) \in Seq(AllPieces)
    BY <1>1, OnlyAppend
  <1>3. Only(I, front) \o <<>> = Only(I, front)
    BY ONLY <1>2, ConcatEmptySeq
  <1> QED
    BY <1>2, <1>3 DEF Keeps, EngineView

LEMMA GivenApart ==
  ASSUME NEW s \in Setups, NEW d \in Engines, NEW e \in Engines, d # e
  PROVE  Given(s, d) \cap Given(s, e) = {}
  <1> SUFFICES ASSUME NEW i \in Given(s, d), i \in Given(s, e) PROVE FALSE
    OBVIOUS
  <1>1. d \in Int /\ e \in Int /\ i \in Int
    BY GivenAll, ExchangeAssumption DEF Instruments
  <1>2. CASE d < e
    <2>1. i < i
      BY <1>1, <1>2, GivenInOrder
    <2> QED
      BY <1>1, <2>1
  <1>3. CASE e < d
    <2>1. i < i
      BY <1>1, <1>3, GivenInOrder
    <2> QED
      BY <1>1, <2>1
  <1> QED
    BY <1>1, <1>2, <1>3

-----------------------------------------------------------------------------
(* The output at the end *)

\* The lines an engine printed, and its lines of the dump.
LEMMA EndWhole ==
  ASSUME NEW I, NEW front \in Seq(AllPieces), NEW t \in Seq(Texts(Listed)), NEW d \in Seq(Texts(Listed)),
         Only(I, front) = Only(I, Pieces(t))
  PROVE  Whole(Only(I, front \o Pieces(d)))
  <1>1. Pieces(t) \in Seq(AllPieces) /\ Pieces(d) \in Seq(AllPieces)
    BY PiecesTyped DEF AllPieces
  <1>2. Only(I, front \o Pieces(d)) = Only(I, front) \o Only(I, Pieces(d))
    BY <1>1, OnlyConcat
  <1>3. Only(I, Pieces(t) \o Pieces(d)) = Only(I, Pieces(t)) \o Only(I, Pieces(d))
    BY <1>1, OnlyConcat
  <1>4. Pieces(t \o d) = Pieces(t) \o Pieces(d)
    BY PiecesConcat
  <1>5. t \o d \in Seq(Texts(Listed))
    OBVIOUS
  <1>6. Complete(Only(I, Pieces(t \o d)))
    BY <1>5, LinesComplete
  <1> QED
    BY <1>2, <1>3, <1>4, <1>6 DEF Complete

\* Of each instrument, the output says what the matcher says.
LEMMA EndSequential ==
  ASSUME NEW s \in Setups, NEW front \in Seq(AllPieces), NEW t \in Seq(Texts(Listed)),
         \A e \in s.engines : Only(Given(s, e), front) = Only(Given(s, e), Pieces(t)), NEW i
  PROVE  Only({i}, front) = Only({i}, Pieces(t))
  <1>1. Pieces(t) \in Seq(AllPieces)
    BY PiecesTyped DEF AllPieces
  <1>2. CASE i \in Listed
    <2>1. PICK e \in s.engines : i \in Given(s, e)
      BY <1>2, GivenAll
    <2> DEFINE I == Given(s, e)
    <2>2. {i} \subseteq I /\ Only(I, front) = Only(I, Pieces(t))
      BY <2>1
    <2> HIDE DEF I
    <2>3. Only({i}, Only(I, front)) = Only({i}, front)
      BY <2>2, OnlyOnly
    <2>4. Only({i}, Only(I, Pieces(t))) = Only({i}, Pieces(t))
      BY <1>1, <2>2, OnlyOnly
    <2> QED
      BY <2>2, <2>3, <2>4
  <1>3. CASE i \notin Listed
    <2>1. \A x \in AllPieces : x.text.instrument \notin {i}
      BY <1>3 DEF AllPieces, PiecesOf, Texts
    <2>2. Only({i}, front) = <<>> /\ Only({i}, Pieces(t)) = <<>>
      BY <1>1, <2>1, OnlyNone
    <2> QED
      BY <2>2
  <1> QED
    BY <1>2, <1>3

-----------------------------------------------------------------------------
(* match-engine as a whole is the pipeline, with books and output added *)

LEMMA PipelineStep == [NextExchange]_allVars => [Next]_vars
  <1> SUFFICES ASSUME [NextExchange]_allVars PROVE [Next]_vars
    OBVIOUS
  <1>1. CASE Dump
    BY <1>1 DEF Dump, Next, Router
  <1>2. CASE Router
    BY <1>2 DEF Next
  <1>3. ASSUME NEW e \in Engines, Pull(e) PROVE [Next]_vars
    BY <1>3 DEF Pull, Next, Engine
  <1>4. ASSUME NEW e \in Engines, MatchNext(e) PROVE [Next]_vars
    BY <1>4 DEF MatchNext, Next, Engine
  <1>5. ASSUME NEW e \in Engines, WritePiece(e) PROVE [Next]_vars
    BY <1>5 DEF WritePiece
  <1>6. ASSUME NEW e \in Engines, Sample(e) PROVE [Next]_vars
    BY <1>6 DEF Sample, Next, Engine
  <1>7. CASE UNCHANGED allVars
    BY <1>7 DEF allVars
  <1> QED
    BY <1>1, <1>2, <1>3, <1>4, <1>5, <1>6, <1>7 DEF NextExchange

\* So what holds of the pipeline holds of the whole.
LEMMA PipelineWithin == SpecExchange => Spec
  BY PipelineStep, PTL DEF SpecExchange, InitExchange, Spec

LEMMA WithinInvariance == SpecExchange => []Inv
  BY PipelineWithin, Invariance, PTL

-----------------------------------------------------------------------------
(* The inductive invariant of books and output *)

\* An engine prints what it matched before it takes another order.
Printing == \A e \in Engines : unprinted[e] # <<>> => epc[e] = "process"

Sampled ==
  \A e \in Engines :
    epc[e] # "process" /\ order_books[e] # <<>> => peak[e] >= Average(order_books[e])

KeptUp(front) ==
  \A e \in Engines :
    Keeps(order_books[e], unprinted[e], front, input, setup, e, processed[e], read)

\* At the end the dump of the one matcher's books follows.
FinalDump(in, r) == Pieces(DumpText(Turn(in)[r].books))
Ended == \E front \in Seq(AllPieces) : out = front \o FinalDump(input, read) /\ KeptUp(front)

ExchangeTypes ==
  /\ DOMAIN order_books = Engines
  /\ DOMAIN unprinted = Engines
  /\ \A e \in Engines : unprinted[e] \in Seq(OwnPieces(setup, e))
  /\ out \in Seq(AllPieces)
  /\ peak \in [Engines -> Int]

XInv ==
  /\ ExchangeTypes
  /\ Printing
  /\ Sampled
  /\ rpc # "done" => KeptUp(out)
  /\ rpc = "done" => Ended

LEMMA InvReadable == Inv => Readable(input, read) /\ setup \in Setups
  BY DEF Inv, TypeOK, Control, Phases, Readable

LEMMA MineIs ==
  ASSUME NEW e, NEW n
  PROVE  Mine(e, n) = LinesOf(input, setup, e, n)
  BY DEF Mine, LinesOf, find_engine

LEMMA XInvInit == InitExchange => XInv
  <1> SUFFICES ASSUME InitExchange PROVE XInv
    OBVIOUS
  <1>1. /\ input \in Seq(Lines \cup {Malformed}) /\ rpc = "spawn" /\ read = 0
        /\ processed = [e \in Engines |-> <<>>]
    BY PoolAssumption DEF InitExchange, Init
  <1>2. /\ order_books = [e \in Engines |-> <<>>] /\ unprinted = [e \in Engines |-> <<>>]
        /\ out = <<>> /\ peak = [e \in Engines |-> 0]
    BY DEF InitExchange
  <1>3. ExchangeTypes
    <2>1. \A e \in Engines : <<>> \in Seq(OwnPieces(setup, e))
      OBVIOUS
    <2>2. <<>> \in Seq(AllPieces)
      OBVIOUS
    <2>3. peak \in [Engines -> Int]
      BY <1>2
    <2> QED
      BY <1>2, <2>1, <2>2, <2>3 DEF ExchangeTypes
  <1>4. Printing /\ Sampled
    BY <1>2 DEF Printing, Sampled
  <1>5. KeptUp(out)
    BY <1>1, <1>2, KeepsFirst DEF KeptUp
  <1> QED
    BY <1>1, <1>3, <1>4, <1>5 DEF XInv

\* Once the program is through nothing happens any more.
LEMMA NothingAfterEnd ==
  ASSUME Inv, XInv, rpc = "done", [NextExchange]_allVars
  PROVE  UNCHANGED allVars
  <1>1. ASSUME NEW e \in Engines PROVE epc[e] \in {"idle", "exited"} /\ unprinted[e] = <<>>
    BY AllStopped DEF XInv, Printing
  <1>2. ~Dump
    BY DEF Dump, DumpOrders
  <1>3. ~Router
    BY DEF Router, StartLoop, GetOrders, BadLine, RouteOne, LockQueue, Push, EndOfBatch, StartJoin,
           Join, DumpOrders, SpawnThread, NextGroup, TerminateProcessing
  <1>4. ASSUME NEW e \in Engines PROVE ~Pull(e)
    BY <1>1 DEF Pull, PullLock, Copy, ClearAndUnlock, Peek, Running
  <1>5. ASSUME NEW e \in Engines PROVE ~MatchNext(e)
    BY <1>1 DEF MatchNext, ProcessOrder, Running
  <1>6. ASSUME NEW e \in Engines PROVE ~WritePiece(e)
    BY <1>1 DEF WritePiece
  <1>7. ASSUME NEW e \in Engines PROVE ~Sample(e)
    BY <1>1 DEF Sample, TestTerminate, Return, Running
  <1> QED
    BY <1>2, <1>3, <1>4, <1>5, <1>6, <1>7 DEF NextExchange

LEMMA QuietKeeps ==
  ASSUME Inv, XInv, rpc # "done", rpc' # "done", [Next]_vars,
         ~\E e \in Engines : ProcessOrder(e), UNCHANGED <<order_books, unprinted, out>>
  PROVE  KeptUp(out)'
  <1>1. input' = input /\ setup' = setup
    BY SameInput DEF given
  <1>2. read \in Nat /\ read' \in Nat /\ read <= read'
    <2>1. TypeOK' /\ TypeOK
      BY TypeStep DEF Inv
    <2>2. read \in Nat /\ read' \in Nat
      BY <2>1 DEF TypeOK
    <2>3. CASE GetOrders
      BY <2>1, <2>3, PoolAssumption DEF GetOrders, LastRead, Wanted, TypeOK, BatchSize
    <2>4. CASE ~GetOrders
      <3>1. read' = read
        BY <2>4 DEF Next, Router, Engine, vars, routerVars, StartLoop, BadLine, RouteOne, LockQueue, Push,
           EndOfBatch, StartJoin, Join, DumpOrders, SpawnThread, NextGroup, TerminateProcessing,
           PullLock, Copy, ClearAndUnlock, ProcessOrder, TestTerminate, Peek, Return
      <3> QED
        BY <2>2, <3>1
    <2> QED
      BY <2>2, <2>3, <2>4
  <1>3. processed' = processed
    BY DEF Next, Router, Engine, vars, engineVars, StartLoop, GetOrders, BadLine, RouteOne, LockQueue, Push,
       EndOfBatch, StartJoin, Join, DumpOrders, SpawnThread, NextGroup, TerminateProcessing,
       PullLock, Copy, ClearAndUnlock, TestTerminate, Peek, Return
  <1>4. KeptUp(out)
    BY DEF XInv
  <1> SUFFICES ASSUME NEW e \in Engines
               PROVE  Keeps(order_books[e], unprinted[e], out, input, setup, e, processed[e], read')
    BY <1>1, <1>3 DEF KeptUp
  <1> QED
    BY <1>2, <1>4, KeepsLonger DEF KeptUp

LEMMA SameTypes ==
  ASSUME XInv, setup' = setup, UNCHANGED <<order_books, unprinted, out, peak>>
  PROVE  ExchangeTypes'
  BY DEF XInv, ExchangeTypes

LEMMA RouterKeeps ==
  ASSUME Inv, XInv, rpc # "done", rpc # "dump", Router, UNCHANGED ownVars
  PROVE  XInv'
  <1>1. [Next]_vars /\ UNCHANGED <<order_books, unprinted, out, peak>>
    BY DEF Next, ownVars
  <1>2. rpc' # "done"
    BY DEF Router, StartLoop, GetOrders, BadLine, RouteOne, LockQueue, Push, EndOfBatch, StartJoin,
           Join, DumpOrders, SpawnThread, NextGroup, TerminateProcessing, routerVars
  <1>3. ~\E e \in Engines : ProcessOrder(e)
    <2>1. TypeOK
      BY DEF Inv
    <2>2. SUFFICES ASSUME NEW e \in Engines, ProcessOrder(e) PROVE FALSE
      OBVIOUS
    <2>3. processed' = processed
      BY DEF Router, engineVars, StartLoop, GetOrders, BadLine, RouteOne, LockQueue, Push, EndOfBatch,
           StartJoin, Join, DumpOrders, SpawnThread, NextGroup, TerminateProcessing
    <2>4. processed'[e] = Append(processed[e], Head(internal_queue[e])) /\ processed[e] \in Seq(Nat)
      BY <2>1, <2>2 DEF ProcessOrder, TypeOK
    <2>5. Append(processed[e], Head(internal_queue[e])) # processed[e]
      BY <2>4
    <2> QED
      BY <2>3, <2>4, <2>5
  <1>4. KeptUp(out)'
    BY <1>1, <1>2, <1>3, QuietKeeps
  <1>5. ASSUME NEW e \in Engines PROVE epc'[e] = epc[e] \/ (epc[e] # "process" /\ epc'[e] # "process")
    <2>1. TypeOK
      BY DEF Inv
    <2>2. CASE Push
      <3>1. CASE Concurrent
        BY <2>2, <3>1 DEF Push
      <3>2. CASE ~Concurrent
        <4>1. rpc = "push"
          BY <2>2 DEF Push
        <4>2. epc[e] = "idle"
          BY <3>2, <4>1 DEF Inv, Control, Calling
        <4>3. epc'[e] \in {epc[e], "pull"}
          BY <2>1, <2>2, <3>2 DEF Push, TypeOK
        <4> QED
          BY <4>2, <4>3
      <3> QED
        BY <3>1, <3>2
    <2>3. CASE \E d \in Engines : SpawnThread(d)
      BY <2>1, <2>3 DEF SpawnThread, TypeOK
    <2>4. CASE ~Push /\ ~\E d \in Engines : SpawnThread(d)
      BY <2>4 DEF Router, engineVars, StartLoop, GetOrders, BadLine, RouteOne, LockQueue, EndOfBatch,
           StartJoin, Join, DumpOrders, NextGroup, TerminateProcessing
    <2> QED
      BY <2>2, <2>3, <2>4
  <1>6. Printing' /\ Sampled'
    BY <1>1, <1>5 DEF XInv, Printing, Sampled
  <1>7. ExchangeTypes'
    BY <1>1, SameInput, SameTypes DEF given
  <1> QED
    BY <1>2, <1>4, <1>6, <1>7 DEF XInv

LEMMA PullKeeps ==
  ASSUME Inv, XInv, rpc # "done", NEW e \in Engines, Pull(e)
  PROVE  XInv'
  <1>1. /\ [Next]_vars /\ UNCHANGED <<order_books, unprinted, out, peak>>
        /\ UNCHANGED <<given, processed, rpc>>
    BY DEF Next, Engine, Pull, ownVars, PullLock, Copy, ClearAndUnlock, Peek, routerVars
  <1>2. epc[e] # "process" /\ \A d \in Engines : d # e => epc'[d] = epc[d]
    BY DEF Pull, PullLock, Copy, ClearAndUnlock, Peek, Running, Inv, TypeOK
  <1>3. KeptUp(out)'
    <2>1. ~\E d \in Engines : ProcessOrder(d)
      <3> SUFFICES ASSUME NEW d \in Engines, ProcessOrder(d) PROVE FALSE
        OBVIOUS
      <3>1. processed'[d] = Append(processed[d], Head(internal_queue[d])) /\ processed[d] \in Seq(Nat)
        BY DEF ProcessOrder, Inv, TypeOK
      <3>2. Append(processed[d], Head(internal_queue[d])) # processed[d]
        BY <3>1
      <3> QED
        BY <1>1, <3>1, <3>2
    <2> QED
      BY <1>1, <2>1, QuietKeeps
  <1>4. Printing'
    BY <1>1, <1>2 DEF XInv, Printing
  <1>5. Sampled'
    BY <1>1, <1>2 DEF XInv, Sampled
  <1>6. ExchangeTypes'
    BY <1>1, SameTypes DEF given
  <1> QED
    BY <1>1, <1>3, <1>4, <1>5, <1>6 DEF XInv

\* Working on one order.
LEMMA MatchKeeps ==
  ASSUME Inv, XInv, rpc # "done", NEW e \in Engines, MatchNext(e)
  PROVE  XInv'
  <1> DEFINE p == Head(internal_queue[e])
             o == OrderOf(p, input[p])
             h == Handled(order_books[e], o)
             u == Pieces(TradeText(o, h.trades))
  <1>1. /\ epc[e] = "process" /\ internal_queue[e] # <<>> /\ unprinted[e] = <<>>
        /\ UNCHANGED <<input, setup, rpc, read, epc, out, peak>>
        /\ processed' = [processed EXCEPT ![e] = Append(@, p)]
    BY DEF MatchNext, ProcessOrder, Running, given, routerVars
  <1>2. /\ order_books' = [order_books EXCEPT ![e] = h.books]
        /\ unprinted' = [unprinted EXCEPT ![e] = u]
    BY DEF MatchNext, OrderOn
  <1>3. /\ p \in 1 .. read /\ p \in Mine(e, read)
        /\ Range(processed[e]) = {q \in Mine(e, Len(input)) : q < p}
    BY <1>1, NextInOrder
  <1>4. Readable(input, read) /\ setup \in Setups
    BY InvReadable
  <1>5. /\ DOMAIN order_books = Engines /\ DOMAIN unprinted = Engines /\ out \in Seq(AllPieces)
        /\ \A d \in Engines : unprinted[d] \in Seq(OwnPieces(setup, d))
        /\ peak \in [Engines -> Int]
    BY DEF XInv, ExchangeTypes
  <1>6. processed \in [Engines -> Seq(Nat)] /\ p \in Nat
    BY <1>3, <1>4 DEF Inv, TypeOK, Readable
  <1> HIDE DEF p, h, u, o
  <1>7. setup.find_engine[input[p]] = e
    BY <1>3 DEF Mine, find_engine
  <1>8. Range(processed[e]) = LinesOf(input, setup, e, p - 1)
    <2>1. LinesOf(input, setup, e, p - 1) = {q \in LinesOf(input, setup, e, Len(input)) : q < p}
      BY <1>3, <1>4 DEF LinesOf, Readable
    <2> QED
      BY <1>3, <2>1, MineIs
  <1>9. Range(processed'[e]) = LinesOf(input, setup, e, p)
    <2>1. processed'[e] = Append(processed[e], p) /\ processed[e] \in Seq(Nat)
      BY <1>1, <1>6
    <2>2. Range(Append(processed[e], p)) = Range(processed[e]) \cup {p}
      <3> DEFINE s == processed[e]
      <3>1. s \in Seq(Nat)
        BY <2>1
      <3> HIDE DEF s
      <3>2. /\ DOMAIN Append(s, p) = 1 .. Len(s) + 1 /\ DOMAIN s = 1 .. Len(s) /\ Len(s) \in Nat
            /\ Append(s, p)[Len(s) + 1] = p /\ \A k \in 1 .. Len(s) : Append(s, p)[k] = s[k]
        BY <1>6, <3>1
      <3>3. \A k \in 1 .. Len(s) + 1 : k = Len(s) + 1 \/ k \in 1 .. Len(s)
        BY <3>2
      <3>4. \A k \in 1 .. Len(s) : k \in 1 .. Len(s) + 1
        BY <3>2
      <3>5. Len(s) + 1 \in 1 .. Len(s) + 1
        BY <3>2
      <3>6. Range(Append(s, p)) \subseteq Range(s) \cup {p}
        BY <3>2, <3>3 DEF Range
      <3>7. Range(s) \cup {p} \subseteq Range(Append(s, p))
        BY <3>2, <3>4, <3>5 DEF Range
      <3> QED
        BY <3>6, <3>7 DEF s
    <2>3. p \in LinesOf(input, setup, e, p)
      BY <1>3, <1>6, MineIs DEF LinesOf
    <2>4. LinesOf(input, setup, e, p) = LinesOf(input, setup, e, p - 1) \cup {p}
      BY <1>6, <2>3 DEF LinesOf
    <2> QED
      BY <1>8, <2>1, <2>2, <2>4
  <1>10. Keeps(order_books[e], <<>>, out, input, setup, e, processed[e], read)
    BY <1>1 DEF XInv, KeptUp
  <1>11. /\ Keeps(h.books, u, out, input, setup, e, processed'[e], read)
         /\ u \in Seq(OwnPieces(setup, e))
    <2> DEFINE more == processed'[e]
               b == order_books[e]
    <2>1. /\ setup \in Setups /\ Readable(input, read) /\ out \in Seq(AllPieces)
          /\ Keeps(b, <<>>, out, input, setup, e, processed[e], read)
          /\ p \in 1 .. read /\ setup.find_engine[input[p]] = e
          /\ Range(processed[e]) = LinesOf(input, setup, e, p - 1)
          /\ o = OrderOf(p, input[p]) /\ h = Handled(b, o)
          /\ Range(more) = LinesOf(input, setup, e, p)
          /\ u = Pieces(TradeText(o, h.trades))
      BY <1>3, <1>4, <1>5, <1>7, <1>8, <1>9, <1>10 DEF o, h, u
    <2> HIDE DEF more, b
    <2>2. Keeps(h.books, u, out, input, setup, e, more, read) /\ u \in Seq(OwnPieces(setup, e))
      BY ONLY <2>1, KeepsNext
    <2> QED
      BY <2>2 DEF more
  <1>12. KeptUp(out)'
    <2> SUFFICES ASSUME NEW d \in Engines
                 PROVE  Keeps(order_books'[d], unprinted'[d], out, input, setup, d, processed'[d], read)
      BY <1>1 DEF KeptUp
    <2>1. CASE d = e
      BY <1>2, <1>5, <1>11, <2>1
    <2>2. CASE d # e
      <3>1. order_books'[d] = order_books[d] /\ unprinted'[d] = unprinted[d] /\ processed'[d] = processed[d]
        BY <1>1, <1>2, <1>5, <1>6, <2>2
      <3> QED
        BY <3>1 DEF XInv, KeptUp
    <2> QED
      BY <2>1, <2>2
  <1>13. ExchangeTypes'
    <2>1. \A d \in Engines : unprinted'[d] \in Seq(OwnPieces(setup, d))
      BY <1>2, <1>5, <1>11
    <2> QED
      BY <1>1, <1>2, <1>5, <2>1 DEF ExchangeTypes
  <1>14. Printing'
    <2> SUFFICES ASSUME NEW d \in Engines, unprinted'[d] # <<>> PROVE epc[d] = "process"
      BY <1>1 DEF Printing
    <2>1. CASE d = e
      BY <1>1, <2>1
    <2>2. CASE d # e
      BY <1>2, <1>5, <2>2 DEF XInv, Printing
    <2> QED
      BY <2>1, <2>2
  <1>15. Sampled'
    <2> SUFFICES ASSUME NEW d \in Engines, epc[d] # "process", order_books'[d] # <<>>
                 PROVE  peak[d] >= Average(order_books'[d])
      BY <1>1 DEF Sampled
    <2>1. d # e
      BY <1>1
    <2>2. order_books'[d] = order_books[d]
      BY <1>2, <1>5, <2>1
    <2> QED
      BY <2>2 DEF XInv, Sampled
  <1> QED
    BY <1>1, <1>12, <1>13, <1>14, <1>15 DEF XInv

\* One more piece on the output: it is about instruments of the engine that
\* writes it and of no other.
LEMMA WriteKeeps ==
  ASSUME Inv, XInv, rpc # "done", NEW e \in Engines, WritePiece(e)
  PROVE  XInv'
  <1> DEFINE u == unprinted[e]
             x == Head(u)
  <1>1. /\ u # <<>> /\ out' = Append(out, x) /\ unprinted' = [unprinted EXCEPT ![e] = Tail(u)]
        /\ UNCHANGED <<input, setup, rpc, read, epc, processed, order_books, peak>>
    BY DEF WritePiece, vars, given, routerVars, engineVars
  <1>2. /\ DOMAIN order_books = Engines /\ DOMAIN unprinted = Engines /\ out \in Seq(AllPieces)
        /\ \A d \in Engines : unprinted[d] \in Seq(OwnPieces(setup, d))
        /\ peak \in [Engines -> Int]
    BY DEF XInv, ExchangeTypes
  <1>3. setup \in Setups
    BY InvReadable
  <1>4. u \in Seq(OwnPieces(setup, e))
    BY <1>2
  <1> HIDE DEF u
  <1>5. x \in OwnPieces(setup, e) /\ Tail(u) \in Seq(OwnPieces(setup, e))
    BY <1>1, <1>4
  <1> HIDE DEF x
  <1>6. x.text.instrument \in Given(setup, e) /\ x \in AllPieces
    BY <1>3, <1>5, OwnPiece
  <1>7. KeptUp(out)'
    <2> SUFFICES ASSUME NEW d \in Engines
                 PROVE  Keeps(order_books[d], unprinted'[d], Append(out, x), input, setup, d, processed[d], read)
      BY <1>1 DEF KeptUp
    <2>1. Keeps(order_books[d], unprinted[d], out, input, setup, d, processed[d], read)
      BY DEF XInv, KeptUp
    <2>2. CASE d = e
      <3>1. unprinted'[e] = Tail(u) /\ unprinted[e] = u
        BY <1>1, <1>2 DEF u
      <3>2. Keeps(order_books[e], Tail(u), Append(out, Head(u)), input, setup, e, processed[e], read)
        <4>1. Keeps(order_books[e], u, out, input, setup, e, processed[e], read)
          BY <2>1, <2>2, <3>1
        <4> DEFINE b == order_books[e]
                   f == processed[e]
        <4>2. /\ setup \in Setups /\ out \in Seq(AllPieces) /\ u \in Seq(OwnPieces(setup, e)) /\ u # <<>>
              /\ Keeps(b, u, out, input, setup, e, f, read)
          BY <1>1, <1>2, <1>3, <1>4, <4>1
        <4> HIDE DEF b, f
        <4>3. Keeps(b, Tail(u), Append(out, Head(u)), input, setup, e, f, read)
          BY ONLY <4>2, KeepsWritten
        <4> QED
          BY <4>3 DEF b, f
      <3> QED
        BY <2>2, <3>1, <3>2 DEF x
    <2>3. CASE d # e
      <3>1. unprinted'[d] = unprinted[d]
        BY <1>1, <1>2, <2>3
      <3>2. x.text.instrument \notin Given(setup, d)
        BY <1>3, <1>6, <2>3, GivenApart
      <3>3. Keeps(order_books[d], unprinted[d], Append(out, x), input, setup, d, processed[d], read)
        BY <1>2, <1>6, <2>1, <3>2, KeepsWrittenByOther
      <3> QED
        BY <3>1, <3>3
    <2> QED
      BY <2>2, <2>3
  <1>8. ExchangeTypes'
    <2>1. \A d \in Engines : unprinted'[d] \in Seq(OwnPieces(setup, d))
      BY <1>1, <1>2, <1>5
    <2>2. Append(out, x) \in Seq(AllPieces)
      BY <1>2, <1>6
    <2> QED
      BY <1>1, <1>2, <2>1, <2>2 DEF ExchangeTypes
  <1>9. Printing'
    <2> SUFFICES ASSUME NEW d \in Engines, unprinted'[d] # <<>> PROVE epc[d] = "process"
      BY <1>1 DEF Printing
    <2>1. unprinted[d] # <<>>
      BY <1>1, <1>2 DEF u
    <2> QED
      BY <2>1 DEF XInv, Printing
  <1>10. Sampled'
    BY <1>1 DEF XInv, Sampled
  <1> QED
    BY <1>1, <1>7, <1>8, <1>9, <1>10 DEF XInv

LEMMA GreaterOfTwo ==
  ASSUME NEW a \in Int, NEW b \in Int
  PROVE  Max({a, b}) \in Int /\ Max({a, b}) >= a /\ Max({a, b}) >= b
  <1>1. \E m \in {a, b} : \A y \in {a, b} : m >= y
    OBVIOUS
  <1>2. Max({a, b}) \in {a, b} /\ \A y \in {a, b} : Max({a, b}) >= y
    BY <1>1 DEF Max
  <1> QED
    BY <1>2

\* The books an engine has are those of the matcher, so they can be averaged.
LEMMA BooksGood ==
  ASSUME Inv, KeptUp(out), NEW e \in Engines
  PROVE  IsLibrary(order_books[e]) /\ DOMAIN order_books[e] \subseteq Listed
  <1>1. Readable(input, read)
    BY InvReadable
  <1>2. PICK n \in 0 .. read : order_books[e] = ViewBooks(Given(setup, e), Turn(input)[n])
    BY DEF KeptUp, Keeps, EngineView
  <1>3. TurnGood(Turn(input)[n])
    BY <1>1, TurnTyped
  <1> QED
    BY <1>2, <1>3, OnTyped DEF ViewBooks, TurnGood

LEMMA AverageTyped ==
  ASSUME NEW books, IsLibrary(books), DOMAIN books \subseteq Listed, books # <<>>
  PROVE  Average(books) \in Int
  <1>1. DOMAIN books # {}
    <2> SUFFICES ASSUME DOMAIN books = {} PROVE books = <<>>
      OBVIOUS
    <2> QED
      BY DEF IsLibrary
  <1>2. IsFiniteSet(DOMAIN books)
    <2>1. IsFiniteSet(Instruments)
      BY ExchangeAssumption, FS_Interval DEF Instruments
    <2> QED
      BY <2>1, FS_Subset DEF IsLibrary
  <1>3. Cardinality(DOMAIN books) \in Nat /\ Cardinality(DOMAIN books) # 0
    BY <1>1, <1>2, FS_CardinalityType, FS_EmptySet
  <1>4. Average(books) = Len(DumpText(books)) \div Cardinality(DOMAIN books) /\ Len(DumpText(books)) \in Nat
    BY DumpLength
  <1> QED
    BY <1>3, <1>4

\* A sample: the greatest number recorded is up to date when the engine leaves
\* its queue.
LEMMA SampleKeeps ==
  ASSUME Inv, XInv, rpc # "done", NEW e \in Engines, Sample(e)
  PROVE  XInv'
  <1>1. /\ epc[e] = "process" /\ unprinted[e] = <<>>
        /\ UNCHANGED <<input, setup, read, processed, order_books, unprinted, out>>
        /\ rpc' # "done" /\ [Next]_vars
        /\ \A d \in Engines : d # e => epc'[d] = epc[d]
    BY DEF Sample, TestTerminate, Return, Running, given, routerVars, Next, Engine, Inv, TypeOK
  <1>2. peak \in [Engines -> Int] /\ KeptUp(out)
    BY DEF XInv, ExchangeTypes
  <1>3. peak' = IF order_books[e] = <<>> THEN peak
                ELSE [peak EXCEPT ![e] = Max({peak[e], Average(order_books[e])})]
    BY DEF Sample
  <1>4. order_books[e] # <<>> =>
          /\ Max({peak[e], Average(order_books[e])}) \in Int
          /\ Max({peak[e], Average(order_books[e])}) >= Average(order_books[e])
    <2> SUFFICES ASSUME order_books[e] # <<>>
                 PROVE  /\ Max({peak[e], Average(order_books[e])}) \in Int
                        /\ Max({peak[e], Average(order_books[e])}) >= Average(order_books[e])
      OBVIOUS
    <2>1. Average(order_books[e]) \in Int
      BY <1>2, BooksGood, AverageTyped
    <2> QED
      BY <1>2, <2>1, GreaterOfTwo
  <1>5. peak' \in [Engines -> Int]
    BY <1>2, <1>3, <1>4
  <1>6. ExchangeTypes'
    BY <1>1, <1>5 DEF XInv, ExchangeTypes
  <1>7. Sampled'
    <2> SUFFICES ASSUME NEW d \in Engines, epc'[d] # "process", order_books[d] # <<>>
                 PROVE  peak'[d] >= Average(order_books[d])
      BY <1>1 DEF Sampled
    <2>1. CASE d = e
      BY <1>2, <1>3, <1>4, <2>1
    <2>2. CASE d # e
      <3>1. peak'[d] = peak[d] /\ epc'[d] = epc[d]
        BY <1>1, <1>2, <1>3, <2>2
      <3> QED
        BY <3>1 DEF XInv, Sampled
    <2> QED
      BY <2>1, <2>2
  <1>8. Printing'
    <2> SUFFICES ASSUME NEW d \in Engines, unprinted[d] # <<>> PROVE epc'[d] = "process"
      BY <1>1 DEF Printing
    <2> QED
      BY <1>1 DEF XInv, Printing
  <1>9. KeptUp(out)'
    BY <1>1, <1>2 DEF KeptUp
  <1> QED
    BY <1>1, <1>6, <1>7, <1>8, <1>9 DEF XInv

\* At the end every engine has come as far as the matcher.
LEMMA AllKept ==
  ASSUME Inv, XInv, rpc \in {"dump", "done"}, NEW front, KeptUp(front), NEW e \in Engines
  PROVE  /\ order_books[e] = ViewBooks(Given(setup, e), Turn(input)[read])
         /\ Only(Given(setup, e), front) \o <<>> = ViewPieces(Given(setup, e), Turn(input)[read])
  <1>1. Readable(input, read) /\ setup \in Setups
    BY InvReadable
  <1>2. epc[e] \in {"idle", "exited"}
    BY AllStopped
  <1>3. unprinted[e] = <<>>
    BY <1>2 DEF XInv, Printing
  <1>4. Range(processed[e]) = LinesOf(input, setup, e, read)
    BY InvDumpIsFinal, MineIs DEF DumpIsFinal
  <1>5. Keeps(order_books[e], <<>>, front, input, setup, e, processed[e], read)
    BY <1>3 DEF KeptUp
  <1>6. EngineView(order_books[e], <<>>, front, input, setup, e, processed[e], read)
    BY <1>1, <1>4, <1>5, KeepsAll
  <1> QED
    BY <1>6 DEF EngineView

LEMMA DumpKeeps ==
  ASSUME Inv, XInv, rpc # "done", Dump
  PROVE  XInv'
  <1> DEFINE t == Turn(input)[read]
  <1>1. /\ rpc = "dump" /\ rpc' = "done"
        /\ UNCHANGED <<input, setup, read, epc, processed, order_books, unprinted, peak>>
    BY DEF Dump, DumpOrders, given, routerVars, engineVars
  <1>2. Readable(input, read) /\ setup \in Setups
    BY InvReadable
  <1>3. out \in Seq(AllPieces) /\ KeptUp(out)
    BY <1>1 DEF XInv, ExchangeTypes
  <1>4. TurnGood(t)
    <2>1. read \in 0 .. read
      BY <1>2 DEF Readable
    <2> QED
      BY <1>2, <2>1, TurnTyped
  <1>5. \A e \in get_engines : order_books[e] = On(Given(setup, e), t.books)
    <2>1. get_engines \subseteq Engines
      BY <1>2, Routes
    <2> QED
      BY <1>1, <1>3, <2>1, AllKept DEF ViewBooks
  <1>6. out' = out \o Pieces(FlattenSeq([e \in Engines |-> IF e \in get_engines THEN DumpText(order_books[e])
                                                                             ELSE <<>>]))
    BY DEF Dump
  <1> HIDE DEF t
  <1>7. FlattenSeq([e \in Engines |-> IF e \in setup.engines THEN DumpText(order_books[e]) ELSE <<>>])
          = DumpText(t.books)
    <2> DEFINE ob == order_books
               books == t.books
               s == setup
    <2>1. s \in Setups /\ IsLibrary(books) /\ DOMAIN books \subseteq Listed
          /\ \A e \in s.engines : ob[e] = On(Given(s, e), books)
      BY <1>2, <1>4, <1>5 DEF TurnGood, get_engines
    <2> HIDE DEF ob, books, s
    <2>2. FlattenSeq([e \in Engines |-> IF e \in s.engines THEN DumpText(ob[e]) ELSE <<>>])
            = DumpText(books)
      BY ONLY <2>1, DumpOfEngines
    <2> QED
      BY <2>2 DEF ob, books, s
  <1>8. out' = out \o FinalDump(input, read)
    BY <1>6, <1>7 DEF get_engines, FinalDump, t
  <1>10. FinalDump(input, read) \in Seq(AllPieces)
    <2>1. DumpText(t.books) \in Seq(Texts(Listed))
      BY <1>4, DumpTyped DEF TurnGood
    <2> QED
      BY <2>1, PiecesTyped DEF FinalDump, AllPieces, t
  <1>11. Ended'
    <2>1. \A e \in Engines : Keeps(order_books'[e], unprinted'[e], out, input', setup', e, processed'[e], read')
      BY <1>1, <1>3 DEF KeptUp
    <2>2. out' = out \o FinalDump(input', read')
      BY <1>1, <1>8
    <2> QED
      BY <1>3, <2>1, <2>2 DEF Ended, KeptUp
  <1>12. ExchangeTypes'
    <2>1. out \o FinalDump(input, read) \in Seq(AllPieces)
      BY <1>3, <1>10
    <2> QED
      BY <1>1, <1>8, <2>1 DEF XInv, ExchangeTypes
  <1>13. Printing' /\ Sampled'
    BY <1>1 DEF XInv, Printing, Sampled
  <1> QED
    BY <1>1, <1>11, <1>12, <1>13 DEF XInv

LEMMA StutterKeeps ==
  ASSUME XInv, UNCHANGED allVars
  PROVE  XInv'
  <1>1. UNCHANGED <<input, setup, rpc, read, epc, processed, order_books, unprinted, out, peak>>
    BY DEF allVars, ownVars, vars, given, routerVars, engineVars
  <1> QED
    BY <1>1 DEF XInv, ExchangeTypes, Printing, Sampled, KeptUp, Ended

LEMMA XInvStep ==
  ASSUME Inv, XInv, [NextExchange]_allVars
  PROVE  XInv'
  <1>1. CASE rpc = "done"
    BY <1>1, NothingAfterEnd, StutterKeeps
  <1>2. CASE UNCHANGED allVars
    BY <1>2, StutterKeeps
  <1>3. CASE rpc # "done" /\ NextExchange
    <2>1. CASE Dump
      BY <1>3, <2>1, DumpKeeps
    <2>2. CASE rpc # "dump" /\ Router /\ UNCHANGED ownVars
      BY <1>3, <2>2, RouterKeeps
    <2>3. ASSUME NEW e \in Engines, Pull(e) PROVE XInv'
      BY <1>3, <2>3, PullKeeps
    <2>4. ASSUME NEW e \in Engines, MatchNext(e) PROVE XInv'
      BY <1>3, <2>4, MatchKeeps
    <2>5. ASSUME NEW e \in Engines, WritePiece(e) PROVE XInv'
      BY <1>3, <2>5, WriteKeeps
    <2>6. ASSUME NEW e \in Engines, Sample(e) PROVE XInv'
      BY <1>3, <2>6, SampleKeeps
    <2> QED
      BY <1>3, <2>1, <2>2, <2>3, <2>4, <2>5, <2>6 DEF NextExchange
  <1> QED
    BY <1>1, <1>2, <1>3

LEMMA ExchangeInvariance == SpecExchange => []XInv
  <1>1. InitExchange => XInv
    BY XInvInit
  <1>2. Inv /\ XInv /\ [NextExchange]_allVars => XInv'
    BY XInvStep
  <1>3. SpecExchange => []Inv
    BY WithinInvariance
  <1> QED
    BY <1>1, <1>2, <1>3, PTL DEF SpecExchange

-----------------------------------------------------------------------------
(* What the whole program promises *)

LEMMA SplitOutput ==
  ASSUME NEW S, NEW f \in Seq(S), NEW d \in Seq(S), NEW w, w = f \o d
  PROVE  /\ Len(w) - Len(d) = Len(f)
         /\ SubSeq(w, 1, Len(f)) = f
         /\ SubSeq(w, Len(f) + 1, Len(w)) = d
  <1>1. /\ w \in Seq(S) /\ Len(w) = Len(f) + Len(d) /\ Len(f) \in Nat /\ Len(d) \in Nat
        /\ \A k \in 1 .. Len(f) : w[k] = f[k]
        /\ \A k \in 1 .. Len(d) : w[Len(f) + k] = d[k]
    OBVIOUS
  <1>2. SubSeq(w, 1, Len(f)) = f
    <2>1. /\ SubSeq(w, 1, Len(f)) \in Seq(S) /\ Len(SubSeq(w, 1, Len(f))) = Len(f)
          /\ \A k \in 1 .. Len(f) : SubSeq(w, 1, Len(f))[k] = w[k]
      BY <1>1
    <2> QED
      BY <1>1, <2>1, SeqEqual
  <1>3. SubSeq(w, Len(f) + 1, Len(w)) = d
    <2> DEFINE t == SubSeq(w, Len(f) + 1, Len(w))
    <2>1. /\ t \in Seq(S) /\ Len(t) = Len(d)
          /\ \A k \in 1 .. Len(d) : t[k] = w[Len(f) + k]
      BY <1>1
    <2> HIDE DEF t
    <2>2. \A k \in 1 .. Len(d) : t[k] = d[k]
      BY <1>1, <2>1
    <2>3. t = d
      BY <2>1, <2>2, SeqEqual
    <2> QED
      BY <2>3 DEF t
  <1> QED
    BY <1>1, <1>2, <1>3

\* At the end, what each engine printed is what the matcher says of its instruments.
LEMMA EndedKept ==
  ASSUME Inv, XInv, rpc \in {"dump", "done"}, NEW front \in Seq(AllPieces), KeptUp(front),
         NEW e \in get_engines
  PROVE  Only(Given(setup, e), front) = Only(Given(setup, e), Pieces(Turn(input)[read].texts))
  <1>1. e \in Engines
    BY InvReadable, Routes
  <1>2. Only(Given(setup, e), front) \o <<>> = ViewPieces(Given(setup, e), Turn(input)[read])
    BY <1>1, AllKept
  <1>3. Only(Given(setup, e), front) \o <<>> = Only(Given(setup, e), front)
    <2>1. Only(Given(setup, e), front) \in Seq(AllPieces)
      BY OnlyTyped
    <2> QED
      BY ONLY <2>1, ConcatEmptySeq
  <1> QED
    BY <1>2, <1>3 DEF ViewPieces

LEMMA LastTurn ==
  ASSUME Inv
  PROVE  TurnGood(Turn(input)[read])
  <1>1. Readable(input, read)
    BY InvReadable
  <1>2. read \in 0 .. read
    BY <1>1 DEF Readable
  <1> QED
    BY <1>1, <1>2, TurnTyped

LEMMA InvOutput == Inv /\ XInv => OutputIsSequential
  <1> DEFINE last == Turn(input)[Len(input)]
             dump == Pieces(DumpText(last.books))
             n == Len(out) - Len(dump)
  <1> SUFFICES ASSUME Inv, XInv, rpc = "done", BatchSize > 0
               PROVE  /\ n >= 0
                      /\ \A k \in 1 .. n : out[k].text.instrument \in Instruments
                      /\ \A i \in Instruments :
                           Only({i}, SubSeq(out, 1, n)) = Only({i}, Pieces(last.texts))
                      /\ SubSeq(out, n + 1, Len(out)) = dump
    BY DEF OutputIsSequential, Turn, OrderOn
  <1>1. read = Len(input)
    BY DEF Inv, Control, Reading
  <1>2. PICK front \in Seq(AllPieces) : out = front \o FinalDump(input, read) /\ KeptUp(front)
    BY DEF XInv, Ended
  <1>3. TurnGood(last)
    BY <1>1, LastTurn
  <1>4. setup \in Setups
    BY InvReadable
  <1>5. FinalDump(input, read) = dump
    BY <1>1 DEF FinalDump
  <1>6. \A e \in setup.engines : Only(Given(setup, e), front) = Only(Given(setup, e), Pieces(last.texts))
    BY <1>1, <1>2, EndedKept DEF get_engines
  <1> HIDE DEF last
  <1>7. dump \in Seq(AllPieces)
    <2>1. DumpText(last.books) \in Seq(Texts(Listed))
      BY <1>3, DumpTyped DEF TurnGood
    <2> QED
      BY <2>1, PiecesTyped DEF AllPieces
  <1> HIDE DEF dump
  <1>8. n = Len(front) /\ SubSeq(out, 1, Len(front)) = front
        /\ SubSeq(out, Len(front) + 1, Len(out)) = dump
    BY <1>2, <1>5, <1>7, SplitOutput
  <1>9. \A i \in Instruments : Only({i}, front) = Only({i}, Pieces(last.texts))
    <2>1. last.texts \in Seq(Texts(Listed))
      BY <1>3 DEF TurnGood
    <2> QED
      BY <1>4, <1>6, <2>1, EndSequential
  <1>10. \A k \in 1 .. Len(front) : out[k].text.instrument \in Instruments
    <2> SUFFICES ASSUME NEW k \in 1 .. Len(front) PROVE out[k].text.instrument \in Instruments
      OBVIOUS
    <2>1. out[k] = front[k]
      BY <1>2, <1>5, <1>7
    <2>2. front[k] \in AllPieces
      BY <1>2
    <2> QED
      BY <2>1, <2>2 DEF AllPieces, PiecesOf, Texts
  <1>11. Len(front) >= 0
    BY <1>2
  <1> HIDE DEF n
  <1> QED
    BY <1>8, <1>9, <1>10, <1>11

LEMMA InvWhole == Inv /\ XInv => LinesWhole
  <1> SUFFICES ASSUME Inv, XInv, NEW e \in get_engines PROVE Whole(Only(Given(setup, e), out))
    BY DEF LinesWhole, InstrumentsOf, Given, find_engine
  <1>1. Readable(input, read) /\ setup \in Setups /\ e \in Engines
    BY InvReadable, Routes
  <1> DEFINE I == Given(setup, e)
  <1>2. CASE rpc # "done"
    <2>1. out \in Seq(AllPieces) /\ unprinted[e] \in Seq(OwnPieces(setup, e)) /\ KeptUp(out)
      BY <1>1, <1>2 DEF XInv, ExchangeTypes
    <2>2. PICK n \in 0 .. read : Only(I, out) \o unprinted[e] = ViewPieces(I, Turn(input)[n])
      BY <1>1, <2>1 DEF KeptUp, Keeps, EngineView
    <2>3. Turn(input)[n].texts \in Seq(Texts(Listed))
      BY <1>1, TurnTyped DEF TurnGood
    <2> DEFINE u == unprinted[e]
    <2>4. u \in Seq(AllPieces)
      BY <1>1, <2>1, OwnPiecesTyped
    <2> HIDE DEF I, u
    <2>5. Whole(Only(I, out) \o u)
      <3>1. Complete(Only(I, Pieces(Turn(input)[n].texts)))
        BY <2>3, LinesComplete
      <3> QED
        BY <2>2, <3>1 DEF Complete, ViewPieces, u
    <2>6. Only(I, out) \in Seq(AllPieces)
      BY <2>1, OnlyTyped
    <2>7. Whole(Only(I, out))
      BY ONLY <2>4, <2>5, <2>6, FirstWhole
    <2> QED
      BY <2>7 DEF I
  <1>3. CASE rpc = "done"
    <2>1. PICK front \in Seq(AllPieces) : out = front \o FinalDump(input, read) /\ KeptUp(front)
      BY <1>3 DEF XInv, Ended
    <2> DEFINE last == Turn(input)[read]
    <2>2. TurnGood(last)
      BY LastTurn
    <2>3. Only(I, front) = Only(I, Pieces(last.texts))
      BY <1>3, <2>1, EndedKept
    <2>4. out = front \o Pieces(DumpText(last.books))
      BY <2>1 DEF FinalDump
    <2> HIDE DEF last, I
    <2>5. last.texts \in Seq(Texts(Listed)) /\ DumpText(last.books) \in Seq(Texts(Listed))
      BY <2>2, DumpTyped DEF TurnGood
    <2>6. Whole(Only(I, front \o Pieces(DumpText(last.books))))
      BY ONLY <2>1, <2>3, <2>5, EndWhole
    <2> QED
      BY <2>4, <2>6 DEF I
  <1> QED
    BY <1>2, <1>3

LEMMA InvPeak == Inv /\ XInv => PeakCoversFinal
  <1> SUFFICES ASSUME Inv, XInv, rpc = "done", NEW e \in get_engines, order_books[e] # <<>>
               PROVE  peak[e] >= Len(DumpText(order_books[e])) \div Cardinality(DOMAIN order_books[e])
    BY DEF PeakCoversFinal
  <1>1. e \in Engines /\ setup \in Setups
    BY InvReadable, Routes
  <1>2. peak[e] >= Average(order_books[e])
    <2>1. epc[e] \in {"idle", "exited"}
      BY <1>1, AllStopped
    <2> QED
      BY <1>1, <2>1 DEF XInv, Sampled
  <1>3. PICK front : KeptUp(front)
    BY DEF XInv, Ended
  <1>4. order_books[e] = On(Given(setup, e), Turn(input)[read].books)
    BY <1>1, <1>3, AllKept DEF ViewBooks
  <1>5. IsLibrary(order_books[e]) /\ DOMAIN order_books[e] \subseteq Listed
    BY <1>4, LastTurn, OnTyped DEF TurnGood
  <1>6. Average(order_books[e]) = Len(DumpText(order_books[e])) \div Cardinality(DOMAIN order_books[e])
    BY <1>5, DumpLength
  <1> QED
    BY <1>2, <1>6

\* The program as a whole works as one matcher does that takes the lines of the
\* input in turn: the same trades of every instrument in the same order, and then
\* the same open orders; with any engines, any batch size, with or without threads.
THEOREM OutputOfOneMatcher == SpecExchange => []OutputIsSequential
  BY WithinInvariance, ExchangeInvariance, InvOutput, PTL

\* An engine's lines are torn only by the lines of other engines.
THEOREM LinesAreWhole == SpecExchange => []LinesWhole
  BY WithinInvariance, ExchangeInvariance, InvWhole, PTL

\* The sizes reported at the end cover the orders that are dumped.
THEOREM PeaksAreFinal == SpecExchange => []PeakCoversFinal
  BY WithinInvariance, ExchangeInvariance, InvPeak, PTL

\* Books and output do not hold up or change the pipeline: it keeps its promise.
THEOREM ExchangeKeepsPromise == SpecExchange => ImplementsInOrder
  BY PipelineWithin, PipelineKeepsPromise, PTL

=============================================================================
