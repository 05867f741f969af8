----------------------------- MODULE ActorMatch -----------------------------
(***************************************************************************)
(* actor-match: the main function reads lines and sends each order to the  *)
(* router actor, which spawns one order book actor per instrument and      *)
(* forwards the order.  From time to time, and at the end until nothing is *)
(* outstanding, the main function asks the router for the number of orders *)
(* the books have received; the router asks all books and adds up.  Then   *)
(* the books are told to dump their open orders and exit.                  *)
(*                                                                         *)
(* An order is known by its line number.  What a book does with it is      *)
(* module OrderBookActor; here it is appended to what the book received.   *)
(*                                                                         *)
(* The runtime (CAF, not part of the repository): an actor handles one     *)
(* message at a time and has a queue for messages of high priority and one *)
(* for the others.  Each is first in, first out; its scheduler serves both *)
(* in rounds, so which of the two is served next is left open.             *)
(***************************************************************************)
EXTENDS Integers, FiniteSets, SequencesExt

CONSTANTS Instruments,
          Malformed,    \* a line from_string rejects
          Inputs,       \* the inputs to read: bounds their length
          ReportMods,   \* the values of report_mod
          MaxReports,   \* bound on the reports asked for
          None

ASSUME ParametersAssumption == /\ Malformed \notin Instruments
                               /\ Inputs \subseteq Seq(Instruments \cup {Malformed})
                               /\ ReportMods \subseteq Nat
                               /\ MaxReports \in Nat

VARIABLES
  \* given, never changes
  input,          \* the lines: instruments, or Malformed
  report_mod,     \* a report every so many orders, 0 for none
  async_mode,
  \* main
  mpc, counter,
  response,       \* what the request it waits for was answered, or None
  \* RouterActor
  high, normal,   \* its mailbox
  book_map,       \* the instruments that have a book actor
  fan_outs,       \* unanswered fan-outs: by id, the books still to answer and the sum
  router_running,
  \* the OrderBookActors, by instrument
  book_high, book_normal,
  received,       \* the orders received, in that order (orders_received is their number)
  exited,
  \* history
  reports,        \* the reports printed: after how many orders, and the total
  dumped          \* the books that have dumped their open orders

given == <<input, report_mod, async_mode>>
mainVars == <<mpc, counter, response>>
mailbox == <<high, normal>>
routerState == <<book_map, fan_outs, router_running>>
bookVars == <<book_high, book_normal, received, exited, dumped>>
vars == <<given, mainVars, mailbox, routerState, bookVars, reports>>

\* Messages.  A summary request carries the counter; 0 names the final one, of
\* which at most one is outstanding.
Order(line)      == [kind |-> "new_order", line |-> line]
Summary(id)      == [kind |-> "dump_book_summary", id |-> id]
Stats(id, total) == [kind |-> "stats", id |-> id, total |-> total]
GetStats(id)     == [kind |-> "get_book_stats", id |-> id]
Dump             == [kind |-> "dump_book_and_exit"]
Exit             == [kind |-> "exit"]
Final == 0

\* What a request is answered: a value (the router's "true" counts as 0), or an error.
Value(total) == [ok |-> TRUE, total |-> total]
Error        == [ok |-> FALSE, total |-> 0]

Init ==
  /\ input \in Inputs
  /\ report_mod \in ReportMods
  /\ report_mod # 0 => Len(input) \div report_mod <= MaxReports
  /\ async_mode \in BOOLEAN
  /\ mpc = "read" /\ counter = 0 /\ response = None
  /\ high = <<>> /\ normal = <<>> /\ book_map = {} /\ fan_outs = <<>>
  /\ router_running = TRUE
  /\ book_high = [i \in Instruments |-> <<>>]
  /\ book_normal = [i \in Instruments |-> <<>>]
  /\ received = [i \in Instruments |-> <<>>]
  /\ exited = {}
  /\ reports = <<>>
  /\ dumped = {}

-----------------------------------------------------------------------------
(* main.cpp *)

\* What follows an order that was sent (and, in sync mode, acknowledged).
AfterSend(n) == IF report_mod # 0 /\ n % report_mod = 0 THEN "report" ELSE "read"

SendOrder ==
  /\ mpc = "read"
  /\ counter < Len(input)
  /\ input[counter + 1] # Malformed
  /\ normal' = Append(normal, Order(counter + 1))
  /\ counter' = counter + 1
  /\ mpc' = IF async_mode THEN AfterSend(counter + 1) ELSE "acknowledge"
  /\ UNCHANGED <<given, response, high, routerState, bookVars, reports>>

\* sync_send ignores what it receives, so an error would do as well.
ReceiveAcknowledgement ==
  /\ mpc = "acknowledge"
  /\ response # None
  /\ response' = None
  /\ mpc' = AfterSend(counter)
  /\ UNCHANGED <<given, counter, mailbox, routerState, bookVars, reports>>

\* from_string throws, nobody catches it: the process aborts.
BadLine ==
  /\ mpc = "read"
  /\ counter < Len(input)
  /\ input[counter + 1] = Malformed
  /\ mpc' = "aborted"
  /\ UNCHANGED <<given, counter, response, mailbox, routerState, bookVars, reports>>

SendReport ==
  /\ mpc = "report"
  /\ high' = Append(high, Summary(counter))
  /\ mpc' = "read"
  /\ UNCHANGED <<given, counter, response, normal, routerState, bookVars, reports>>

EndOfInput ==
  /\ mpc = "read"
  /\ counter = Len(input)
  /\ mpc' = "ask"
  /\ UNCHANGED <<given, counter, response, mailbox, routerState, bookVars, reports>>

\* wait_for_finish
Ask ==
  /\ mpc = "ask"
  /\ normal' = Append(normal, Summary(Final))
  /\ mpc' = "wait"
  /\ UNCHANGED <<given, counter, response, high, routerState, bookVars, reports>>

\* Mutation of AllReceived: an answer that is no error is enough.
AnyTotal(answer) == answer.ok

AllReceived(answer) == answer = Value(counter)

\* Any other answer, an error included, is asked for again (after 200 ms).
ReceiveTotal ==
  /\ mpc = "wait"
  /\ response # None
  /\ response' = None
  /\ mpc' = IF AllReceived(response) THEN "dump" ELSE "ask"
  /\ UNCHANGED <<given, counter, mailbox, routerState, bookVars, reports>>

\* To every actor of the group: those that were spawned and have not exited.
DumpBooks ==
  /\ mpc = "dump"
  /\ book_normal' = [i \in Instruments |->
                       IF i \in book_map \ exited THEN Append(book_normal[i], Dump)
                                                  ELSE book_normal[i]]
  /\ mpc' = "exit router"
  /\ UNCHANGED <<given, counter, response, mailbox, routerState, book_high, received,
                 exited, dumped, reports>>

\* The main function then waits for all actors to be done.
ExitRouter ==
  /\ mpc = "exit router"
  /\ high' = Append(high, Exit)
  /\ mpc' = "done"
  /\ UNCHANGED <<given, counter, response, normal, routerState, bookVars, reports>>

-----------------------------------------------------------------------------
(* router_actor.h *)

Routing == router_running /\ mpc # "aborted"

\* Mutation of Forward: the order that spawns a book is not forwarded to it.
ForwardToKnown(i, line) ==
  IF i \in book_map THEN [book_normal EXCEPT ![i] = Append(@, Order(line))] ELSE book_normal

Forward(i, line) == [book_normal EXCEPT ![i] = Append(@, Order(line))]

\* The first order of an instrument spawns its book, in the group of all books.
RouteOrder ==
  /\ Routing
  /\ normal # <<>> /\ Head(normal).kind = "new_order"
  /\ LET line == Head(normal).line
         i == input[line]
     IN /\ book_map' = book_map \cup {i}
        /\ book_normal' = Forward(i, line)
  /\ normal' = Tail(normal)
  /\ response' = IF async_mode THEN response ELSE Value(0)
  /\ UNCHANGED <<given, mpc, counter, high, fan_outs, router_running, book_high, received,
                 exited, dumped, reports>>

\* Mutation of Asked: the null handles that vector_from_map puts in front count too.
AskedAndNulls == 2 * Cardinality(book_map)

\* How many answers a fan-out waits for: the null handles are skipped.
Asked == Cardinality(book_map)

\* The request goes to all books at once, with high priority.  Without books the
\* fan-out fails at once, and so does the promise that was to be kept by it.
FanOut(id) ==
  IF book_map = {}
  THEN /\ response' = IF id = Final THEN Error ELSE response
       /\ UNCHANGED <<fan_outs, book_high>>
  ELSE /\ fan_outs' = [x \in DOMAIN fan_outs \cup {id} |->
                         IF x = id THEN [waiting |-> Asked, total |-> 0] ELSE fan_outs[x]]
       /\ book_high' = [i \in Instruments |->
                          IF i \in book_map THEN Append(book_high[i], GetStats(id))
                                            ELSE book_high[i]]
       /\ UNCHANGED response

HandleReport ==
  /\ Routing
  /\ high # <<>> /\ Head(high).kind = "dump_book_summary"
  /\ high' = Tail(high)
  /\ FanOut(Head(high).id)
  /\ UNCHANGED <<given, mpc, counter, normal, book_map, router_running, book_normal,
                 received, exited, dumped, reports>>

HandleFinal ==
  /\ Routing
  /\ normal # <<>> /\ Head(normal).kind = "dump_book_summary"
  /\ normal' = Tail(normal)
  /\ FanOut(Head(normal).id)
  /\ UNCHANGED <<given, mpc, counter, high, book_map, router_running, book_normal, received,
                 exited, dumped, reports>>

\* Mutation of Total: only the last answer counts.
TotalOfLast(fan_out, answer) == answer.total

Total(fan_out, answer) == fan_out.total + answer.total

Forget(id) == [x \in DOMAIN fan_outs \ {id} |-> fan_outs[x]]

\* One answer to a fan-out; the last one prints the report or keeps the promise
\* that main waits for (nobody waits for the answer to a report).
CollectStats ==
  /\ Routing
  /\ high # <<>> /\ Head(high).kind = "stats"
  /\ high' = Tail(high)
  /\ LET id == Head(high).id
         sum == Total(fan_outs[id], Head(high))
         last == fan_outs[id].waiting = 1
     IN /\ fan_outs' = IF last THEN Forget(id)
                       ELSE [fan_outs EXCEPT ![id] = [waiting |-> @.waiting - 1, total |-> sum]]
        /\ response' = IF last /\ id = Final THEN Value(sum) ELSE response
        /\ reports' = IF last /\ id # Final
                      THEN Append(reports, [after |-> id, total |-> sum])
                      ELSE reports
  /\ UNCHANGED <<given, mpc, counter, normal, book_map, router_running, bookVars>>

RouterExits ==
  /\ Routing
  /\ high # <<>> /\ Head(high).kind = "exit"
  /\ router_running' = FALSE
  /\ high' = <<>>
  /\ UNCHANGED <<given, mainVars, normal, book_map, fan_outs, bookVars, reports>>

ToRouter(m) == high' = IF router_running THEN Append(high, m) ELSE high

-----------------------------------------------------------------------------
(* order_book_actor.h, the actor of instrument i *)

Running(i) == i \in book_map \ exited /\ mpc # "aborted"

ReceiveOrder(i) ==
  /\ Running(i)
  /\ book_normal[i] # <<>> /\ Head(book_normal[i]).kind = "new_order"
  /\ received' = [received EXCEPT ![i] = Append(@, Head(book_normal[i]).line)]
  /\ book_normal' = [book_normal EXCEPT ![i] = Tail(@)]
  /\ UNCHANGED <<given, mainVars, mailbox, routerState, book_high, exited, dumped, reports>>

GetBookStats(i) ==
  /\ Running(i)
  /\ book_high[i] # <<>> /\ Head(book_high[i]).kind = "get_book_stats"
  /\ ToRouter(Stats(Head(book_high[i]).id, Len(received[i])))
  /\ book_high' = [book_high EXCEPT ![i] = Tail(@)]
  /\ UNCHANGED <<given, mainVars, normal, routerState, book_normal, received, exited,
                 dumped, reports>>

\* The exit message it sends itself has high priority.
DumpAndExit(i) ==
  /\ Running(i)
  /\ book_normal[i] # <<>> /\ Head(book_normal[i]).kind = "dump_book_and_exit"
  /\ dumped' = dumped \cup {i}
  /\ book_normal' = [book_normal EXCEPT ![i] = Tail(@)]
  /\ book_high' = [book_high EXCEPT ![i] = Append(@, Exit)]
  /\ UNCHANGED <<given, mainVars, mailbox, routerState, received, exited, reports>>

BookExits(i) ==
  /\ Running(i)
  /\ book_high[i] # <<>> /\ Head(book_high[i]).kind = "exit"
  /\ exited' = exited \cup {i}
  /\ book_high' = [book_high EXCEPT ![i] = Tail(@)]
  /\ UNCHANGED <<given, mainVars, mailbox, routerState, book_normal, received, dumped,
                 reports>>

-----------------------------------------------------------------------------

Main == \/ SendOrder \/ ReceiveAcknowledgement \/ BadLine \/ SendReport \/ EndOfInput
        \/ Ask \/ ReceiveTotal \/ DumpBooks \/ ExitRouter
RouterHigh == HandleReport \/ CollectStats \/ RouterExits
RouterNormal == RouteOrder \/ HandleFinal
BookHigh(i) == GetBookStats(i) \/ BookExits(i)
BookNormal(i) == ReceiveOrder(i) \/ DumpAndExit(i)

Next == \/ Main \/ RouterHigh \/ RouterNormal
        \/ \E i \in Instruments : BookHigh(i) \/ BookNormal(i)

Spec == Init /\ [][Next]_vars

\* The main thread runs, and an actor with messages is scheduled until it has
\* served both of its queues.
Fairness == /\ WF_vars(Main) /\ WF_vars(RouterHigh) /\ WF_vars(RouterNormal)
            /\ \A i \in Instruments : WF_vars(BookHigh(i)) /\ WF_vars(BookNormal(i))
FairSpec == Spec /\ Fairness

-----------------------------------------------------------------------------

\* Besides the types: no book is asked after it has exited, so no request is
\* answered by the runtime with an error (there is no action for that).
TypeOK ==
  LET Lines == 1 .. Len(input)
      Ids == 0 .. Len(input)
      Totals == 0 .. Len(input)
  IN /\ mpc \in {"read", "acknowledge", "report", "ask", "wait", "dump", "exit router",
                 "done", "aborted"}
     /\ counter \in Totals
     /\ response \in {Value(t) : t \in Totals} \cup {Error, None}
     /\ Range(high) \subseteq {Summary(id) : id \in Ids}
                              \cup {Stats(id, t) : id \in Ids, t \in Totals} \cup {Exit}
     /\ Range(normal) \subseteq {Order(p) : p \in Lines} \cup {Summary(Final)}
     /\ book_map \subseteq Instruments
     /\ DOMAIN fan_outs \subseteq Ids
     /\ \A id \in DOMAIN fan_outs : /\ fan_outs[id].waiting \in 1 .. Cardinality(book_map)
                                    /\ fan_outs[id].total \in Totals
     /\ exited \subseteq dumped /\ dumped \subseteq book_map
     /\ \A i \in exited : book_high[i] = <<>>
     /\ \A i \in Instruments :
          /\ Range(book_high[i]) \subseteq {GetStats(id) : id \in Ids} \cup {Exit}
          /\ Range(book_normal[i]) \subseteq {Order(p) : p \in Lines} \cup {Dump}
          /\ received[i] \in Seq(Lines)

OrderLines(queue) == {queue[k].line : k \in {j \in DOMAIN queue : queue[j].kind = "new_order"}}
Ascending(queue) == \A j, k \in DOMAIN queue :
                      j < k /\ queue[j].kind = "new_order" /\ queue[k].kind = "new_order"
                        => queue[j].line < queue[k].line
AllBelow(S, T) == \A s \in S, t \in T : s < t

\* Between main and the books no order is lost, doubled or overtaken, whatever
\* the summary requests, the spawning of books and the two priorities do: the
\* lines of an instrument that were read are those its book has received, in that
\* order, then those in the book's mailbox, then those still at the router.
NothingLost ==
  /\ Ascending(normal)
  /\ \A i \in Instruments :
       LET here == OrderLines(book_normal[i])
           coming == {p \in OrderLines(normal) : input[p] = i}
       IN /\ Range(received[i]) \cup here \cup coming = {p \in 1 .. counter : input[p] = i}
          /\ \A j, k \in DOMAIN received[i] : j < k => received[i][j] < received[i][k]
          /\ AllBelow(Range(received[i]), here \cup coming)
          /\ Ascending(book_normal[i])
          /\ AllBelow(here, coming)

\* Reports are printed in the order in which they were asked for, and a later one
\* never shows a smaller total, though each is a sum of answers of different times.
ReportsMonotone ==
  \A j, k \in DOMAIN reports :
    j < k => reports[j].after < reports[k].after /\ reports[j].total <= reports[k].total

\* main.cpp:105 says "orders processed" as soon as an answer equals the number of lines
\* read.  The answer is a sum of counts that the books gave at different times, of
\* those books that were there when the router asked; still every line has been
\* received by its book when it is said.
AllProcessed ==
  mpc \in {"dump", "exit router", "done"} =>
    \A i \in Instruments : Range(received[i]) = {p \in 1 .. Len(input) : input[p] = i}

Ended == ~router_running /\ exited = book_map

\* A readable input with at least one order is worked off, dumped and ended:
\* the final request is repeated only until the books have caught up.  (Without
\* orders there are no books, the fan-out fails and main asks again forever.)
Finishes ==
  (Len(input) > 0 /\ \A p \in 1 .. Len(input) : input[p] # Malformed)
    ~> (mpc = "done" /\ Ended /\ dumped = Range(input))

Promise == INSTANCE InOrder
           WITH Workers  <- Instruments,
                lines    <- input,
                handled  <- received,
                reported <- dumped,
                stopped  <- mpc = "aborted"

\* The actors implement the promise of module InOrder: a book's dump does not
\* overtake orders that are still at the router or in its mailbox.  It is the
\* order within the mailboxes that ensures it, and that main waits for an answer;
\* what the answer says decides how long (see AllProcessed and Finishes).
ImplementsInOrder == Promise!Init /\ [][Promise!Next]_(Promise!vars)
=============================================================================
