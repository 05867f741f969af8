# Verification of cpp-match

TLA+ specifications of the programs in this repository, the TLC configurations that
model-check them, and theorems about them checked by TLAPS. `PROJECT.json` is the index:
components, runs, mutants, findings, hazards, theorems, and for every definition the
source lines it translates.

The repository holds three programs with state worth verifying:

* **match-engine** — reads limit orders, routes them to one or more matching engines
  (threads), each of which matches them with heap based order books and prints trades; at
  the end of the input the open orders are dumped.
* **actor-match** — the same matcher written with actors of the C++ Actor Framework (CAF).
* **class-perf** (`actor-examples/`) — a benchmark of threads against an actor pool.

plus a header `common/histogram.h` that match-engine uses to report timings, and a number of
independent one-file exercises in `util/`.

## 1. Inventory

| Component | State | Operations | Talks to |
|---|---|---|---|
| `Order`, `operator<`, price test (`common/model/order.h`) | a record; `remaining_quantity` changes | rank, cross | everybody copies orders |
| `OrderFactory` (`common/model/order_factory.h`) | – | parse a line, or throw | providers, actor-match main |
| `OrderBook` (match-engine) | two `std::vector`s kept as heaps | `add_to_book`, `get_contra_orders`, `purge`, size | owned by one engine |
| `MatchingEngine`, matching | `order_books`, the loop's current order | `process_queued_orders` body, `match` | books |
| `MatchingEngine`, queue | `incoming_orders`, mutex, `terminate`, the thread | `new_orders`, `pull_queued_orders`, `terminate_processing` | main thread (shared queue), engine thread |
| `OrderRouter` | batch, groups by engine | `event_loop` | provider, routing strategy, engines |
| `DarkPoolService` | engines, their threads | `run`: spawn, loop, terminate, join, dump | all of the above |
| Command line (`main.cc`, `config.h`) | the settings | parse, open the input, refuse | provider, service |
| Standard output | what was written | `print_trade`, `print_books`, `operator<<` | all engine threads write to it, without a lock |
| Order providers | a stream position | `get_orders(batch)` | router |
| Routing strategy | sorted partitions, engines | build, `find_engine` | router |
| actor-match main | counter, pending answer | send (async or acknowledged), report, wait for finish, dump, exit | router actor |
| `RouterActor` | `book_map`, running fan-outs | `new_order`, `dump_book_summary` | books (spawns them) |
| `OrderBookActor` | `m_book`, `orders_received` | `new_order`, `delete_order`, `get_book_stats`, `dump_book_and_exit` | router |
| `Histogram` | measurements | `record_value`, sum / max per second, percentiles | engines, router |
| Order generator (`match-engine-test`) | instruments, next id | `generate_random_order` | its output is piped into match-engine |
| `util/` sum, flip, traversal | a sequence, a tree | `max_ascending_sum`, `flip`, `immutable_flip`, traversals | – |
| class-perf | work queue, flag, counters, two kinds of actors | `par_func`, `time_par_func`, `posh_pool`, `posh_counter`, `time_actor_pool` | – |

What is hard here, and what makes each part correct:

* **Matching.** A long sequence of partial fills updates three places: the loop's copy of the
  order, the book, and the trade lines. Correct if no quantity is lost or invented, no order
  is open twice, the books are never crossed, and every trade is with the best contra
  order. The last rests on heaps whose front is decremented in place, popped, pushed to and
  (in actor-match) erased from in the middle.
* **The queue between main thread and engines.** Copy, clear, push, the `terminate` test and
  the second look at the queue can interleave. Correct if no order is lost, duplicated or
  overtaken, and if the dump, which takes no lock, happens after every engine has worked off
  its queue. The threads must also come to an end.
* **One output, several threads.** A TRADE line is several writes to a shared stream. Correct if
  an instrument's trades and the dump are what a single matcher would print, whatever the
  threads do, and if at least the lines of one engine and the dump come out whole.
* **actor-match's end.** main learns that the work is done from a sum of counts that
  different books gave at different times, in messages that overtake the orders. Correct if
  what is dumped then is the state after all orders, and if the sum matches eventually.
  The sum does not protect the dump: the final request and the dump queue behind the
  orders, so the dump would be complete even if main took any sum for the right one. What the sum
  does decide is when main says that all orders were processed (`AllProcessed`).
* **The way in.** A command line of optional words, of which each may be refused after another was
  accepted, and lines of text that are printed and read by different code.
* **Numeric edges.** The 0.0001 price tolerance, millisecond timestamps, partition
  boundaries, batch size, quantities of zero, the binning of seconds, percentile indices.

The full list, with lines, is `hazards` in `PROJECT.json`.

## 2. Modules and how they correspond to the code

```
Orders ── OrderBook (+ Heap) ── MatchingEngine ── MCMatchingEngine
   │            │                    │  └── MatchersAgree (MatchingEngine x actor books)
   │            │                    └── implements LimitOrderBook
   │            └── OrderBookActor ── MCOrderBookActor
   └── LimitOrderBook ── LimitOrderBookProofs

InOrder ◄─ implemented by ─ DarkPool ── MCDarkPool, DarkPoolProofs
   └────── implemented by ─ ActorMatch ── MCActorMatch

Exchange = DarkPool + OrderBook ── MCExchange (routing by Routing)
FrontEnd = Routing + OrderText ── MCFrontEnd
ClassPerf = ParFunc ; ActorPool      Algorithms = Histogram | AscendingSum | Trees
```

The proofs: `HeapProofs` (over OrderBook) is used by `MatchingEngineProofs` (over MatchersAgree) and
`OrderBookActorProofs`; `DarkPoolProofs`, `ActorMatchProofs` and `FrontEndProofs` extend the module they
are named after; `SmallProgramsProofs` is about ClassPerf and Algorithms.

**Orders** – the order record, `operator<` (`RanksLower`) with its tolerance, the price test.
Prices are whole ticks; `Tolerance` is the distance 0.0001 in ticks. An order's `id` is its
arrival number: the program identifies an order by the object that holds it; the `order_id` of
the input is only printed (and, in actor-match, used by `delete_order`).

**Heap** – `push_heap`, `pop_heap`, `make_heap` as libstdc++ implements them. External code,
but which of two orders of equal rank trades first is decided there, so it is modelled
exactly. `MCMatchingEngine` holds an assumption that TLC evaluates: the layout the repository's
own test expects of `make_heap` (`test_order_semantics.cc`).

**OrderBook** – a book is two sequences; the operations are operators from book to book.
`MatchOrder` is actor-match's `match_order` from start to end; with the book it returns the
TRADE lines printed.

**LimitOrderBook** – the abstract promise: a *set* of resting orders; an incoming order trades
with a best contra order while one crosses, and rests otherwise. It has no run of its own: TLC
meets it as what the engine implements, and what it guarantees is proved.

**MatchingEngine** – one engine's loop. `TakeOrder` is the next iteration of
`process_queued_orders`; `FirstOrder` the branch that opens a book; `Trade`, `Enter`, `Done`
the three ways through the loop of `match()`. The granularity is a trade, because a trade line
is printed at each. Its orders come from the environment (any order over the constants).

**DarkPool** – the main thread (`rpc` is its position) and the engine threads (`epc`). One
action per step that another thread can observe: lock, copy, clear-and-unlock, each order,
the atomic `terminate` test, the size test under the lock (`Peek`, one step: nothing else
happens under that lock). An order is known by its line number; matching is abstracted to
appending to `processed`, which is sound because an engine's thread does nothing else with it.
The engines' addresses order the map of groups, hence `NextGroup` picks any. What the
constructors make of the command line is the variable `setup` (batch size, concurrency,
engines, `find_engine`), which is never changed: TLC takes it from a set, the theorems from all
there are. A concurrency of 0 has no threads: the main thread runs the engine's loop after
each group.

**InOrder** – what a pipeline of workers promises its user, without queues, threads or
messages: every worker handles its own lines, each once, in the order of the input; it
reports once, and only when no line of its own is left; a malformed line may stop
everything. `DarkPool` implements it with engines for workers and the dump for the report, and
`ActorMatch` with book actors.

**Exchange** – match-engine as a whole: `DarkPool`'s steps, where processing an order now
matches it in the engine's books (`OrderBook`), and printing its trades takes several writes
to `out` (`WritePiece`; `std::cout` is not locked, `PiecesPerLine` bounds the writes of a
line). `Sample` joins `calculate_order_book_sizes` to the test that follows it. `DumpText` is
`dump_orders`: engines in the order of the partitions, instruments in the order of the map,
buys and then sells as they lie in their heaps. Engines (in the order of the partitions) and
instruments (in the order of their names) are numbers from 1; `ExchangeAssumption` says that the
routing keeps that order, which is what `RangesContiguous` shows of `Routing`. For TLC the routing is
computed by `Routing` for two, one and no threads. `MCExchange` states the sample session of the README
(match-engine/README.md:21-38) as an assumption, so TLC evaluates the matching operators on it.

**Routing** – the construction of partitions from the concurrency and `find_engine`. A partition
is a one-character string, so an instrument is represented by the code of its first character:
a nonempty string is less than a one-character string exactly if its first character is.

**OrderText** – what `operator<<` prints of an order and what `from_string` makes of a line.
A line is a sequence of tokens and blanks; a token is what the code can tell from it: its first
character, and the number it begins with, in hundredths (more decimals are not modelled). Printing fills
up the identifier with blanks and keeps six significant digits of the price, of whatever size; which way a
price halfway between two is rounded is left open, as the double is seldom halfway itself; reading drops blanks, takes the side from one letter and cuts a
quantity at the point. The generator's random draws are a set of orders.

**FrontEnd** – `main.cc`: the words of the command line, the provider, the engines, then lines
from the generator or from elsewhere, one at a time, up to `find_engine` (batches are in
`DarkPool`).

**OrderBookActor** – the book actor; a handler runs to its end, so it is one step.

**ActorMatch** – main, router and books with their mailboxes: two first-in-first-out queues each, for
messages of high and of normal priority. Which one is served next is left open (CAF serves
both in rounds). A summary request carries the order counter as its name; 0 names the final
one. The router's `fan_out_request` is a record of how many answers are outstanding and
their sum. Requests to exited books, which the runtime answers with an error, do not happen (a
conjunct of `TypeOK`). The vector of
handles that `vector_from_map` returns starts with as many null handles as there are books;
CAF skips them, so `Asked` is the number of books. The answers to asynchronous reports are ignored
by main and not modelled.

**MatchersAgree** – the engine and the book actors driven by the same orders. Both are modelled with the
operators of OrderBook (`AddToBook`, `AfterTrade`, `PurgeContainer`), since the two loops of the code call
functions that do the same; what is compared is the control around them. A later change of one of the two C++
loops shows only once it is carried over to its model.

**Histogram** – the loop of `write_sum_by_second` / `write_max_by_second` as a recursive
function of the number of measurements seen (`Summing`, `Maximizing`), sorting as a permutation, and the
percentile index. Bins are exact thousandths; for all of the bins in the code the truncated floating
point product is the exact one up to 3 million measurements, tried one by one.

**AscendingSum**, **Trees** – `util/sum.cpp`; `util/flip.cpp` and `util/traversal.cpp`. What the
loop of `max_ascending_sum` has after each round is `Rounds`. `flip` changes the tree it walks over, so it is modelled call by
call, with the pending calls and the nodes in memory. **Algorithms** runs these and
`Histogram`, one at a time; they share nothing.

**ParFunc**, **ActorPool** – the two measured programs of class-perf; **ClassPerf** – their
sequence, for one configuration after the other. The queues, the flag and the counts are
globals, so `Begin` of each is where a stale value of the previous configuration would matter.

## 3. Runs

| Run | Shows | Bounds |
|---|---|---|
| `engine` | the engine with its heaps implements the promise, and what the promise guarantees holds of it: quantities kept, no order open twice, books never crossed; the actor books are the same heaps, position by position | 5 orders, 2 prices, 2 quantities, 2 timestamps |
| `engine_any_quantity` | quantities of zero and below: conserved, matching ends, only a book's first order rests empty | 4 orders, quantities -1, 0, 1 |
| `engine_same_millisecond` | **violated**: priority by arrival within a millisecond | 6 orders at one price |
| `darkpool` | the pipeline implements `InOrder` in all interleavings and without threads; nothing lost in between, exclusive queues, final dump; the program ends | 2 engines or 1, 4 lines (any of them malformed), batches of 0 to 2 |
| `exchange` | output and dump are those of one matcher taking the lines in turn; where lines may be torn; the recorded book sizes | 2, 1 or no threads, any 4 of 5 lines over 2 instruments, the last possibly malformed, batches of 1 and 2, 2 writes a line |
| `order_book_actor` | matching and deleting in any order leave heaps and account for every order | 4 orders, 2 names (so names repeat), quantities -1, 1, 2 |
| `actor_match` | the actors implement `InOrder`, no order lost or overtaken on the way, reports monotone, "processed" is said only when every book has received its orders, everything ends | 2 instruments, 3 lines, 2 reports, both send modes |
| `front_end` | the program starts exactly as told; generated orders arrive unchanged, printed ones can be read; contiguous ranges, every engine has instruments | command lines of 0 to 4 words, concurrency -1 to 63 with every width of a range, 35 typed lines with prices of one to nine digits, all orders of 2 generator instruments |
| `documented_start` | **violated**: the README's command line with the filename first | as `front_end` |
| `algorithms` | histogram, ascending sum and trees against references | 4 measurements in 3 seconds; 6 numbers; 6 nodes |
| `histogram_labels` | **violated**: a bin's label | 3 measurements |
| `class_perf` | all work done and no other, no work cut off by an exit message, everything ends | 2 configurations, 0 to 3 threads, 2 workers, 4 items |

Why the bounds are enough to be interesting: five orders make a heap of three levels that is
popped from, an order that trades with two resting ones, and a rest that enters. Two instruments
would only interleave independent books; `engine_any_quantity` has two. With 4
lines and batches of 2 the main thread makes a second hand-over while an engine is anywhere
in its loop, and a third read that returns nothing; one engine can be done while the other
works. In ActorMatch one of three lines can be the second order of a book and another open a
second book while a fan-out is running; two reports and the final request can all be on their
way at once (`MaxReports` bounds the reports: with one after every order the input has two
lines). Its inputs are taken up to the names of the instruments, and nothing follows a malformed
line. Two configurations in a row let class-perf find the globals as an earlier configuration
left them, also one without threads, which leaves its work in the queue. The five lines of
`exchange` trade within both engines at the same time, one order with two others, and one
arrives before an order that carries an earlier time. The bounds on the front end
are the thresholds of the code: `front_end` takes a concurrency for every width of a range and both
sides of 31 and 62, and the smallest and largest price the generator makes.

Deadlock is not checked: each of the programs stops, and the bounded environment of the
matching modules runs out of orders. That they stop only where they should is stated as
liveness instead (`Terminates`, `Finishes`, `Ends`, `MatchTerminates`).

### Fairness

* `MatchingEngine`: an order that was taken is worked on (the loop has no wait).
* `DarkPool`: weak fairness of the main thread and each engine. An idle engine takes and
  releases its mutex without a pause, so weak fairness alone lets the main thread wait for it for
  ever; `SF_vars(LockQueue)` assumes that a thread waiting for a mutex that is free again
  and again gets it at some time. The code has no more than that either: it relies on the
  operating system's mutex for it.
* `ActorMatch`: main runs, and an actor with messages is scheduled until each of its two queues
  has been served.
* `ClassPerf`: the main thread runs, every thread and every actor with messages is scheduled. That a
  thread can wait for the mutex while others overtake it does no harm, since they only
  do so while there is work.

### Findings

Three runs end in a counterexample, each against a sentence of the repository:

1. *Time priority* (`order.h:60`, README of match-engine line 52). Orders of the same price
   and millisecond tie in `operator<`; heaps do not keep ties in order, so a later
   order can be filled while an earlier one is left untouched.
2. *Per-second bins* (`histogram.h:82`). A bin is written under the second of the measurement
   that closes it, not its own.
3. *The command line* (`main.cc:38`, README lines 102, 118-119, 127). The README starts the program with
   the filename or `-` first; the code reads the first word as the batch size and refuses such a line with
   the text of `usage()`, which has the filename last. `StartsAsAsked` is about what `usage()` says,
   `DocumentedStart` about what the README says. (A filename that begins with a digit is taken for a number.)

Limits of properties that hold, found by raising a bound or changing a constant:

* `ImplementsPromise` needs prices on a grid of at least 0.0001. With `Tolerance = 2` it fails: the
  ranking treats prices closer than 0.0001 as equal, the price test does not, so the front
  order may not cross while another one would (README line 56).
* `EveryEngineHasInstruments` (README line 123) holds up to 31 engines. From 32 on the first partition is
  "0", and the first engine is given nothing that a digit or letter can start. More than 62
  engines are never made, whatever the command line asks for.
* `ImplementsInOrder` of DarkPool allows any step with a batch size below one: the first batch is
  then empty and taken for the end of the input, and the dump comes with the input unread. The program ends
  then, too (`Terminates`); whether it should accept such a size, nothing in the repository says.
* `LinesWhole`: lines of different engines may be torn, as README lines 61-73 admit; with one
  thread or none no line is.
* `RoundTrip`: of a price, six digits are printed. 12345.67 is printed as 12345.7 and 1234567 as 1.23457e+06.
* `Finishes` needs an order: with empty input actor-match asks for the total for ever (the
  fan-out over no books fails, and main ignores the error). No text of the repository speaks of empty input, so
  this is a limit and not a finding.
* `SameBooks` needs positive quantities: match-engine puts the first order of an instrument
  into its book whatever its quantity, actor-match drops an order without quantity.
* `AllWorkDone` needs a thread.

Also met while reading:

* The overload `operator<(const OrderPtr&)` of `Order` calls itself.
* `pre_order_traversal` and `post_order_traversal` (traversal.cpp:46, 54) go on with
  `in_order_traversal` below the root: what main prints under "pre" and "post" is in that order
  only at the root. `Trees` models them as they are, and `TurnedRound` says nothing of it: its last conjunct
  would hold of true pre-order and post-order as well.
* The sample session of the README (lines 35-38) lists the open orders as they were entered; the program dumps them
  by instrument, side and place in the heap. `MCExchange` compares the trades in order and the dump as a set.

## 4. Theorems

Checked by TLAPS for all values of the constants that satisfy the named assumptions.

**LimitOrderBookProofs** (under the hypothesis `ParametersAssumption`: integer
prices and timestamps, positive quantities): `TypeCorrectness`, `OrdersOpenOnce`,
`QuantityIsConserved`, `BooksNeverCross`. `Conservation` speaks of trades between two live
records; that a trade does not change a third one's sum needs ids to be unique (`OpenOnce`),
and that a record found by its id is the one being traded needs its id to be in range – so
type correctness, uniqueness and conservation are proved as one inductive invariant.
`NotCrossed` is inductive relative to types: resting orders only shrink or
leave, and `Enter` is guarded by the absence of a crossing contra order.

**DarkPoolProofs** (assumes `PoolAssumption`; any set of engines, any input length, threads or
in-line): `TypeCorrectness`, `QueuesAreExclusive`, `NoOrderIsLost`, `DumpIsComplete`, and
`AllInputIsRead` for a positive batch size, and `PipelineKeepsPromise`: DarkPool implements
`InOrder`. None of these is inductive. The invariant `Inv` adds

* `Phases` – which positions of main thread and engines can coincide,
* `Locking` – who holds a mutex, by position: between lock and unlock it is one's own,
* `Calling` – without threads, an engine is off idle only while main is inside its call,
* `Queues` – the ledger of every engine (done, pulled, queued, grouped) is its lines in order,
* `Ending` – an engine that has exited has empty queues and main has no group for it,
* `Reading`, `Control` – how far the input has been read, by position.

The step that matters is `Peek`: an engine exits only after it has seen `terminate`, which main sets after the
last push; from there `Ending` and `Queues` give that what was processed is everything.

`PipelineKeepsPromise` maps each step: processing an order is `Handle` (by `Queues` it is the
least line of its engine not yet handled: `OwnIsMine`), the dump is `Report` (by
`DumpIsFinal` nothing is left), `BadLine` is `Stop`, and the rest changes nothing the
promise speaks of (`QuietStep`).

The second half of the module is about `Exchange` (assumes `ExchangeAssumption` as well: any number of
engines and instruments, any lines, a routing that keeps the order of instruments, any number of
writes to a line): `OutputOfOneMatcher`, `LinesAreWhole`, `PeaksAreFinal`, and
`ExchangeKeepsPromise`, which carries the promise over to the whole program. An engine is
compared with one matcher that takes all lines in turn. `XInv` says of every engine:

* `KeptUp` – its books are those the one matcher had, of the engine's instruments, when it came to
  the same line; and what is on `out` for these instruments, followed by what the engine has yet to
  write, is what the one matcher had printed of them by then;
* `Printing` – it has something to write only while it works off a batch;
* `Sampled` – once a batch is worked off, its peak is at least the present average of its books;
* `Ended` – behind all that, `out` ends with the dump of the one matcher's books.

It is inductive relative to `Inv`: that an engine has processed its lines in the order of
the input, and all of them before the dump, is the pipeline's part. The one matcher may be far ahead in
other engines' lines; these touch neither the books nor the text of this engine's instruments
(`SameView`, `NextView`). The dump of the engines one after the other is the one matcher's since an
engine's instruments are all smaller than the next one's (`DumpOfEngines`), which is what the
assumption on routing is needed for. `LinesComplete` and `PartsTogether` give whole lines: text that has been
cut into pieces has whole lines whatever subset of instruments one looks at.

Five of the modules need induction over data (positions of a heap, lines of a sequence, sets of
threads). It is had from the library's least element of a well-founded relation: what holds of 0 and of each
successor is a *set* that contains all naturals (`SetInduction`; `StrongInduction` in HeapProofs). The same
argument shows that the recursive functions of the models (`Tokens`, the heap paths,
`TradeAll`, `Traded`, sums) are defined and satisfy their equations (`TokensDefined`,
`TradedDefined`, `SumDefined`, ...).

**HeapProofs** (about Heap and OrderBook, external code included): `PushHeapOrders`, `PopHeapOrders` and
`MakeHeapOrders` say of libstdc++'s three algorithms, for sequences of any length, that
they keep exactly the elements and that a heap results, provided the comparison is a strict
weak order on the elements (`Ranked`). `operator<` is one as long as any two prices are equal or at least the
tolerance apart (`Apart(Prices)`, `SideIsRanked`): three prices each within 0.0001 of the next are
not. Decrementing the front in place is no problem since the quantity does not count for the
rank. What the books' operations do to the *set* of open orders follows: `BookAdded`, `FrontChosen`
and the lemmas around them, which is all the next two modules know of a heap.

**MatchingEngineProofs** (assumes `EngineAssumption`: integers, and `NoOrder` is no order):
`EngineConservesQuantity`, `EngineRefusesEmptyOrders`, `EngineOpensOnce` for any
quantities, zero and negative ones too; `EngineKeepsHeaps` for `Apart(Prices)`. The
inductive invariant `Inv` adds to these that the order being matched is the last to have arrived
(`CurrentIsLast`), that trade lines name known orders (`TradesKnown`), that no order is in two places
(`BooksApart`), and that whatever arrived has opened a book (`Opened`: without it, an order
without quantity could be thought to rest a second time).
`EngineImplementsPromise`: with `Apart(Prices)` and positive quantities, `MatchingEngine` implements
`LimitOrderBook`; `TakeOrder` is `Submit`, a trade is a trade with a best contra order because
the front of a heap is one, and `FirstOrder` and `Enter` rest an order that crosses none. Both hypotheses
are needed: see the limits above for prices, and a first order of no quantity rests
in the engine. `EngineMissesNoTrade` carries `NotCrossed` and `Conservation` over from the promise. (In the model they
are read through the refinement mapping: `Promise!NotCrossed`, `Promise!Conservation`.)
`MatchersKeepSameBooks`: with positive quantities, engine and book actors print the same
trades and keep the same heaps. The actor handles an order in one step, the engine in several; the
invariant `InStep` says that from where the engine is, the rest of the actor's recursion
leads to where the actor already is.

**OrderBookActorProofs** (assumes `ActorAssumption`): `ActorAccountsForOrders` for any quantities and names;
`ActorKeepsHeaps` and `ActorMissesNoTrade` for `Apart(Prices)`. `match_order` is one step, so what
one trade preserves is proved first and then, by induction over the trades left
(each takes a contra order away or ends the match), of the whole handler. `delete_order` rests on `MakeHeapOrders`.

**ActorMatchProofs** (assumes `ParametersAssumption`): `ActorsLoseNothing` and `ActorsImplementInOrder` for any
instruments, inputs, send modes and reports. The invariant has the types of all
mailboxes, the ledger of each instrument's lines (handled, in the book's queue, in the router's, in
the order of the input), the phases of main, router and books, and `Dumps`: a `dump_book_and_exit`
stands behind all orders of its book, in a queue of the same priority. So the dump is right whatever
numbers main was told.
`ActorsAreTyped` and `ReportsAreMonotone` need more: the totals are summed from
answers that books give at different times, while orders overtake requests. `SumInv` adds the three stages
of a report – request in the router's queue, open fan-out, line – in the order in which they were asked for
(`Staged`), that every request and answer belongs to an open fan-out, once (`Asking`, `Sums`), and the *prospect* of a
fan-out: what it has summed, plus the answers in the router's queue, plus what the books still to be asked
have received by now. The prospect of a later request is never below that of an earlier
one, since a book asked by both is asked in their order and only receives in
between; when the earlier one is complete its prospect is its total. What no state predicate
without the prospect would give is that a sum still open cannot end below one already reported.
`OrdersAreProcessed`: main takes its leave only from a final answer equal to its counter. `Completes` bounds what a
final fan-out has summed by what the books have received, each book asked counted once, and `Answered` keeps
that bound once the answer is on its way; so the total never exceeds what the books have received, and
a total of all orders means that no book has one outstanding.

**FrontEndProofs** (assumes `CommandLinesAssumption`, `LinesAssumption`, `InstrumentsAssumption`, `IntMaxAssumption`,
`NoneAssumption`): `ProgramStartsAsAsked` for any words, `OrdersSurvivePrinting` for any
typed lines, with prices of whatever size, and any instruments with whole prices from 1 to 9999, as the generator's are
(`InstrumentsAssumption`);
`EnginesHaveRanges` for every concurrency and `EnginesHaveInstruments` for up to 31 engines. The
invariant: what was read of the command line so far is what is configured (`Asked`), partition k is the
symbol at k times the skip and the last order's engine is the one the partitions choose (`Partitioned`), and a generated order is on
its way as one of its printings or has arrived (`Carried`). `PrintedIsRead` is the lemma that
the two conversions are inverse up to `Roundings`; `RoundingsClose` bounds that, from what `UnitDefined` and `UnitBounds`
say of the last place printed. `GenerableStays` is why the generator's orders lose nothing: their prices have at most six
digits.

**SmallProgramsProofs**, class-perf (assumes `BenchmarkAssumption`, `ConfigurationsAssumption` and those of
ActorPool): `ThreadsDoAllWork` and `PoolCutsNothingOff`, for any number of threads, workers, items and
configurations. Both rest on a sum: items left in the queue and popped ones make up all items while a
configuration is measured (`ParInv`), and every count the counter is to see is in its mailbox, in a worker's or
already counted (`PoolInv`). A thread returns only when it has been told to and the queue is empty, so what is
left at the end is nothing.

The algorithms (assumes `MeasurementsAssumption`: times are not zero, values not negative;
`NumbersAssumption`: no number is negative): `RunWithLargestSum`, `FlipTurnsRound`, `GrandTotals`, `LinesPerSecond`
and `PercentilesDivide`, for any numbers, measurements and trees. Of the state, `DataInv` only says what
the data are; the rest is about what loops compute, each with its own invariant over the rounds
(`LoopInduction`; `LoopExists` and `LoopUnique` give that the recursive functions are defined and what they
are):

* `max_ascending_sum`: the local run ends here and cannot be longer to the left (`Current`), the largest is a
  run seen so far or none (`Found`), and no run seen so far is better (`NoneBetter`). A run that ends here is
  part of the local one, and its sum is no larger as no number is negative (`PartialSumsGrow`). That is
  what the assumption is for: after a negative number a shorter run could be the better one.
* both tables of a histogram: the open second's bin is what the reference has for that second so far
  (`BinOpen`), and the lines written are those of the other seconds, in order (`Written`); a second that is
  open is never opened again while the clock is steady. The grand total needs no steadiness: it and
  the open bin are always all that was measured (`TotalWritten`).
* percentiles: the measurements can be sorted (`SortExists`), and at place i + 1 of what is sorted at most i
  are smaller and at least i + 1 not greater (`Split`), whatever permutation the sort takes; the rest is the
  rounding of the index (`ShareIndex`).
* `flip` walks over the tree it changes, so its invariant `Turning` is about a partly turned one: the nodes
  done are exchanged, the others as before, and calls pending are for exactly the children of nodes done that
  are not done themselves, each once – as every node has one parent (`Shape`). With no call left all nodes
  are done (`AllTurned`, from the root downwards). What the traversals make of a turned tree is shown for
  all nodes by induction over their addresses (`InOrderReversed`).

**Only model-checked**: liveness (`Terminates`, `Finishes`, `Ends`, `MatchTerminates`), since fairness and ENABLED
are out of the prover's reach. The three disagreements under Findings are counterexamples, not theorems.

## 5. What is not modelled

* The stopwatch and the number formats of reports and tables, file names: no property is about
  them. `common.cpp`'s `trim`, `parse_ip_port` and `collapse_line` have no caller in the
  programs.
* Which of two exceptions a bad line raises: `invalid_argument` and `out_of_range` both end the
  process, since nobody catches either in match-engine.
* `OrderBook::remove_order` and `print_book(SIDE)`: no caller. The routing constructor that takes
  a list of partitions: no caller.
* `CONSTANTS` stand for the remaining parameters: the pool size and the number of items of
  class-perf are the same in every configuration.
* Growth of an idle engine's histogram: the code has no bound to state.
* `util/set.cpp` times the standard containers at one fixed size and uses none of the results;
  `actor-examples/actor.cpp` and `class.cpp` exchange one message each; `format`, `scratch` and
  `cppversion` in `util/` print constants. None has a state to speak about.
* The assertions of the repository's tests, but for the heap layout (see Heap), and the build
  files.

## 6. Plan

Done, in this order: Orders, Heap, OrderBook, LimitOrderBook, MatchingEngine (the core), DarkPool,
their proofs, Routing, the actor-match modules, Histogram, class-perf; then InOrder with the two
systems that implement it and the proof for DarkPool, Exchange, FrontEnd with OrderText, and
the algorithms of `util/`.

Then the proofs: heaps; the engine with its refinement; the actor book; both matchers side by side;
actor-match as an implementation of InOrder and its reports; the front end; class-perf; match-engine as a
whole; the algorithms.
