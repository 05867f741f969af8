------------------------------ MODULE FrontEnd ------------------------------
(***************************************************************************)
(* From the command line to an engine: main.cc reads the words of the      *)
(* command line and makes the provider and the service with its routing    *)
(* strategy (Routing); then lines, typed or piped in from the generator of *)
(* match-engine-test, become orders (OrderText) and are routed.  Batches,  *)
(* queues and threads are in DarkPool.                                     *)
(*                                                                         *)
(* A word is what the program can tell about it: [reads, value] what       *)
(* std::stoi makes of it ("int" with the value; "junk", an invalid         *)
(* argument; "large", out of range), and [file] what comes of opening it   *)
(* ("stdin" for the word "-", "opens", "missing").                         *)
(***************************************************************************)
EXTENDS Routing, OrderText

CONSTANTS Words, CommandLines,
          TypedLines,    \* lines that come from elsewhere
          Instruments,   \* the generator's: [name, last]
          MaxOrders      \* bound on the orders generated

ASSUME CommandLinesAssumption ==
  /\ Words \subseteq [reads : {"int", "junk", "large"}, value : Int,
                      file : {"stdin", "opens", "missing"}]
  /\ CommandLines \subseteq Seq(Words)

ASSUME LinesAssumption == TypedLines \subseteq Seq(TokenType) /\ None \notin Seq(TokenType)

\* The generator makes instruments with prices of 1 to 9999 (generate_random_price).
ASSUME InstrumentsAssumption ==
  \A i \in Instruments :
    /\ i.name \in TokenType \ {Blank}
    /\ i.last \in Int /\ i.last % 100 = 0
    /\ 100 <= i.last /\ i.last <= 999900

VARIABLES argv,       \* without the program's name
          stage,      \* "parsing", "opening", "serving"; at the end "exited" or "aborted"
          config,     \* batch_size and filename; concurrency is Routing's variable
          next_order_id,
          line,       \* the line that is to be read next
          generated,  \* the order it was printed from
          order       \* what became of the last line read

startVars == <<argv, stage, config>>
routing   == <<concurrency, ordered_partitions, routed, engine>>
lineVars  == <<next_order_id, line, generated, order>>
vars      == <<startVars, routing, lineVars>>

Number(n) == [reads |-> "int", value |-> n, file |-> "missing"]
Dash      == [reads |-> "junk", value |-> 0, file |-> "stdin"]

Init == /\ argv \in CommandLines
        /\ stage = "parsing"
        /\ config = [batch_size |-> 0, filename |-> Dash]
        /\ concurrency = 0
        /\ ordered_partitions = <<>>
        /\ routed = 0
        /\ engine = 0
        /\ next_order_id = 0
        /\ line = None /\ generated = None /\ order = None

-----------------------------------------------------------------------------
(* main                                                                        *)

\* Mutation of Argument: the last word is taken for missing.
ArgumentButLast(i, default) == IF Len(argv) > i THEN argv[i] ELSE default

\* The i-th word, if it is there.
Argument(i, default) == IF Len(argv) >= i THEN argv[i] ELSE default

BatchSizeWord   == Argument(1, Number(1))
ConcurrencyWord == Argument(2, Number(0))

\* Both numbers are read before the filename is looked at.
parse_command_line ==
  /\ stage = "parsing"
  /\ BatchSizeWord.reads = "int" /\ ConcurrencyWord.reads = "int"
  /\ config' = [batch_size |-> BatchSizeWord.value, filename |-> Argument(3, Dash)]
  /\ concurrency' = ConcurrencyWord.value
  /\ stage' = "opening"
  /\ UNCHANGED <<argv, ordered_partitions, routed, engine, lineVars>>

\* The first word that is no number decides: only invalid_argument is caught
\* and answered with usage() and exit(1), out_of_range ends the process.
Refuse ==
  /\ stage = "parsing"
  /\ LET bad == IF BatchSizeWord.reads # "int" THEN BatchSizeWord ELSE ConcurrencyWord
     IN \/ bad.reads = "junk"  /\ stage' = "exited"
        \/ bad.reads = "large" /\ stage' = "aborted"
  /\ UNCHANGED <<argv, config, routing, lineVars>>

\* The constructor of FilenameStreamOrderProvider throws if the file is not there.
Opens(word) == word.file # "missing"

\* Standard input, or a file that must open.
create_order_provider ==
  /\ stage = "opening"
  /\ stage' = IF Opens(config.filename) THEN "serving" ELSE "exited"
  /\ UNCHANGED <<argv, config, routing, lineVars>>

\* The constructor of the service makes the engines.
CreateEngines == stage = "serving" /\ AddPartition /\ UNCHANGED <<startVars, lineVars>>

-----------------------------------------------------------------------------
(* lines                                                                       *)

Waiting == stage = "serving" /\ Built /\ line = None

\* testOrderGenerator prints an order; its output is the program's input.
Generate(o) == /\ Waiting
               /\ next_order_id < MaxOrders
               /\ next_order_id' = next_order_id + 1
               /\ generated' = o
               /\ line' \in Printings(o)
               /\ order' = None
               /\ UNCHANGED <<startVars, routing>>

Type(l) == /\ Waiting
           /\ line' = l
           /\ generated' = None
           /\ order' = None
           /\ UNCHANGED <<startVars, routing, next_order_id>>

\* get_orders and event_loop: a line that is no order ends the process.
ReadOrder ==
  /\ stage = "serving" /\ line # None
  /\ \/ /\ IsOrder(line)
        /\ order' = from_string(line)
        /\ line' = None
        /\ Route(from_string(line).instrument.initial)
        /\ UNCHANGED startVars
     \/ /\ ~IsOrder(line)
        /\ stage' = "aborted"
        /\ UNCHANGED <<argv, config, routing, line, order>>
  /\ UNCHANGED <<next_order_id, generated>>

Next == \/ parse_command_line \/ Refuse \/ create_order_provider \/ CreateEngines
        \/ \E o \in generate_random_order(Instruments, next_order_id) : Generate(o)
        \/ \E l \in TypedLines : Type(l)
        \/ ReadOrder

Spec == Init /\ [][Next]_vars

-----------------------------------------------------------------------------

Acceptable == /\ \A i \in {1, 2} : i \in DOMAIN argv => argv[i].reads = "int"
              /\ 3 \in DOMAIN argv => argv[3].file # "missing"

\* main.cc:23 (usage): the program serves exactly the command lines that usage()
\* describes, with the settings they give and no others: a default or a half-read
\* setting never stands in for a word that was given.  More than one engine is
\* made only if the command line asks for as many.  (Elsewhere the words are said to
\* come in another order: DocumentedStart.)
StartsAsAsked ==
  /\ stage = "serving" => Acceptable
  /\ stage \in {"exited", "aborted"} /\ line = None => ~Acceptable
  /\ stage = "serving" =>
       /\ 1 \in DOMAIN argv => config.batch_size = argv[1].value
       /\ 2 \in DOMAIN argv => concurrency = argv[2].value
       /\ 3 \in DOMAIN argv => config.filename = argv[3]
       /\ Len(argv) < 3 => config.filename.file = "stdin"
  /\ Len(ordered_partitions) > 1 => Len(ordered_partitions) <= argv[2].value

\* A filename, then whatever numbers follow it.
FilenameFirst ==
  /\ \/ Len(argv) = 1 /\ argv[1].file = "opens"
     \/ Len(argv) = 3 /\ argv[1].file \in {"opens", "stdin"}
  /\ \A i \in DOMAIN argv \ {1} : argv[i].reads = "int"

\* match-engine/README.md:102 starts the program with a filename, and :118-119 has
\* "build/DarkPool <filename> batch-size concurrency" and "build/DarkPool - batch-size
\* concurrency": a command line of this form is served, with these settings.
\* It is not: main.cc:38 reads the filename as the batch size.
DocumentedStart ==
  FilenameFirst =>
    /\ stage \in {"exited", "aborted"} => line # None
    /\ stage = "serving" =>
         /\ config.filename = argv[1]
         /\ Len(argv) = 3 => config.batch_size = argv[2].value /\ concurrency = argv[3].value

\* match-engine/README.md:83-95 pipes the generator into the program: each of its
\* orders arrives as it was made.  And any order that was read can be printed and
\* read again: with nothing lost if its price has up to six digits, and else with
\* a price that is off by a unit in the sixth digit at most, everything else
\* as it was; no line makes an order that would not fit one.
RoundTrip ==
  /\ generated # None /\ line # None => stage # "aborted"
  /\ generated # None /\ line = None => order = generated
  /\ order # None =>
       \A l \in Printings(order) :
         LET again == from_string(l)
         IN /\ IsOrder(l)
            /\ [again EXCEPT !.price = order.price] = order
            /\ Abs(order.price) < 1000000 => again = order
            /\ Abs(again.price - order.price) * 200000 <= Abs(order.price)
=============================================================================
