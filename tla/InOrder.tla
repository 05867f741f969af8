------------------------------ MODULE InOrder ------------------------------
(***************************************************************************)
(* What both programs promise about the lines of their input, whatever     *)
(* threads, actors and queues they use: each line has one worker (an       *)
(* engine, or a book actor), which handles its lines one by one in the     *)
(* order of the input, and reports its open orders once, after the last of *)
(* them.  A line that cannot be read stops the program: nothing behind it  *)
(* is handled, and nobody reports.                                         *)
(***************************************************************************)
EXTENDS Integers, Sequences, Functions

CONSTANTS Workers,
          Malformed     \* a line that cannot be read, not a worker

VARIABLES lines,      \* given: the worker of each line, or Malformed
          handled,    \* the lines each worker has handled
          reported,   \* the workers that have reported
          stopped     \* the program gave up

vars == <<lines, handled, reported, stopped>>

Own(w) == {p \in DOMAIN lines : lines[p] = w}

Init == /\ lines \in Seq(Workers \cup {Malformed})
        /\ handled = [w \in Workers |-> <<>>]
        /\ reported = {}
        /\ stopped = FALSE

Handle(w, p) ==
  /\ ~stopped /\ w \notin reported
  /\ p \in Own(w)
  /\ \A q \in 1 .. p : lines[q] # Malformed
  /\ Range(handled[w]) = {q \in Own(w) : q < p}
  /\ handled' = [handled EXCEPT ![w] = Append(@, p)]
  /\ UNCHANGED <<lines, reported, stopped>>

Report(W) ==
  /\ ~stopped
  /\ Own(Malformed) = {}
  /\ \A w \in W : w \notin reported /\ Range(handled[w]) = Own(w)
  /\ reported' = reported \cup W
  /\ UNCHANGED <<lines, handled, stopped>>

Stop ==
  /\ reported = {}
  /\ Own(Malformed) # {}
  /\ stopped' = TRUE
  /\ UNCHANGED <<lines, handled, reported>>

Next == \/ \E w \in Workers, p \in DOMAIN lines : Handle(w, p)
        \/ \E W \in SUBSET Workers : Report(W)
        \/ Stop

Spec == Init /\ [][Next]_vars
=============================================================================
