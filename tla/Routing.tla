------------------------------- MODULE Routing -------------------------------
(***************************************************************************)
(* Which engine an order goes to (instrument_boundary_routing_strategy.cc, *)
(* built by DarkPoolService from the concurrency on the command line).     *)
(*                                                                         *)
(* A partition is a string of one character, and an instrument, which is   *)
(* never empty, is less than it exactly if its first character is: an      *)
(* instrument is modelled by the code of its first character.  Strings are *)
(* compared by unsigned bytes.                                             *)
(***************************************************************************)
EXTENDS Integers, Sequences

VARIABLES concurrency,         \* as DarkPoolService is given it
          ordered_partitions,  \* the partitions' codes; engine i is built for the i-th
          routed,              \* the first character find_engine was last called for (0: none yet)
          engine               \* the engine it returned

NumSyms == 62

\* Mutation of SymCode: lower case letters before upper case letters.
SymCodeLowerFirst(i) == IF i <= 10 THEN 47 + i ELSE IF i <= 36 THEN 86 + i ELSE 28 + i

\* all_syms: the digits, then the upper case, then the lower case letters.
SymCode(i) == IF i <= 10 THEN 47 + i ELSE IF i <= 36 THEN 54 + i ELSE 60 + i

\* At least one engine (in-line mode), at most one for each symbol.
NumPartitions == IF concurrency < 1 THEN 1
                 ELSE IF concurrency > NumSyms THEN NumSyms ELSE concurrency

Skip == NumSyms \div NumPartitions

Built == Len(ordered_partitions) = NumPartitions

AddPartition ==
  /\ ~Built
  /\ ordered_partitions' = Append(ordered_partitions,
                                  SymCode((Len(ordered_partitions) + 1) * Skip))
  /\ UNCHANGED <<concurrency, routed, engine>>

\* Mutation of Precedes: the comparison is swapped.
PrecedesSwapped(c, i) == ordered_partitions[i] < c

\* instrument < ordered_partitions[i]
Precedes(c, i) == c < ordered_partitions[i]

\* The first engine whose partition the instrument precedes; the last engine
\* takes the rest, its own partition is not looked at.
find_engine(c) ==
  LET n == Len(ordered_partitions)
      Before == {i \in 1 .. n - 1 : Precedes(c, i)}
  IN IF Before = {} THEN n ELSE CHOOSE i \in Before : \A j \in Before : i <= j

Route(c) ==
  /\ Built
  /\ routed' = c
  /\ engine' = find_engine(c)
  /\ UNCHANGED <<concurrency, ordered_partitions>>

-----------------------------------------------------------------------------

\* match-engine/README.md:123: an engine has a range of the instruments.  An
\* instrument that sorts after another never goes to an earlier engine.
RangesContiguous ==
  [][routed < routed' => engine <= engine']_<<routed, engine>>

\* match-engine/README.md:123: every engine has instruments, so no thread is
\* started for nothing: some letter or digit starts an instrument it gets.  (With
\* more than 31 engines the first partition is "0", and no letter or digit is less.)
EveryEngineHasInstruments ==
  Built /\ Skip > 1 =>
    {find_engine(SymCode(i)) : i \in 1 .. NumSyms} = DOMAIN ordered_partitions
=============================================================================
