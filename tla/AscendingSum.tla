---------------------------- MODULE AscendingSum ----------------------------
(***************************************************************************)
(* util/sum.cpp: the ascending run of a sequence with the largest sum.     *)
(* main fills the sequence with random numbers, none of them negative.     *)
(***************************************************************************)
EXTENDS Integers, Sequences

CONSTANTS Numbers,
          MaxLength     \* bound on the length of the sequence

ASSUME NumbersAssumption == Numbers \subseteq Nat

VARIABLE seq

AscendingSumInit == seq = <<>>

PushBack(x) == /\ Len(seq) < MaxLength
               /\ seq' = Append(seq, x)

AscendingSumNext == \E x \in Numbers : PushBack(x)

\* std::accumulate: what the first n numbers of s add up to.
accumulate(s) == LET total[n \in 0 .. Len(s)] == IF n = 0 THEN 0 ELSE total[n - 1] + s[n]
                 IN total

sum(s) == accumulate(s)[Len(s)]

\* Mutation of Visit: an equal number does not end the run.
VisitNotStrict(found, x) ==
  LET local == Append(IF x < found.prev THEN <<>> ELSE found.local, x)
  IN [prev |-> x, local |-> local,
      largest |-> IF sum(local) > sum(found.largest) THEN local ELSE found.largest]

\* One round of the loop: x goes on with the run or starts the next one.
Visit(found, x) ==
  LET local == Append(IF x <= found.prev THEN <<>> ELSE found.local, x)
  IN [prev |-> x, local |-> local,
      largest |-> IF sum(local) > sum(found.largest) THEN local ELSE found.largest]

\* The variables of the loop after each round.
Rounds(s) ==
  LET found[n \in 0 .. Len(s)] ==
        IF n = 0 THEN [prev |-> -1, local |-> <<>>, largest |-> <<>>]
        ELSE Visit(found[n - 1], s[n])
  IN found

max_ascending_sum(s) == Rounds(s)[Len(s)].largest

-----------------------------------------------------------------------------

Runs == {SubSeq(seq, j, k) : j, k \in 1 .. Len(seq)}
Ascends(s) == \A k \in 1 .. Len(s) - 1 : s[k] < s[k + 1]

\* The function's name (sum.cpp:22): what is returned is an ascending run of the
\* sequence, and none has a larger sum, though sums are compared while runs grow.
LargestRun ==
  LET found == max_ascending_sum(seq)
  IN /\ found = <<>> \/ found \in Runs
     /\ Ascends(found)
     /\ \A run \in Runs : Ascends(run) => sum(run) <= sum(found)
=============================================================================
