-------------------------------- MODULE Heap --------------------------------
(***************************************************************************)
(* The heap algorithms of libstdc++ (bits/stl_heap.h) that both order      *)
(* books are built on.  They are not part of the repository, but which of  *)
(* two orders of equal rank trades first, and the order in which open      *)
(* orders are dumped, follow from how these algorithms move elements; an   *)
(* abstract "some heap" would hide it.                                     *)
(*                                                                         *)
(* A heap is a sequence: position 1 is the front, and i \div 2 is the      *)
(* parent of position i.  The library does not swap: it opens a hole,      *)
(* shifts elements along a path through the hole and puts a value at the   *)
(* end of the path.                                                        *)
(***************************************************************************)
EXTENDS Integers, Sequences

CONSTANT Lt(_, _)   \* the comparison the algorithms are given

\* Every position on path takes the element of the next one, the last takes v.
Shift(s, path, v) ==
  LET n == Len(path)
      Next(i) == path[1 + CHOOSE k \in 1 .. n - 1 : path[k] = i]
  IN [i \in DOMAIN s |->
        IF i = path[n] THEN v
        ELSE IF \E k \in 1 .. n - 1 : path[k] = i THEN s[Next(i)]
        ELSE s[i]]

\* __push_heap: from the hole up while the parent is less than v, not above top.
UpPath(s, hole, top, v) ==
  LET up[i \in 1 .. hole] == IF i > top /\ Lt(s[i \div 2], v)
                             THEN <<i>> \o up[i \div 2]
                             ELSE <<i>>
  IN up[hole]

\* The child __adjust_heap moves up: the right one unless it is the lesser or absent.
GreaterChild(s, i) ==
  IF 2 * i + 1 <= Len(s) /\ ~Lt(s[2 * i + 1], s[2 * i]) THEN 2 * i + 1 ELSE 2 * i

DownPath(s, hole) ==
  LET down[i \in hole .. Len(s)] == IF 2 * i > Len(s)
                                    THEN <<i>>
                                    ELSE <<i>> \o down[GreaterChild(s, i)]
  IN down[hole]

\* __adjust_heap: the hole goes down to a leaf, then v goes up from there.
AdjustHeap(s, hole, v) ==
  LET down == DownPath(s, hole)
      leaf == down[Len(down)]
      lowered == Shift(s, down, v)
  IN Shift(lowered, UpPath(lowered, leaf, hole, v), v)

\* push_back followed by push_heap
PushHeap(s, v) ==
  LET grown == Append(s, v)
  IN Shift(grown, UpPath(grown, Len(grown), 1, v), v)

\* pop_heap followed by pop_back
PopHeap(s) ==
  IF Len(s) <= 1
  THEN <<>>
  ELSE AdjustHeap(SubSeq(s, 1, Len(s) - 1), 1, s[Len(s)])

\* make_heap: adjusts at every parent, the last one first.
MakeHeap(s) ==
  LET made[p \in 1 .. Len(s) \div 2 + 1] ==
        IF p > Len(s) \div 2 THEN s ELSE AdjustHeap(made[p + 1], p, made[p + 1][p])
  IN made[1]

\* No element is outranked by one below it.
IsHeap(s) == \A i \in 2 .. Len(s) : ~Lt(s[i \div 2], s[i])
=============================================================================
