-------------------------------- MODULE Trees --------------------------------
(***************************************************************************)
(* util/flip.cpp and util/traversal.cpp: trees of nodes made by            *)
(* make_shared, printed and traversed; flip turns a tree round in place,   *)
(* node by node, immutable_flip builds a new one.                          *)
(*                                                                         *)
(* A node is its place in memory, 0 is the null pointer.  The programs     *)
(* build trees: no node is used twice.                                     *)
(***************************************************************************)
EXTENDS Integers, SequencesExt

CONSTANT MaxNodes     \* bound on the nodes made

VARIABLES memory,     \* the nodes: [left, right]
          before,     \* memory when flip was called; <<>> until then
          calls       \* the calls of flip that have not begun yet, the next one first

treeVars == <<memory, before, calls>>

TreesInit == memory = <<>> /\ before = <<>> /\ calls = <<>>

\* The nodes that nothing points to.
Roots == DOMAIN memory \ UNION {{memory[n].left, memory[n].right} : n \in DOMAIN memory}

make_shared(left, right) ==
  /\ before = <<>>
  /\ Len(memory) < MaxNodes
  /\ left = right => left = 0
  /\ memory' = Append(memory, [left |-> left, right |-> right])
  /\ UNCHANGED <<before, calls>>

\* flip is called for a whole tree; the last node made is its root.  (main of
\* flip.cpp calls immutable_flip only.)
CallFlip == /\ before = <<>>
            /\ Roots = {Len(memory)}
            /\ before' = memory
            /\ calls' = <<Len(memory)>>
            /\ UNCHANGED memory

\* Mutation of Swapped: the left pointer is not kept in temp.
SwappedNoTemp(node) == [left |-> node.right, right |-> node.right]

Swapped(node) == [left |-> node.right, right |-> node.left]

\* One call of flip: nothing for a null pointer; else the pointers are swapped,
\* and flip is called for what are then the left and the right node.
flip == /\ calls # <<>>
        /\ LET n == Head(calls)
           IN IF n = 0
              THEN UNCHANGED memory /\ calls' = Tail(calls)
              ELSE /\ memory' = [memory EXCEPT ![n] = Swapped(@)]
                   /\ calls' = <<memory'[n].left, memory'[n].right>> \o Tail(calls)
        /\ UNCHANGED before

TreesNext == \/ \E left, right \in Roots \cup {0} : make_shared(left, right)
             \/ CallFlip
             \/ flip

-----------------------------------------------------------------------------

\* print_node: what is printed tells the whole tree under a node.
print_node(mem) ==
  LET Shown[n \in 0 .. Len(mem)] ==
        IF n = 0 THEN <<>> ELSE <<n, Shown[mem[n].left], Shown[mem[n].right]>>
  IN Shown

immutable_flip(mem) ==
  LET Made[n \in 0 .. Len(mem)] ==
        IF n = 0 THEN <<>> ELSE <<n, Made[mem[n].right], Made[mem[n].left]>>
  IN Made

in_order_traversal(mem) ==
  LET Ids[n \in 0 .. Len(mem)] ==
        IF n = 0 THEN <<>> ELSE Ids[mem[n].left] \o <<n>> \o Ids[mem[n].right]
  IN Ids

\* Both of these go on with in_order_traversal below the node they are called for.
pre_order_traversal(mem, n) ==
  IF n = 0 THEN <<>>
  ELSE <<n>> \o in_order_traversal(mem)[mem[n].left] \o in_order_traversal(mem)[mem[n].right]

post_order_traversal(mem, n) ==
  IF n = 0 THEN <<>>
  ELSE in_order_traversal(mem)[mem[n].left] \o in_order_traversal(mem)[mem[n].right] \o <<n>>

-----------------------------------------------------------------------------

\* flip.cpp:36-53: when flip, which changes the tree while it walks over it,
\* returns, the tree is the one immutable_flip would have made before; and the
\* traversals see it from the other side.  (traversal.cpp:46 and :54 go on in order
\* below the root; the last conjunct is about these, and would be true of pre-order
\* and post-order all the way down as well.)
TurnedRound ==
  before # <<>> /\ calls = <<>> =>
    LET root == Len(memory)
    IN /\ print_node(memory)[root] = immutable_flip(before)[root]
       /\ in_order_traversal(memory)[root] = Reverse(in_order_traversal(before)[root])
       /\ post_order_traversal(memory, root) = Reverse(pre_order_traversal(before, root))
=============================================================================
