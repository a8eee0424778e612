---------------------------- MODULE IntervalTree -----------------------------
(***************************************************************************)
(* The implicit interval tree of IITree.h: an array sorted by start is     *)
(* read as a binary tree (node x of level k has its children at            *)
(* x - 2^(k-1) and x + 2^(k-1)), in which each node knows the largest end  *)
(* below it.  Indices count from 0 as in the code.  The tree of an array   *)
(* that does not fill it has nodes outside of the array, and the hard part *)
(* is what is left of their subtrees.                                      *)
(***************************************************************************)
EXTENDS Integers, Sequences

CONSTANTS Points,       \* the scalar type S
          Payloads,     \* the type T of the data
          SmallLevel,   \* subtrees up to this level are scanned (3 in the code)
          MaxIntervals  \* bound: intervals added

ASSUME TreeAssumption == /\ Points \subseteq Nat
                         /\ SmallLevel \in Nat
                         /\ MaxIntervals \in Nat

VARIABLES a,            \* the array
          max_level,    \* the level of the root
          lvl,          \* k of index_core: the level it is at
          last_i,       \* the rightmost node of that level's tree ...
          last,         \* ... and the largest end below it
          query,        \* st and en of overlap
          stack,        \* its stack, top last
          out,          \* its result so far
          phase         \* add, sort, level, ready, overlap, found

treeVars == <<a, max_level, lvl, last_i, last, query, stack, out, phase>>

Intervals == [st : Points, en : Points, max : Points, data : Payloads]
Cells == [k : Nat, x : Int, w : {0, 1}]

Size == Len(a)
Node(i) == a[i + 1]

TreeInit ==
  /\ a = <<>>
  /\ max_level = -1
  /\ lvl = 0
  /\ last_i = 0
  /\ last = 0
  /\ query = [st |-> 0, en |-> 0]
  /\ stack = <<>>
  /\ out = <<>>
  /\ phase = "add"

Add(s, e, d) ==
  /\ phase = "add"
  /\ Size < MaxIntervals
  /\ a' = Append(a, [st |-> s, en |-> e, max |-> e, data |-> d])
  /\ UNCHANGED <<max_level, lvl, last_i, last, query, stack, out, phase>>

-----------------------------------------------------------------------------
(* index: sort, then fill in the maxima level by level *)

Index ==
  /\ phase = "add"
  /\ phase' = "sort"
  /\ UNCHANGED <<a, max_level, lvl, last_i, last, query, stack, out>>

\* std::sort, as exchanges of neighbours until they are in order.  It is not
\* stable: which of two intervals with the same start comes first is open.
Exchange(i) ==
  /\ phase = "sort"
  /\ i + 1 < Size
  /\ Node(i + 1).st <= Node(i).st
  /\ a' = [a EXCEPT ![i + 1] = a[i + 2], ![i + 2] = a[i + 1]]
  /\ UNCHANGED <<max_level, lvl, last_i, last, query, stack, out, phase>>

InOrderOfStart == \A i \in 1..(Size - 1) : a[i].st <= a[i + 1].st

\* The leaves have even indices, and are their own maxima.
Leaves ==
  LET lastLeaf == ((Size - 1) \div 2) * 2
  IN /\ phase = "sort"
     /\ InOrderOfStart
     /\ IF Size = 0
        THEN /\ max_level' = -1
             /\ phase' = "ready"
             /\ UNCHANGED <<a, lvl, last_i, last>>
        ELSE /\ a' = [j \in 1..Size |-> IF (j - 1) % 2 = 0
                                        THEN [a[j] EXCEPT !.max = a[j].en]
                                        ELSE a[j]]
             /\ last_i' = lastLeaf
             /\ last' = Node(lastLeaf).en
             /\ lvl' = 1
             /\ phase' = "level"
             /\ UNCHANGED max_level
     /\ UNCHANGED <<query, stack, out>>

Larger(x, y) == IF x > y THEN x ELSE y

\* The largest end below node i of level k, from its children's; a right child
\* outside of the array is represented by last.
Below(i, k) ==
  LET x  == 2^(k - 1)
      el == Node(i - x).max
      er == IF i + x < Size THEN Node(i + x).max ELSE last
  IN Larger(Larger(Node(i).en, el), er)

IsOfLevel(i, k) == i % 2^(k + 1) = 2^k - 1

ParentOf(i, k) ==
  LET x == 2^(k - 1)
  IN IF (i \div 2^k) % 2 = 1 THEN i - x ELSE i + x

\* Faulty: an absent right child counts for the last leaf for ever.
LastStays(nodes, p) == last

LastAt(nodes, p) ==
  IF p < Size /\ nodes[p + 1].max > last THEN nodes[p + 1].max ELSE last

Level ==
  /\ phase = "level"
  /\ 2^lvl <= Size
  /\ a' = [j \in 1..Size |-> IF IsOfLevel(j - 1, lvl)
                             THEN [a[j] EXCEPT !.max = Below(j - 1, lvl)]
                             ELSE a[j]]
  /\ last_i' = ParentOf(last_i, lvl)
  /\ last' = LastAt(a', last_i')
  /\ lvl' = lvl + 1
  /\ UNCHANGED <<max_level, query, stack, out, phase>>

Indexed ==
  /\ phase = "level"
  /\ 2^lvl > Size
  /\ max_level' = lvl - 1
  /\ phase' = "ready"
  /\ UNCHANGED <<a, lvl, last_i, last, query, stack, out>>

-----------------------------------------------------------------------------
(* overlap: a traversal from the root, with a stack of its own *)

Overlap(s, e) ==
  /\ phase \in {"ready", "found"}
  /\ query' = [st |-> s, en |-> e]
  /\ out' = <<>>
  /\ IF max_level < 0
     THEN stack' = <<>> /\ phase' = "found"
     ELSE /\ stack' = <<[k |-> max_level, x |-> 2^max_level - 1, w |-> 0]>>
          /\ phase' = "overlap"
  /\ UNCHANGED <<a, max_level, lvl, last_i, last>>

Top == stack[Len(stack)]
Popped == SubSeq(stack, 1, Len(stack) - 1)

Starts(i) == Node(i).st < query.en
Reaches(i) == query.st < Node(i).en

\* The hits from node i0 on and before i1, up to the first that starts too late
Scanned(i0, i1) ==
  LET Hit(i) == Reaches(i) /\ \A j \in i0..i : Starts(j)
      found[n \in 0..(i1 - i0)] ==
        IF n = 0 THEN <<>>
        ELSE IF Hit(i0 + n - 1) THEN Append(found[n - 1], i0 + n - 1)
        ELSE found[n - 1]
  IN found[i1 - i0]

\* A small subtree is scanned in the order of the array.
Scan ==
  LET i0 == (Top.x \div 2^Top.k) * 2^Top.k
      i1 == IF i0 + 2^(Top.k + 1) - 1 > Size THEN Size ELSE i0 + 2^(Top.k + 1) - 1
  IN /\ phase = "overlap"
     /\ stack # <<>>
     /\ Top.k <= SmallLevel
     /\ out' = out \o Scanned(i0, i1)
     /\ stack' = Popped
     /\ UNCHANGED <<a, max_level, lvl, last_i, last, query, phase>>

\* Faulty: a left child outside of the array is taken for empty.
VisitInside(y) == y < Size /\ Node(y).max > query.st

VisitLeft(y) == y >= Size \/ Node(y).max > query.st

\* Faulty: the node is put back as if it had not been visited.
Revisit(z) == <<z, [k |-> z.k, x |-> z.x, w |-> 1]>>

Visited(z) == <<[k |-> z.k, x |-> z.x, w |-> 1]>>

\* First the left child, with the node itself under it on the stack.
GoLeft ==
  LET z == Top
      y == z.x - 2^(z.k - 1)
  IN /\ phase = "overlap"
     /\ stack # <<>>
     /\ z.k > SmallLevel
     /\ z.w = 0
     /\ stack' = Popped \o Visited(z)
                   \o IF VisitLeft(y) THEN <<[k |-> z.k - 1, x |-> y, w |-> 0]>>
                                      ELSE <<>>
     /\ UNCHANGED <<a, max_level, lvl, last_i, last, query, out, phase>>

\* Then the node, and its right child, unless it starts too late.
GoRight ==
  LET z == Top
  IN /\ phase = "overlap"
     /\ stack # <<>>
     /\ z.k > SmallLevel
     /\ z.w = 1
     /\ IF z.x < Size /\ Starts(z.x)
        THEN /\ out' = IF Reaches(z.x) THEN Append(out, z.x) ELSE out
             /\ stack' = Append(Popped, [k |-> z.k - 1,
                                         x |-> z.x + 2^(z.k - 1), w |-> 0])
        ELSE /\ stack' = Popped
             /\ UNCHANGED out
     /\ UNCHANGED <<a, max_level, lvl, last_i, last, query, phase>>

Return ==
  /\ phase = "overlap"
  /\ stack = <<>>
  /\ phase' = "found"
  /\ UNCHANGED <<a, max_level, lvl, last_i, last, query, stack, out>>

IndexStep == \/ \E i \in 0..(Size - 2) : Exchange(i)
             \/ Leaves \/ Level \/ Indexed

OverlapStep == Scan \/ GoLeft \/ GoRight \/ Return

TreeNext == \/ \E s, e \in Points, d \in Payloads : Add(s, e, d)
            \/ Index \/ IndexStep
            \/ \E s, e \in Points : Overlap(s, e)
            \/ OverlapStep

TreeSpec == TreeInit /\ [][TreeNext]_treeVars

-----------------------------------------------------------------------------
(* Properties *)

\* Node i is of the level given by the ones that its index ends in.
LevelOf(i) == CHOOSE k \in 0..Size : IsOfLevel(i, k)

Subtree(i) == LET r == 2^LevelOf(i) - 1
              IN {j \in 0..(Size - 1) : i - r <= j /\ j <= i + r}

(* After index, a node's max is the largest end of the intervals in its      *)
(* subtree, for trees that are cut anywhere on their right (IITree.h:52-73). *)
MaxOfSubtree ==
  phase = "ready" =>
    \A i \in 0..(Size - 1) :
       /\ \A j \in Subtree(i) : Node(j).en <= Node(i).max
       /\ \E j \in Subtree(i) : Node(j).en = Node(i).max

(* overlap finds every interval that overlaps with the query, each once, and *)
(* no other, in the order of the array (IITree.h:80-105).                    *)
OverlapExact ==
  phase = "found" =>
    /\ {out[n] : n \in 1..Len(out)} = {i \in 0..(Size - 1) : Starts(i) /\ Reaches(i)}
    /\ \A m, n \in 1..Len(out) : m < n => out[m] < out[n]

(* The levels on the stack decrease towards its top, so that the 64 cells of *)
(* overlap are enough for every array there can be: it has 2^max_level nodes *)
(* at least (IITree.h:82, 96-101).                                           *)
StackBounded ==
  phase = "overlap" =>
    /\ Len(stack) <= max_level + 1
    /\ 2^max_level <= Size

=============================================================================
