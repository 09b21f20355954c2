----------------------------- MODULE SelectAll -----------------------------
(***************************************************************************)
(* `select_all` of protocol.rs: the construction of the merge the sending *)
(* task reads its outgoing messages from.  Streams are taken in order;    *)
(* each starts a level of height 0, and while the top of the stack has    *)
(* the same height the two are combined by `select`, one level higher.    *)
(* At the end the stack is folded from the top into a single tree.        *)
(*                                                                         *)
(* A tree is a leaf (stream i), `a.select(b)`, or the empty stream.  The  *)
(* number of streams is chosen at the start; each step is one iteration  *)
(* of one of the code's three loops.                                       *)
(***************************************************************************)
EXTENDS Naturals, Sequences, SequencesExt

CONSTANT MaxStreams    \* bound: the longest list of streams checked

Leaf(i) == [kind |-> "leaf", id |-> i]
Select(a, b) == [kind |-> "select", l |-> a, r |-> b]
Empty == [kind |-> "empty"]

VARIABLES
    n,          \* the number of streams passed in
    next,       \* the next stream the `for` loop takes
    newLevel,   \* new_level while it is being merged
    stack,      \* the Vec of levels: records [height, tree]
    tree,       \* the result, once folding has started
    pc          \* "streams", "merge", "fold", "done"

vars == <<n, next, newLevel, stack, tree, pc>>

RECURSIVE Depth(_)
Depth(t) == IF t.kind = "select" THEN 1 + Max({Depth(t.l), Depth(t.r)}) ELSE 0

RECURSIVE LeafSeq(_)
LeafSeq(t) ==
    CASE t.kind = "leaf"   -> <<t.id>>
      [] t.kind = "select" -> LeafSeq(t.l) \o LeafSeq(t.r)
      [] OTHER             -> <<>>

TypeOK ==
    /\ n \in 0 .. MaxStreams /\ next \in 1 .. n + 1
    /\ pc \in {"streams", "merge", "fold", "done"}
    /\ \A i \in DOMAIN stack : stack[i].height \in Nat
    /\ pc = "merge" => newLevel.height \in Nat

-----------------------------------------------------------------------------

\* Mutant of TakeStream: the loop runs once past the last stream.
TakeStreamPastEnd ==
    /\ pc = "streams" /\ next <= n + 1
    /\ newLevel' = [height |-> 0, tree |-> Leaf(next)]
    /\ next' = next + 1
    /\ pc' = "merge"
    /\ UNCHANGED <<n, stack, tree>>

\* `for stream in streams`: a new level of height 0.
TakeStream ==
    /\ pc = "streams" /\ next <= n
    /\ newLevel' = [height |-> 0, tree |-> Leaf(next)]
    /\ next' = next + 1
    /\ pc' = "merge"
    /\ UNCHANGED <<n, stack, tree>>

\* The `while` condition: the top of the stack has the new level's height.
TopMatches == stack # <<>> /\ Last(stack).height = newLevel.height

\* Mutant of MergeLevel: the combined level keeps the old height.
MergeLevelNoIncrement ==
    /\ pc = "merge" /\ TopMatches
    /\ stack' = Front(stack)
    /\ newLevel' = [height |-> Last(stack).height,
                    tree |-> Select(Last(stack).tree, newLevel.tree)]
    /\ UNCHANGED <<n, next, tree, pc>>

\* One iteration of the `while`: pop and combine, one level higher.
MergeLevel ==
    /\ pc = "merge" /\ TopMatches
    /\ stack' = Front(stack)
    /\ newLevel' = [height |-> Last(stack).height + 1,
                    tree |-> Select(Last(stack).tree, newLevel.tree)]
    /\ UNCHANGED <<n, next, tree, pc>>

\* `stack.push(new_level)` once the heights differ.
PushLevel ==
    /\ pc = "merge" /\ ~TopMatches
    /\ stack' = Append(stack, newLevel)
    /\ pc' = "streams"
    /\ UNCHANGED <<n, next, newLevel, tree>>

\* Mutant of StartFold: the fold starts from the bottom of the stack.
StartFoldFromBottom ==
    /\ pc = "streams" /\ next > n
    /\ IF stack = <<>>
       THEN tree' = Empty /\ pc' = "done" /\ stack' = stack
       ELSE tree' = Head(stack).tree /\ stack' = Tail(stack) /\ pc' = "fold"
    /\ UNCHANGED <<n, next, newLevel>>

\* After the `for`: the top level starts the tree, or no stream at all
\* gives `stream::empty()`.
StartFold ==
    /\ pc = "streams" /\ next > n
    /\ IF stack = <<>>
       THEN tree' = Empty /\ pc' = "done" /\ stack' = stack
       ELSE tree' = Last(stack).tree /\ stack' = Front(stack) /\ pc' = "fold"
    /\ UNCHANGED <<n, next, newLevel>>

\* `while let Some(node) = stack.pop()`: `tree = tree.select(node.stream)`.
FoldLevel ==
    /\ pc = "fold" /\ stack # <<>>
    /\ tree' = Select(tree, Last(stack).tree)
    /\ stack' = Front(stack)
    /\ UNCHANGED <<n, next, newLevel, pc>>

FoldDone ==
    /\ pc = "fold" /\ stack = <<>>
    /\ pc' = "done"
    /\ UNCHANGED <<n, next, newLevel, stack, tree>>

Init ==
    /\ n \in 0 .. MaxStreams /\ next = 1
    /\ newLevel = [height |-> 0, tree |-> Empty]
    /\ stack = <<>> /\ tree = Empty /\ pc = "streams"

Next ==
    \/ TakeStream \/ MergeLevel \/ PushLevel
    \/ StartFold \/ FoldLevel \/ FoldDone

Spec == Init /\ [][Next]_vars

-----------------------------------------------------------------------------
(***************************************************************************)
(* Properties, against definitions independent of the loops.              *)
(***************************************************************************)

\* Reference: the least h with 2^h >= k.
RECURSIVE CeilLog2(_)
CeilLog2(k) == IF k <= 1 THEN 0 ELSE 1 + CeilLog2((k + 1) \div 2)

\* A perfect tree of the given depth.
RECURSIVE Perfect(_, _)
Perfect(t, h) ==
    IF h = 0 THEN t.kind = "leaf"
    ELSE t.kind = "select" /\ Perfect(t.l, h - 1) /\ Perfect(t.r, h - 1)

\* The stack is a binary counter of the streams taken (the loop invariant
\* that makes the construction balanced): heights strictly decrease from
\* bottom to top, the levels hold 2^height streams each, in order, as
\* perfect trees, and together they hold every stream taken so far.
StackIsBinaryCounter ==
    pc = "streams" =>
        /\ \A i \in 1 .. Len(stack) - 1 : stack[i].height > stack[i + 1].height
        /\ \A i \in DOMAIN stack : Perfect(stack[i].tree, stack[i].height)
        /\ FoldLeft(LAMBDA acc, l : acc \o LeafSeq(l.tree), <<>>, stack)
               = [i \in 1 .. next - 1 |-> i]

\* The merge the sender reads from (spec 4.6): every outgoing receiver
\* appears exactly once, and the tree has height ceil(log2 N), so no
\* receiver sits more than ceil(log2 N) `select`s deep.
MergeIsComplete ==
    pc = "done" =>
        /\ Len(LeafSeq(tree)) = n /\ ToSet(LeafSeq(tree)) = 1 .. n
        /\ Depth(tree) = CeilLog2(n)

\* Balanced merge (spec 4.6, "a balanced fair-merge"): the streams sit at
\* depths that differ by at most one, so none gets more than twice the
\* share of polls of another.
RECURSIVE LeafDepths(_, _)
LeafDepths(t, d) ==
    CASE t.kind = "leaf"   -> {d}
      [] t.kind = "select" -> LeafDepths(t.l, d + 1) \cup LeafDepths(t.r, d + 1)
      [] OTHER             -> {}

MergeIsBalanced ==
    pc = "done" =>
        \A a, b \in LeafDepths(tree, 0) : a <= b + 1

=============================================================================
