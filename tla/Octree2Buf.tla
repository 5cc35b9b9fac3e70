----------------------------- MODULE Octree2Buf -----------------------------
(***************************************************************************)
(* Octree2BufBase: an octree with two buffers.  A branch has two arrays of *)
(* children, one of the tree being built and one of the tree built before  *)
(* it; nodes the two trees have in common are shared, nodes that only the  *)
(* old one has are given back to a pool when the new one is serialized or  *)
(* finished.  A tree is a record, each method an operator that returns the *)
(* tree it leaves.  One axis instead of three: a branch has Width = 2      *)
(* children in each buffer, a key is one number.  Points are counted.      *)
(***************************************************************************)
EXTENDS Integers, Sequences, FiniteSets, FiniteSetsExt, SequencesExt

CONSTANTS
    Branches, Leaves   \* bound: the nodes there is memory for, numbers

ASSUME NodesAssumption ==
    /\ Branches \subseteq Nat \ {0} /\ Leaves \subseteq Nat \ {0}
    /\ Branches # {} /\ Branches \intersect Leaves = {}

Nodes == Branches \union Leaves
None == 0
Buffers == {0, 1}
Children == 0 .. 1
InOrder == <<0, 1>>    \* the loops over childIdx

NoChildren == [i \in Children |-> None]
NoPointers == [b \in Buffers |-> NoChildren]

(* rootNode_, childNodeArray_ of each branch, the size of each leaf, the    *)
(* nodes in the two pools and whether one was pushed twice,                 *)
(* bufferSelector_, treeDirtyFlag_, leafCount_, branchCount_, octreeDepth_. *)
(* A node that was never allocated counts as one in the pool.               *)
EmptyTree ==
    [root |-> Min(Branches), child |-> [b \in Branches |-> NoPointers],
     size |-> [n \in Leaves |-> 0],
     pool |-> Nodes \ {Min(Branches)}, twice |-> FALSE,
     selector |-> 0, dirty |-> FALSE, leafCount |-> 0, branchCount |-> 1, depth |-> 0]

Prev(o) == 1 - o.selector
ChildPtr(o, b, buf, i) == o.child[b][buf][i]
HasChild(o, b, buf, i) == ChildPtr(o, b, buf, i) # None
Pattern(o, b, buf) == {i \in Children : HasChild(o, b, buf, i)}
SetChildPtr(o, b, buf, i, n) == [o EXCEPT !.child[b][buf][i] = n]

(* getChildIdxWithDepthMask(): no bit is set in the mask of a tree without  *)
(* levels.                                                                 *)
ChildIdx(key, level) == IF level = 0 THEN 0 ELSE (key \div 2^(level - 1)) % 2

-----------------------------------------------------------------------------
(* The pools: a node is reset when it is taken out.                        *)

PushNode(o, n) == [o EXCEPT !.twice = @ \/ n \in o.pool, !.pool = @ \union {n}]

Reset(o, n) ==
    IF n \in Branches THEN [o EXCEPT !.child[n] = NoPointers] ELSE [o EXCEPT !.size[n] = 0]

CreateChild(o, b, i, kind) ==
    LET n == Min(o.pool \intersect kind) IN
    SetChildPtr(Reset([o EXCEPT !.pool = @ \ {n}], n), b, o.selector, i, n)

(* deleteBranchChild() and deleteBranch(): a branch takes the children of   *)
(* both buffers with it, one that both have only once.                     *)
RECURSIVE DeleteBranchChild(_, _, _, _), DeleteBranch(_, _)

DeleteBranchChild(o, b, buf, i) ==
    IF ~HasChild(o, b, buf, i) THEN o ELSE
    LET n == ChildPtr(o, b, buf, i)
        emptied == IF n \in Branches THEN DeleteBranch(o, n) ELSE o IN
    SetChildPtr(PushNode(emptied, n), b, buf, i, None)

DeleteBranch(o, b) ==
    LET DeleteChild(t, i) ==
            IF ChildPtr(t, b, 0, i) = ChildPtr(t, b, 1, i)
            THEN SetChildPtr(DeleteBranchChild(t, b, 0, i), b, 1, i, None)
            ELSE DeleteBranchChild(DeleteBranchChild(t, b, 0, i), b, 1, i) IN
    FoldLeft(DeleteChild, o, InOrder)

(* deleteTree() *)
DeleteTree(o) ==
    [DeleteBranch(o, o.root) EXCEPT
        !.leafCount = 0, !.branchCount = 1, !.dirty = FALSE, !.depth = 0]

-----------------------------------------------------------------------------
(* Building the new tree.                                                  *)

ClearChildren(o, b, buf) == [o EXCEPT !.child[b][buf] = NoChildren]

(* Mutant: a leaf of the old tree keeps the points it had there. *)
StealAsIs(o, b, i, n) == SetChildPtr(o, b, o.selector, i, n)

(* The old tree's child becomes the new tree's, too. *)
Steal(o, b, i, n) ==
    LET stolen == SetChildPtr(o, b, o.selector, i, n) IN
    IF n \in Leaves THEN Reset(stolen, n) ELSE stolen

Count(o, kind) ==
    IF kind = Leaves THEN [o EXCEPT !.leafCount = @ + 1] ELSE [o EXCEPT !.branchCount = @ + 1]

(* A child of the new tree: the old tree's if it has one of this kind.  One *)
(* of the other kind means that the depth has changed: it is deleted.      *)
TakeChild(o, b, i, kind) ==
    LET old == ChildPtr(o, b, Prev(o), i) IN
    Count(IF old \in kind THEN Steal(o, b, i, old)
          ELSE CreateChild(DeleteBranchChild(o, b, Prev(o), i), b, i, kind), kind)

(* Mutant: the branch keeps what it pointed at two trees ago. *)
KeepChildren(o, b, wasOld) == o

(* branchReset_arg: the children a branch of the old tree had in this       *)
(* buffer are those of the tree before it.                                 *)
BranchReset(o, b, wasOld) == IF wasOld THEN ClearChildren(o, b, o.selector) ELSE o

KindAt(level) == IF level > 1 THEN Branches ELSE Leaves

(* createLeafRecursive() *)
RECURSIVE CreateLeaf(_, _, _, _, _)
CreateLeaf(o, key, level, b, wasOld) ==
    LET t == BranchReset(o, b, wasOld)
        i == ChildIdx(key, level)
        exists == HasChild(t, b, t.selector, i)
        taken == IF exists THEN t ELSE TakeChild(t, b, i, KindAt(level)) IN
    IF level > 1
    THEN CreateLeaf(taken, key, level - 1, ChildPtr(taken, b, t.selector, i),
                    ~exists /\ HasChild(t, b, Prev(t), i))
    ELSE taken

(* findLeafRecursive() *)
RECURSIVE FindLeaf(_, _, _, _)
FindLeaf(o, key, level, b) ==
    LET n == ChildPtr(o, b, o.selector, ChildIdx(key, level)) IN
    IF level > 1 /\ n # None THEN FindLeaf(o, key, level - 1, n) ELSE n

(* addData() *)
AddData(o, key) ==
    LET t == CreateLeaf(o, key, o.depth, o.root, FALSE) IN
    [t EXCEPT !.size[FindLeaf(t, key, t.depth, t.root)] = @ + 1]

(* deleteLeafRecursive(): the branches it leaves empty go as well. *)
RECURSIVE DeleteLeaf(_, _, _, _)
DeleteLeaf(o, key, level, b) ==
    LET i == ChildIdx(key, level)
        n == ChildPtr(o, b, o.selector, i) IN
    IF level <= 1
    THEN [DeleteBranchChild(o, b, o.selector, i) EXCEPT !.leafCount = @ - 1]
    ELSE IF n = None THEN o
    ELSE LET t == DeleteLeaf(o, key, level - 1, n) IN
         IF Pattern(t, n, t.selector) # {} THEN t
         ELSE [DeleteBranchChild(t, b, t.selector, i) EXCEPT !.branchCount = @ - 1]

(* removeLeaf(), of a key within maxKey_ *)
RemoveLeaf(o, key) == [DeleteLeaf(o, key, o.depth, o.root) EXCEPT !.dirty = TRUE]

-----------------------------------------------------------------------------
(* Finishing a tree.                                                       *)

(* treeCleanUpRecursive(): what only the old tree has is deleted. *)
RECURSIVE TreeCleanUp(_, _)
TreeCleanUp(o, b) ==
    LET CleanUpChild(t, i) ==
            LET n == ChildPtr(t, b, t.selector, i) IN
            IF n \in Branches THEN TreeCleanUp(t, n)
            ELSE IF n = None THEN DeleteBranchChild(t, b, Prev(t), i)
            ELSE t IN
    FoldLeft(CleanUpChild, o, InOrder)

(* Mutant: what only the old tree has stays allocated. *)
SwitchAtOnce(o) ==
    [ClearChildren(o, o.root, Prev(o)) EXCEPT
        !.selector = Prev(o), !.dirty = TRUE, !.leafCount = 0, !.branchCount = 1]

(* switchBuffers() *)
SwitchBuffers(o) ==
    LET t == IF o.dirty THEN TreeCleanUp(o, o.root) ELSE o IN
    [ClearChildren(t, t.root, Prev(t)) EXCEPT
        !.selector = Prev(t), !.dirty = TRUE, !.leafCount = 0, !.branchCount = 1]

(* serializeTreeRecursive() cleans up like treeCleanUpRecursive() on its    *)
(* way through the tree.                                                   *)
Serialized(o) == [TreeCleanUp(o, o.root) EXCEPT !.dirty = FALSE]

BitPattern(o, b, xor) ==
    IF xor THEN SymDiff(Pattern(o, b, o.selector), Pattern(o, b, Prev(o)))
           ELSE Pattern(o, b, o.selector)

(* What it writes: one pattern for each branch of the new tree, depth first. *)
RECURSIVE TreeBytes(_, _, _)
TreeBytes(o, b, xor) ==
    <<BitPattern(o, b, xor)>> \o
    FlattenSeq([k \in DOMAIN InOrder |->
        LET n == ChildPtr(o, b, o.selector, InOrder[k]) IN
        IF n \in Branches THEN TreeBytes(o, n, xor) ELSE <<>>])

(* The leaves it calls back for, with whether the old tree has none there. *)
RECURSIVE LeafData(_, _, _)
LeafData(o, b, key) ==
    FlattenSeq([k \in DOMAIN InOrder |->
        LET i == InOrder[k]
            n == ChildPtr(o, b, o.selector, i) IN
        CASE n = None     -> <<>>
          [] n \in Branches -> LeafData(o, n, 2 * key + i)
          [] n \in Leaves -> <<[key |-> 2 * key + i, points |-> o.size[n],
                                new |-> ~HasChild(o, b, Prev(o), i)]>>])

RecoveredBits(o, b, bits, xor) ==
    IF xor THEN SymDiff(Pattern(o, b, Prev(o)), bits) ELSE bits

(* deserializeTreeRecursive(), on the tree, the bytes not read yet, the keys *)
(* of the leaves made so far and whether a branch found no byte left.      *)
RECURSIVE Deserialize(_, _, _, _, _, _)
Deserialize(s, b, level, key, wasOld, xor) ==
    LET t == [s EXCEPT !.tree = BranchReset(s.tree, b, wasOld)] IN
    IF t.bytes = <<>> THEN [t EXCEPT !.starved = TRUE] ELSE
    LET bits == RecoveredBits(t.tree, b, Head(t.bytes), xor)
        MakeBranch(r, i) ==
            LET o == r.tree
                exists == HasChild(o, b, o.selector, i)
                taken == IF exists THEN o ELSE TakeChild(o, b, i, Branches) IN
            Deserialize([r EXCEPT !.tree = taken], ChildPtr(taken, b, o.selector, i), level - 1,
                        2 * key + i, ~exists /\ HasChild(o, b, Prev(o), i), xor)
        MakeLeaf(r, i) ==
            [r EXCEPT !.tree = TakeChild(@, b, i, Leaves), !.leaves = Append(@, 2 * key + i)]
        Drop(r, i) ==
            LET o == r.tree IN
            IF ~HasChild(o, b, Prev(o), i) THEN r
            ELSE [r EXCEPT !.tree = DeleteBranchChild(SetChildPtr(o, b, o.selector, i, None),
                                                      b, Prev(o), i)]
        Child(r, i) ==
            CASE i \notin bits -> Drop(r, i)
              [] i \in bits /\ level > 1 -> MakeBranch(r, i)
              [] i \in bits /\ level <= 1 -> MakeLeaf(r, i) IN
    FoldLeft(Child, [t EXCEPT !.bytes = Tail(@)], InOrder)

(* deserializeTree(): the tree, and the keys it calls back with. *)
DeserializeTree(o, bytes, xor) ==
    LET start == [tree |-> [o EXCEPT !.leafCount = 0], bytes |-> bytes, leaves |-> <<>>,
                  starved |-> FALSE]
        end == Deserialize(start, o.root, o.depth, 0, FALSE, xor) IN
    [end EXCEPT !.tree.dirty = FALSE]

-----------------------------------------------------------------------------
(* What a tree is expected to be.                                          *)

RECURSIVE Reach(_, _)
Reach(o, found) ==
    LET below == {ChildPtr(o, b, buf, i) :
                     b \in found \intersect Branches, buf \in Buffers, i \in Children}
        next == found \union (below \ {None}) IN
    IF next = found THEN found ELSE Reach(o, next)

(* Each node is in the pool or in the tree, never in both and not twice in *)
(* one of them, and none is forgotten.                                     *)
Owned(o) ==
    LET tree == Reach(o, {o.root})
        places(n) == {<<b, i>> \in (tree \intersect Branches) \X Children :
                          \E buf \in Buffers : ChildPtr(o, b, buf, i) = n} IN
    /\ ~o.twice
    /\ tree \intersect o.pool = {}
    /\ tree \union o.pool = Nodes
    /\ \A n \in tree \ {o.root} : Cardinality(places(n)) = 1

RECURSIVE BranchesOf(_, _)
BranchesOf(o, b) ==
    {b} \union UNION {BranchesOf(o, n) : n \in
        {ChildPtr(o, b, o.selector, i) : i \in Children} \intersect Branches}

Counted(o) ==
    /\ o.leafCount = Len(LeafData(o, o.root, 0))
    /\ o.branchCount = Cardinality(BranchesOf(o, o.root))
=============================================================================
