------------------------ MODULE MCPointCloudOctree ------------------------
(* Points on a line that starts in the box of a new octree; clouds whose    *)
(* points come in an order that makes the octree grow to either side.      *)
EXTENDS PointCloudOctree

SomeClouds == {<<>>, <<0>>, <<3, 3>>, <<2, 6>>, <<3, 2, 0>>}
SomeBoxes == {<<0, 2>>, <<2, 6>>}

(* Which of the equal nodes a place has makes no difference: a tree looks   *)
(* like its nodes without their numbers, to a depth no tree here exceeds.  *)
RECURSIVE Shape(_, _, _)
Shape(o, n, levels) ==
    IF n = None \/ levels = 0 THEN <<>>
    ELSE IF n \in Leaves THEN <<o.size[n]>>
    ELSE [i \in Children |->
            LET new == ChildPtr(o, n, o.selector, i)
                old == ChildPtr(o, n, Prev(o), i) IN
            <<new = old, Shape(o, new, levels - 1), Shape(o, old, levels - 1)>>]

Look(o) == <<Shape(o, o.root, 6), Cardinality(o.pool \intersect Branches), Cardinality(o.pool),
             o.twice, o.dirty, o.leafCount, o.branchCount, o.depth, o.low, o.high, o.defined>>

View == <<use, Look(octree), [v \in Voxels |-> PointsAt(cloud, v)], before, regular, comparable,
          iFrame, iFrameCounter, stream, Look(decoder), lost, DecodedAsEncoded>>
=============================================================================
