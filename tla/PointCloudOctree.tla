-------------------------- MODULE PointCloudOctree --------------------------
(***************************************************************************)
(* The two users of the octree with two buffers.  A change detector adds    *)
(* the points of a cloud, asks which are in voxels that the cloud before    *)
(* had not, and switches the buffers.  A compression does the same with     *)
(* each cloud it encodes and writes the octree instead, whole (I-frame) or  *)
(* as the difference to the one before (P-frame); a decoder at the other    *)
(* end of the stream rebuilds it.  A point is the number of the voxel it    *)
(* lies in, on one axis.                                                    *)
(***************************************************************************)
EXTENDS Octree2Buf

CONSTANTS
    Voxels,        \* bound: where points lie
    MaxPoints,     \* bound: points of a cloud
    Clouds,        \* bound: the clouds that are encoded, sequences of voxels
    Boxes,         \* bound: boxes <<low, high>> the user defines
    PresetDepths,  \* the depth of a new octree: 1 if its resolution was set, else 0
    IFrameRate,    \* iFrameRate_
    MaxInFlight,   \* bound: frames in the stream
    MaxLost        \* bound: frames lost before the decoder sees an I-frame

ASSUME UsersAssumption ==
    /\ Voxels \subseteq Int /\ Voxels # {}
    /\ {MaxPoints, MaxLost} \subseteq Nat /\ MaxInFlight \in Nat \ {0} /\ IFrameRate \in Nat
    /\ Clouds \subseteq Seq(Voxels)
    /\ PresetDepths \subseteq {0, 1} /\ PresetDepths # {}
    /\ \A box \in Boxes : box[1] < box[2]

VARIABLES
    use,        \* "detector" or "compression"
    octree,     \* the octree of the detector or of the encoder
    cloud,      \* history: the points added since the buffers were switched
    before,     \* history: the voxels of the octree before that are still known
    regular,    \* history: nothing irregular has happened, the model ends with it
    comparable, \* history: the octree before has the box of this one
    iFrame, iFrameCounter,  \* iFrame_, iFrameCounter_ of the encoder
    stream,     \* the frames written and not read
    decoder,    \* the octree of the decoder
    lost,       \* history: frames lost since the last I-frame that was decoded
    output      \* the last cloud decoded, with the one that was encoded

detectorVars == <<cloud, before, regular, comparable>>
streamVars == <<iFrame, iFrameCounter, stream, decoder, lost, output>>
vars == <<use, octree, detectorVars, streamVars>>

(* The octree with the box of OctreePointCloud, in voxels, and whether it  *)
(* was defined. A new one has a box that nobody defined.                   *)
NewOctree(depth) ==
    EmptyTree @@ [low |-> 0, high |-> 2^depth, defined |-> FALSE]

Init ==
    /\ use \in {"detector", "compression"}
    /\ \E depth \in PresetDepths : octree = [NewOctree(depth) EXCEPT !.depth = depth]
    /\ decoder = octree
    /\ cloud = <<>> /\ before = {} /\ regular = TRUE /\ comparable = TRUE
    /\ iFrame = TRUE /\ iFrameCounter = 0
    /\ stream = <<>> /\ lost = 0
    /\ output = [decoded |-> <<>>, encoded |-> <<>>]

-----------------------------------------------------------------------------
(* OctreePointCloud: points and the bounding box.                          *)

InBox(o, v) == o.low <= v /\ v < o.high

(* getKeyBitSize(): a depth of one at least. *)
KeyBitSize(length) == CHOOSE d \in 1 .. length : 2^d >= length /\ \A e \in 1 .. d - 1 : 2^e < length

(* defineBoundingBox(), with no leaf in the tree: the box is enlarged to a *)
(* power of two on both sides.                                             *)
DefineBox(o, low, high) ==
    LET depth == KeyBitSize(high - low)
        min == low - (2^depth - (high - low)) \div 2 IN
    [o EXCEPT !.low = min, !.high = min + 2^depth, !.depth = depth, !.defined = TRUE]

(* The first point outside of the box defines it, with one level. *)
BoxAround(o, v) == [o EXCEPT !.low = v, !.high = v + 2, !.depth = 1, !.defined = TRUE]

(* One more level: the root becomes a child of a new one, in the buffer of *)
(* the tree being built only.                                              *)
AddLevel(o, v) ==
    LET i == IF v >= o.high THEN 0 ELSE 1
        n == Min(o.pool \intersect Branches)
        t == Reset([o EXCEPT !.pool = @ \ {n}], n)
        low == IF v >= o.high THEN o.low ELSE o.low - 2^o.depth IN
    [SetChildPtr(t, n, o.selector, i, o.root) EXCEPT
        !.root = n, !.branchCount = @ + 1, !.depth = @ + 1,
        !.low = low, !.high = low + 2^(o.depth + 1)]

RECURSIVE AdoptBoundingBox(_, _)
AdoptBoundingBox(o, v) ==
    IF InBox(o, v) THEN o
    ELSE AdoptBoundingBox(IF o.defined THEN AddLevel(o, v) ELSE BoxAround(o, v), v)

(* addPointIdx() *)
AddPointIdx(o, v) ==
    LET t == AdoptBoundingBox(o, v) IN AddData(t, v - t.low)

(* deleteTree() of OctreePointCloud: the box is gone, too. *)
DeleteAll(o) == [DeleteTree(o) EXCEPT !.low = 0, !.high = 0, !.defined = FALSE]

(* A point that lies in the box of a new octree does not define it: when a *)
(* later point does, the voxel of the first one moves.                     *)
InPreset(o, v) == ~o.defined /\ InBox(o, v)

Occupied(points) == {points[i] : i \in DOMAIN points}

-----------------------------------------------------------------------------
(* The change detector.                                                    *)

Detector == use = "detector" /\ regular /\ UNCHANGED <<use, streamVars>>

AddPoint(v) ==
    /\ Detector
    /\ Len(cloud) < MaxPoints
    /\ octree' = AddPointIdx(octree, v)
    /\ cloud' = Append(cloud, v)
    /\ regular' = ~InPreset(octree, v)
    /\ UNCHANGED <<before, comparable>>

(* What serializeNewLeafs() returns, as voxels *)
NewVoxels(o, min) ==
    {o.low + leaf.key : leaf \in
        {l \in ToSet(LeafData(o, o.root, 0)) : l.new /\ l.points >= min}}

(* getPointIndicesFromNewVoxels(): what only the octree before has is       *)
(* deleted on the way, a second call no longer knows of it.                *)
GetPointIndicesFromNewVoxels ==
    /\ Detector
    /\ octree' = Serialized(octree)
    /\ before' = before \intersect Occupied(cloud)
    /\ UNCHANGED <<cloud, regular, comparable>>

DetectorSwitch ==
    /\ Detector
    /\ octree' = SwitchBuffers(octree)
    /\ before' = Occupied(cloud)
    /\ cloud' = <<>> /\ comparable' = TRUE
    /\ UNCHANGED regular

DetectorDelete ==
    /\ Detector
    /\ octree' = DeleteAll(octree)
    /\ cloud' = <<>> /\ before' = {} /\ comparable' = TRUE
    /\ UNCHANGED regular

(* Nothing of the octree before is within reach of this one. *)
Alone(o) == \A b \in BranchesOf(o, o.root) : Pattern(o, b, Prev(o)) = {}

(* deleteVoxelAtPoint(): irregular if there is no such leaf, for the count  *)
(* of leaves goes down all the same, or if there is an octree before, which *)
(* may share what is deleted.                                               *)
DeleteVoxelAtPoint(v) ==
    /\ Detector
    /\ InBox(octree, v)
    /\ octree' = RemoveLeaf(octree, v - octree.low)
    /\ cloud' = SelectSeq(cloud, LAMBDA w : w # v)
    /\ regular' = (v \in Occupied(cloud) /\ Alone(octree))
    /\ UNCHANGED <<before, comparable>>

(* defineBoundingBox(), which asserts that there is no leaf; irregular if   *)
(* there are branches without leaves, which a lower tree takes for leaves. *)
DefineBoundingBox(box) ==
    /\ Detector
    /\ octree.leafCount = 0
    /\ octree' = DefineBox(octree, box[1], box[2])
    /\ regular' = (Pattern(octree, octree.root, octree.selector) = {})
    /\ comparable' = (comparable /\ Pattern(octree, octree.root, Prev(octree)) = {})
    /\ UNCHANGED <<cloud, before>>

-----------------------------------------------------------------------------
(* The compression.                                                        *)

Compression == use = "compression" /\ regular /\ UNCHANGED <<use, cloud, before, comparable>>

AddPoints(o, points) == FoldLeft(AddPointIdx, o, points)

(* Mutant: a tree with another depth is compared with the one before. *)
NeedsNoIFrame(old, new) == iFrame \/ iFrameCounter = IFrameRate

NeedsIFrame(old, new) == iFrame \/ old.depth # new.depth \/ iFrameCounter = IFrameRate

NextIFrameCounter == IF iFrameCounter = IFrameRate THEN 0 ELSE iFrameCounter + 1

(* A frame: its header, the box for an I-frame only, the octree and the     *)
(* points of each leaf.                                                    *)
FrameOf(o, intra, points) ==
    LET leaves == LeafData(o, o.root, 0) IN
    [iFrame |-> intra, low |-> o.low, high |-> o.high,
     bytes |-> TreeBytes(o, o.root, ~intra),
     counts |-> [k \in DOMAIN leaves |-> leaves[k].points],
     cloud |-> points]

(* encodePointCloud() of a cloud with points *)
EncodePoints(points) ==
    LET o == AddPoints(octree, points)
        intra == NeedsIFrame(octree, o) IN
    /\ points # <<>>
    /\ stream' = Append(stream, FrameOf(o, intra, points))
    /\ octree' = SwitchBuffers(Serialized(o))
    /\ iFrame' = FALSE
    /\ iFrameCounter' = NextIFrameCounter
    /\ regular' = ~InPreset(octree, points[1])

(* encodePointCloud() of a cloud without *)
EncodeNothing(points) ==
    /\ points = <<>>
    /\ octree' = DeleteAll(octree)
    /\ iFrame' = TRUE /\ iFrameCounter' = 0
    /\ UNCHANGED <<regular, stream>>

EncodePointCloud(points) ==
    /\ Compression
    /\ Len(stream) < MaxInFlight
    /\ EncodePoints(points) \/ EncodeNothing(points)
    /\ UNCHANGED <<decoder, lost, output>>

(* readFrameHeader() *)
ReadFrameHeader(o, frame) ==
    IF frame.iFrame THEN DefineBox(DeleteAll(o), frame.low, frame.high) ELSE o

Repeat(v, count) == [k \in 1 .. count |-> v]
PointsOf(low, keys, counts) ==
    FlattenSeq([k \in DOMAIN keys |-> Repeat(low + keys[k], counts[k])])

(* decodePointCloud(): deserializeTreeCallback() takes the points of each   *)
(* leaf from the frame.  A frame may not fit the tree, after one was lost:  *)
(* with more leaves than it has counts, the callback reads past   *)
(* their end; with fewer patterns than branches, the old tree is not        *)
(* cleaned up.                                                             *)
DecodePointCloud ==
    LET frame == Head(stream)
        o == ReadFrameHeader(SwitchBuffers(decoder), frame)
        end == DeserializeTree(o, frame.bytes, ~frame.iFrame)
        fits == ~end.starved /\ Len(end.leaves) <= Len(frame.counts) IN
    /\ Compression
    /\ stream # <<>>
    /\ regular' = fits
    /\ decoder' = end.tree
    /\ output' = [encoded |-> frame.cloud, decoded |->
                     IF fits THEN PointsOf(o.low, end.leaves, frame.counts) ELSE <<>>]
    /\ lost' = IF frame.iFrame THEN 0 ELSE lost
    /\ stream' = Tail(stream)
    /\ UNCHANGED <<octree, iFrame, iFrameCounter>>

(* A reader that starts late or loses frames goes on with the next header  *)
(* that syncToHeader() finds.                                              *)
SkipFrame ==
    /\ Compression
    /\ stream # <<>> /\ lost < MaxLost
    /\ stream' = Tail(stream)
    /\ lost' = lost + 1
    /\ UNCHANGED <<octree, regular, iFrame, iFrameCounter, decoder, output>>

Next ==
    \/ \E v \in Voxels : AddPoint(v) \/ DeleteVoxelAtPoint(v)
    \/ GetPointIndicesFromNewVoxels \/ DetectorSwitch \/ DetectorDelete
    \/ \E box \in Boxes : DefineBoundingBox(box)
    \/ \E points \in Clouds : EncodePointCloud(points)
    \/ DecodePointCloud \/ SkipFrame

Spec == Init /\ [][Next]_vars

-----------------------------------------------------------------------------
TreeOK(o) ==
    /\ o.root \in Branches /\ o.pool \subseteq Nodes /\ {o.twice, o.dirty, o.defined} \subseteq BOOLEAN
    /\ o.child \in [Branches -> [Buffers -> [Children -> Nodes \union {None}]]]
    /\ o.size \in [Leaves -> Nat] /\ o.selector \in Buffers
    /\ {o.leafCount, o.branchCount, o.depth} \subseteq Nat
    /\ {o.low, o.high} \subseteq Int /\ (o.defined => o.high = o.low + 2^o.depth)

TypeOK ==
    /\ use \in {"detector", "compression"}
    /\ regular => TreeOK(octree) /\ TreeOK(decoder)
    /\ cloud \in Seq(Voxels) /\ before \subseteq Voxels
    /\ {regular, comparable, iFrame} \subseteq BOOLEAN
    /\ iFrameCounter \in 0 .. IFrameRate /\ lost \in 0 .. MaxLost
    /\ Len(stream) <= MaxInFlight

(* However trees are built, shared, compared, grown and given up, each node *)
(* belongs to one place of one octree or to its pool: none is freed twice, *)
(* used after it was freed, or lost.  "Return the amount of existing leafs *)
(* in the octree": the counters, kept through stealing, growing and         *)
(* decoding, are what a walk would count.                                  *)
NodesOwned ==
    /\ TypeOK
    /\ regular => \A o \in {octree, decoder} : Owned(o) /\ Counted(o)

PointsAt(points, v) == Cardinality({i \in DOMAIN points : points[i] = v})

(* The octree holds the points added since the switch, each in the voxel it *)
(* lies in, and none of an older cloud, although its nodes are reused.     *)
CloudInTree ==
    (regular /\ use = "detector") =>
        LET leaves == ToSet(LeafData(octree, octree.root, 0)) IN
        /\ {octree.low + l.key : l \in leaves} = Occupied(cloud)
        /\ \A l \in leaves : l.points = PointsAt(cloud, octree.low + l.key)

(* "Get a indices from all leaf nodes that did not exist in previous        *)
(* buffer": the voxels reported are those the cloud before had not, with   *)
(* the number of points asked for, also when the octree has grown between. *)
NewVoxelsReported ==
    (regular /\ use = "detector" /\ comparable) =>
        \A min \in 0 .. MaxPoints :
            NewVoxels(octree, min) =
                {v \in Occupied(cloud) \ before : PointsAt(cloud, v) >= min}

(* The decoder's cloud has the points of the cloud that was encoded, frame  *)
(* by frame since the last I-frame it has seen all of, and again from an   *)
(* I-frame on, whatever it has lost before and made of the rest.           *)
DecodedAsEncoded ==
    lost = 0 =>
        \A v \in Voxels : PointsAt(output.decoded, v) = PointsAt(output.encoded, v)
=============================================================================
