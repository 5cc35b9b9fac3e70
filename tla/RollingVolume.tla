--------------------------- MODULE RollingVolume ---------------------------
(***************************************************************************)
(* The cube of KinFu large scale: the TSDF and color volumes, both rolling *)
(* buffers of N voxels per axis, and the world model that keeps what left  *)
(* the cube.  Voxels are in grid indices; what a cell holds is abstracted  *)
(* to the voxel of space that was measured there, or Empty.  A kernel is   *)
(* one step: its caller waits for it.                                      *)
(***************************************************************************)
EXTENDS Integers, FiniteSets

CONSTANTS
    N,        \* voxels_size, the same for the three axes
    Offsets,  \* how far a shift moves the cube, per axis
    Views,    \* the voxels of the cube in which a frame can see a surface
    Reach,    \* bound: how far from its first place the cube goes
    MaxShifts \* bound: the number of shifts

ASSUME VolumeAssumption ==
    /\ N \in Nat \ {0, 1} /\ Reach \in Nat /\ MaxShifts \in Nat
    /\ Offsets \subseteq [1 .. 3 -> 1 - N .. N - 1]
    /\ Views \subseteq SUBSET [1 .. 3 -> 0 .. N - 1]

VARIABLES
    origin,        \* buffer_.origin_GRID
    global,        \* buffer_.origin_GRID_global
    tsdf,          \* the memory of the TSDF volume
    color,         \* the memory of the color volume
    world,         \* world_model_: the points, with what is stored of each
    extractWorld,  \* extract_world_
    shifts         \* how often the cube has moved

vars == <<origin, global, tsdf, color, world, extractWorld, shifts>>

Axis == 1 .. 3
Cell == [Axis -> 0 .. N - 1]
Empty == [a \in Axis |-> Reach + 2 * N]   \* a weight of 0; no voxel the cube reaches

Plus(v, w) == [a \in Axis |-> v[a] + w[a]]
Minus(v, w) == [a \in Axis |-> v[a] - w[a]]

(* The place the slice operations give a voxel of space: modulo N per axis. *)
Home(w) == [a \in Axis |-> w[a] % N]

(* shift_tsdf_pointer(): the address of voxel r of the cube, past the origin. *)
Address(v) == v[1] + N * v[2] + N * N * v[3]
CellAt(address) == <<address % N, (address \div N) % N, (address \div (N * N)) % N>>

(* Mutant: the rolling origin leaves out the plane. *)
FetchedFlat(r) == CellAt(Address(r) + origin[1] + N * origin[2])

Fetched(r) == CellAt(Address(r) + Address(origin))

Fetch(mem, r) == mem[Fetched(r)]

-----------------------------------------------------------------------------
Init ==
    /\ origin = [a \in Axis |-> 0] /\ global = [a \in Axis |-> 0]
    /\ tsdf = [c \in Cell |-> Empty] /\ color = [c \in Cell |-> Empty]
    /\ world = {}
    /\ extractWorld \in BOOLEAN
    /\ shifts = 0

(* integrateTsdfVolume() and updateColorVolume(): the surface the camera   *)
(* sees goes to the cells its voxels are fetched from.                     *)
Seen(mem, seen) ==
    [c \in Cell |-> IF \E r \in seen : Fetched(r) = c
                    THEN Plus(global, CHOOSE r \in seen : Fetched(r) = c) ELSE mem[c]]

Integrate(seen) ==
    /\ tsdf' = Seen(tsdf, seen) /\ color' = Seen(color, seen)
    /\ UNCHANGED <<origin, global, world, extractWorld, shifts>>

-----------------------------------------------------------------------------
Sorted(b) == IF b[1] > b[2] THEN <<b[2], b[1]>> ELSE b
UpBy(b, n) == IF b[1] < 0 THEN <<b[1] + n, b[2] + n>> ELSE b

(* Mutant: the bounds include the plane of the new origin. *)
TsdfBoundsInclusive(o, s) ==
    UpBy(IF s >= 0 THEN <<o, o + s>> ELSE <<o + s, o>>, N)

(* clearTSDFSlice(): the planes an axis clears for an offset of s. *)
TsdfBounds(o, s) ==
    UpBy(IF s >= 0 THEN <<o, o + s - 1>> ELSE <<o + s, o - 1>>, N)

(* clearColorSlice() has kept the inclusive bounds. *)
ColorBounds(o, s) ==
    Sorted(IF o + s >= 0 THEN <<o, o + s>> ELSE <<o + s + N, o + N>>)

(* The black zone of clearSliceKernel() and clearColorSliceKernel(). *)
InBlackZone(b, m) == (IF m < b[1] THEN m + N ELSE m) \in b[1] .. b[2]

(* Their red zone: |s| planes along z, from the origin or up to it. *)
InRedZone(s, m) ==
    \E k \in 1 .. (IF s < 0 THEN -s ELSE s) :
        m = (origin[3] + (IF s < 0 THEN s ELSE 0) + k - 1) % N

Cleared(mem, bx, by, sz) ==
    [c \in Cell |->
        IF InBlackZone(bx, c[1]) \/ InBlackZone(by, c[2]) \/ InRedZone(sz, c[3])
        THEN Empty ELSE mem[c]]

-----------------------------------------------------------------------------
(* Mutant: a negative lower bound is not brought back into the cube. *)
SliceBoundsNegative(o, s) ==
    LET b == Sorted(IF o + s >= 0 THEN <<o, o + s>> ELSE <<o + s + N - 1, o + N - 1>>)
    IN  <<b[1] - o, b[2] - o>>

(* extractSliceAsCloud(): the planes of the cube that go to the world. *)
SliceBounds(o, s) ==
    LET b == Sorted(IF o + s >= 0 THEN <<o, o + s>> ELSE <<o + s + N - 1, o + N - 1>>)
    IN  UpBy(<<b[1] - o, b[2] - o>>, N)

(* fetchSliceAsCloud(), moved to global coordinates; all of the cube when  *)
(* the shift is the last.                                                  *)
Slice(s, last) ==
    LET Leaves(r) ==
            \E a \in Axis :
                LET b == SliceBounds(origin[a], IF last THEN N - 1 ELSE s[a])
                IN  r[a] \in b[1] .. b[2]
    IN  {[at |-> Plus(global, r), is |-> Fetch(tsdf, r)] :
            r \in {q \in Cell : Leaves(q) /\ Fetch(tsdf, q) # Empty}}

(* Mutant: on an axis the cube moves back along, the far planes come back. *)
ExistingForward(s) ==
    {e \in world :
        /\ \A a \in Axis : e.at[a] \in global[a] + s[a] .. global[a] + s[a] + N - 2
        /\ \E a \in Axis : e.at[a] >= global[a] + N - 2}

(* getExistingData(), called with N - 1 for the size of the cube. *)
ExistingData(s) ==
    {e \in world :
        /\ \A a \in Axis : e.at[a] \in global[a] + s[a] .. global[a] + s[a] + N - 2
        /\ \E a \in Axis : IF s[a] >= 0 THEN e.at[a] >= global[a] + N - 2
                           ELSE e.at[a] < global[a]}

(* setSliceAsNans() and cleanWorldFromNans(). *)
Erased(s, p) ==
    \E a \in Axis :
        /\ p[a] \in (IF s[a] >= 0 THEN global[a] .. global[a] + s[a] - 1
                     ELSE global[a] + N - 1 + s[a] .. global[a] + N - 2)
        /\ \A b \in Axis \ {a} : p[b] \in global[b] .. global[b] + N - 2

(* loadTsdfValueKernel(): where a point of the old world goes in the cube  *)
(* that starts at the new origin o and has moved by s.                     *)
PushCell(o, s, p) ==
    LET rel == Minus(p, Plus(global, s)) IN [a \in Axis |-> (rel[a] + o[a]) % N]

Wrapped(i) == IF i >= N THEN i - N ELSE IF i < 0 THEN i + N ELSE i

(* shiftOrigin() *)
ShiftedOrigin(s) == [a \in Axis |-> Wrapped(origin[a] + s[a])]

(* Two points that are pushed to one cell race: either may stay. *)
Pushed(mem, o, s, winners) ==
    [c \in Cell |-> IF \E e \in winners : PushCell(o, s, e.at) = c
                    THEN (CHOOSE e \in winners : PushCell(o, s, e.at) = c).is ELSE mem[c]]

(* performShift(); "last" is perform_last_scan_. *)
Shift(s, last) ==
    /\ shifts < MaxShifts /\ shifts' = shifts + 1
    /\ \A a \in Axis : global[a] + s[a] \in -Reach .. Reach
    /\ LET o == ShiftedOrigin(s)
           existing == IF extractWorld THEN ExistingData(s) ELSE {}
           cells == {PushCell(o, s, e.at) : e \in existing}
           cleared == Cleared(tsdf, TsdfBounds(origin[1], s[1]), TsdfBounds(origin[2], s[2]), s[3])
       IN  /\ \E winners \in SUBSET existing :
                /\ Cardinality(winners) = Cardinality(cells)
                /\ {PushCell(o, s, e.at) : e \in winners} = cells
                /\ tsdf' = Pushed(cleared, o, s, winners)
           /\ color' = Cleared(color, ColorBounds(origin[1], s[1]), ColorBounds(origin[2], s[2]), s[3])
           /\ origin' = o
    /\ global' = Plus(global, s)
    /\ world' = IF extractWorld
                THEN {e \in world : ~Erased(s, e.at)} \union Slice(s, last) ELSE world
    /\ UNCHANGED extractWorld

(* KinfuTracker::reset(): the volumes and the buffer, not the world model. *)
Reset ==
    /\ origin' = [a \in Axis |-> 0] /\ global' = [a \in Axis |-> 0]
    /\ tsdf' = [c \in Cell |-> Empty] /\ color' = [c \in Cell |-> Empty]
    /\ UNCHANGED <<world, extractWorld, shifts>>

Next ==
    \/ \E seen \in Views : Integrate(seen)
    \/ \E s \in Offsets, last \in BOOLEAN : Shift(s, last)
    \/ Reset

Spec == Init /\ [][Next]_vars

-----------------------------------------------------------------------------
Place == [Axis -> -Reach - N .. Reach + 2 * N]   \* the voxels of space, and Empty

TypeOK ==
    /\ origin \in Cell /\ global \in [Axis -> -Reach .. Reach]
    /\ tsdf \in [Cell -> Place] /\ color \in [Cell -> Place]
    /\ world \subseteq [at : Place, is : Place]
    /\ extractWorld \in BOOLEAN /\ shifts \in 0 .. MaxShifts

(* The rolling origin is the global one modulo the size of the buffer,     *)
(* whatever the shifts have been: shiftOrigin() wraps it only once.        *)
OriginCongruent == origin = Home(global)

Moved == shifts' # shifts

Space == {Plus(global, r) : r \in Cell}   \* the voxels of space in the cube

(* A shift keeps what is stored of the voxels that stay in the cube, and   *)
(* empties the cells of those that enter it; only a point of the world     *)
(* model replaces either.  clearTSDFSlice() clears no plane too many and   *)
(* none too few, on any axis and across the end of the buffer.             *)
CubeSlides ==
    [][Moved =>
        \A w \in Space' :
            \/ tsdf'[Home(w)] = IF w \in Space THEN tsdf[Home(w)] ELSE Empty
            \/ \E e \in world : e.at = w /\ e.is = tsdf'[Home(w)]]_vars

(* No voxel that enters the cube has the color of one that has left it:    *)
(* clearColorSlice() clears at least the planes that change their voxel.   *)
NoStaleColor == [][Moved => \A w \in Space' \ Space : color'[Home(w)] = Empty]_vars

(* What leaves the cube goes to the world model, and the last scan takes   *)
(* all of it: extractSliceAsCloud() misses no plane clearTSDFSlice() clears. *)
LeavingExtracted ==
    [][Moved /\ extractWorld =>
        \A r \in Cell :
            Fetch(tsdf, r) # Empty /\ Plus(global, r) \notin Space' =>
                [at |-> Plus(global, r), is |-> Fetch(tsdf, r)] \in world']_vars

(* What the world model knows of a voxel comes back when the voxel enters  *)
(* the cube again, except in the last plane of an axis, which              *)
(* getExistingData() leaves out.                                           *)
WorldRestored ==
    [][Moved /\ extractWorld =>
        \A e \in world :
            e.at \in Space' \ Space /\ (\A a \in Axis : e.at[a] < global'[a] + N - 1) =>
                \E f \in world : f.at = e.at /\ f.is = tsdf'[Home(e.at)]]_vars

(* While the cube moves along z alone the volume is read where it was      *)
(* written: a voxel that stays has the value it had, unless the world      *)
(* model replaces it, and one that enters has none.                        *)
AlongZ == \A a \in {1, 2} : origin[a] = 0 /\ origin'[a] = 0 /\ global'[a] = global[a]

ReadsFollow ==
    [][Moved /\ AlongZ =>
        \A r \in Cell :
            LET w == Plus(global', r)
                now == Fetch(tsdf, r)'
            IN  \/ now = IF w \in Space THEN Fetch(tsdf, Minus(w, global)) ELSE Empty
                \/ \E e \in world : e.at = w /\ e.is = now]_vars

(* A voxel is read as what was measured there: "make sure to modulo the    *)
(* new value" (cuda/device.hpp) wraps the address of the whole volume,     *)
(* the slices wrap every axis.                                             *)
ReadBack == \A r \in Cell : Fetch(tsdf, r) \in {Empty, Plus(global, r)}
=============================================================================
