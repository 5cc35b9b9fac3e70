------------------------ MODULE RollingVolumeProofs ------------------------
(***************************************************************************)
(* Proofs about the rolling volume, for buffers and offsets of any size:   *)
(* the rolling origin, what a shift clears and extracts, and that a cube   *)
(* moved along z only is read back as it was measured.                     *)
(***************************************************************************)
EXTENDS RollingVolume, TLAPS

(* Division as the proofs need it: what the prover knows of \div and %. *)
LEMMA Division ==
    ASSUME NEW n \in Nat \ {0}, NEW a \in Int
    PROVE  a = n * (a \div n) + (a % n) /\ a % n \in 0 .. n - 1 /\ a \div n \in Int
OBVIOUS

(* A remainder is the only one. *)
LEMMA Remainder ==
    ASSUME NEW n \in Nat \ {0}, NEW q \in Int, NEW r \in 0 .. n - 1
    PROVE  (n * q + r) % n = r
OBVIOUS

(* An index of the buffer is its own remainder.                            *)
LEMMA WithinBuffer ==
    ASSUME NEW r \in 0 .. N - 1
    PROVE  r % N = r
<1>1. N \in Nat \ {0} /\ N * 0 + r = r  BY VolumeAssumption
<1> QED  BY <1>1, Remainder

(* shiftOrigin() wraps the origin to where the slice operations look for   *)
(* it: once is enough for offsets below the size of the buffer.            *)
LEMMA WrapsOnce ==
    ASSUME NEW g \in Int, NEW k \in 1 - N .. N - 1
    PROVE  (g + k) % N = Wrapped((g % N) + k)
<1> DEFINE q == g \div N
           o == g % N
<1>1. N \in Nat \ {0} /\ g = N * q + o /\ o \in 0 .. N - 1 /\ q \in Int
  BY Division, VolumeAssumption
<1> SUFFICES (g + k) % N = Wrapped(o + k)  OBVIOUS
<1> HIDE DEF q, o
<1>2. CASE o + k \in 0 .. N - 1
  <2>1. g + k = N * q + (o + k)  BY <1>1
  <2>2. (N * q + (o + k)) % N = o + k  BY <1>1, <1>2, Remainder
  <2> QED  BY <1>1, <1>2, <2>1, <2>2 DEF Wrapped
<1>3. CASE o + k >= N
  <2>1. N * (q + 1) = N * q + N  BY <1>1
  <2>2. g + k = N * (q + 1) + (o + k - N)  BY <1>1, <2>1
  <2>3. q + 1 \in Int /\ o + k - N \in 0 .. N - 1  BY <1>1, <1>3
  <2>4. (N * (q + 1) + (o + k - N)) % N = o + k - N  BY <1>1, <2>3, Remainder
  <2> QED  BY <1>1, <1>3, <2>2, <2>4 DEF Wrapped
<1>4. CASE o + k < 0
  <2>1. N * (q - 1) = N * q - N  BY <1>1
  <2>2. g + k = N * (q - 1) + (o + k + N)  BY <1>1, <2>1
  <2>3. q - 1 \in Int /\ o + k + N \in 0 .. N - 1  BY <1>1, <1>4
  <2>4. (N * (q - 1) + (o + k + N)) % N = o + k + N  BY <1>1, <2>3, Remainder
  <2> QED  BY <1>1, <1>4, <2>2, <2>4 DEF Wrapped
<1> QED  BY <1>1, <1>2, <1>3, <1>4

(* The same once more, for a voxel k of the cube that has moved by m. *)
LEMMA WrapsTwice ==
    ASSUME NEW g \in Int, NEW m \in 1 - N .. N - 1, NEW k \in 0 .. N - 1
    PROVE  /\ (g + m + k) % N = Wrapped(Wrapped((g % N) + m) + k)
           /\ Wrapped((g % N) + m) \in 0 .. N - 1
<1>1. N \in Nat \ {0} /\ g % N \in 0 .. N - 1  BY Division, VolumeAssumption
<1>2. (g + m) % N = Wrapped((g % N) + m)  BY WrapsOnce
<1>3. g + m \in Int /\ k \in 1 - N .. N - 1  BY <1>1
<1>4. (g + m + k) % N = Wrapped(((g + m) % N) + k)  BY <1>3, WrapsOnce
<1>5. (g + m) % N \in 0 .. N - 1  BY <1>1, <1>3, Division
<1> QED  BY <1>2, <1>4, <1>5

(* Two voxels of one cube have different cells along an axis. *)
LEMMA OneCell ==
    ASSUME NEW g \in Int, NEW k \in 0 .. N - 1, NEW l \in 0 .. N - 1, (g + k) % N = (g + l) % N
    PROVE  k = l
<1>1. N \in Nat \ {0} /\ g % N \in 0 .. N - 1  BY Division, VolumeAssumption
<1>2. k \in 1 - N .. N - 1 /\ l \in 1 - N .. N - 1  BY <1>1
<1>3. Wrapped((g % N) + k) = Wrapped((g % N) + l)  BY <1>2, WrapsOnce
<1> QED  BY <1>1, <1>3 DEF Wrapped

(* clearTSDFSlice() on x or y: the planes cleared are those of the voxels  *)
(* that enter the cube; voxel k of the new cube was voxel m + k.           *)
LEMMA TsdfPlanes ==
    ASSUME NEW g \in Int, NEW m \in 1 - N .. N - 1, NEW k \in 0 .. N - 1
    PROVE  InBlackZone(TsdfBounds(g % N, m), (g + m + k) % N) <=> m + k \notin 0 .. N - 1
<1> DEFINE o == g % N
<1>1. N \in Nat \ {0} /\ o \in 0 .. N - 1  BY Division, VolumeAssumption
<1>2. (g + m + k) % N = Wrapped(Wrapped(o + m) + k)  BY WrapsTwice
<1> HIDE DEF o
<1>3. InBlackZone(TsdfBounds(o, m), Wrapped(Wrapped(o + m) + k)) <=> m + k \notin 0 .. N - 1
  <2>1. CASE m >= 0
    <3>1. TsdfBounds(o, m) = <<o, o + m - 1>>  BY <1>1, <2>1 DEF TsdfBounds, UpBy
    <3> QED  BY <1>1, <2>1, <3>1 DEF InBlackZone, Wrapped
  <2>2. CASE m < 0 /\ o + m < 0
    <3>1. TsdfBounds(o, m) = <<o + m + N, o - 1 + N>>  BY <1>1, <2>2 DEF TsdfBounds, UpBy
    <3> QED  BY <1>1, <2>2, <3>1 DEF InBlackZone, Wrapped
  <2>3. CASE m < 0 /\ o + m >= 0
    <3>1. TsdfBounds(o, m) = <<o + m, o - 1>>  BY <1>1, <2>3 DEF TsdfBounds, UpBy
    <3> QED  BY <1>1, <2>3, <3>1 DEF InBlackZone, Wrapped
  <2> QED  BY <1>1, <2>1, <2>2, <2>3
<1> QED  BY <1>2, <1>3 DEF o

(* clearColorSlice() clears at least those planes. *)
LEMMA ColorPlanes ==
    ASSUME NEW g \in Int, NEW m \in 1 - N .. N - 1, NEW k \in 0 .. N - 1, m + k \notin 0 .. N - 1
    PROVE  InBlackZone(ColorBounds(g % N, m), (g + m + k) % N)
<1> DEFINE o == g % N
<1>1. N \in Nat \ {0} /\ o \in 0 .. N - 1  BY Division, VolumeAssumption
<1>2. (g + m + k) % N = Wrapped(Wrapped(o + m) + k)  BY WrapsTwice
<1> HIDE DEF o
<1>3. InBlackZone(ColorBounds(o, m), Wrapped(Wrapped(o + m) + k))
  <2>1. CASE m >= 0
    <3>1. ColorBounds(o, m) = <<o, o + m>>  BY <1>1, <2>1 DEF ColorBounds, Sorted
    <3> QED  BY <1>1, <2>1, <3>1 DEF InBlackZone, Wrapped
  <2>2. CASE m < 0 /\ o + m < 0
    <3>1. ColorBounds(o, m) = <<o + m + N, o + N>>  BY <1>1, <2>2 DEF ColorBounds, Sorted
    <3> QED  BY <1>1, <2>2, <3>1 DEF InBlackZone, Wrapped
  <2>3. CASE m < 0 /\ o + m >= 0
    <3>1. ColorBounds(o, m) = <<o + m, o>>  BY <1>1, <2>3 DEF ColorBounds, Sorted
    <3> QED  BY <1>1, <2>3, <3>1 DEF InBlackZone, Wrapped
  <2> QED  BY <1>1, <2>1, <2>2, <2>3
<1> QED  BY <1>2, <1>3 DEF o

(* extractSliceAsCloud(): voxel k, which the move by m takes out of the    *)
(* cube, is in the slice, and so is every voxel when all of it is fetched. *)
LEMMA SlicePlanes ==
    ASSUME NEW o \in 0 .. N - 1, NEW m \in 1 - N .. N - 1, NEW k \in 0 .. N - 1, NEW last \in BOOLEAN,
           k - m \notin 0 .. N - 1
    PROVE  LET b == SliceBounds(o, IF last THEN N - 1 ELSE m) IN k \in b[1] .. b[2]
<1>1. N \in Nat \ {0, 1}  BY VolumeAssumption
<1>2. SliceBounds(o, N - 1) = <<0, N - 1>>  BY <1>1 DEF SliceBounds, Sorted, UpBy
<1>3. CASE m >= 0
  <2>1. SliceBounds(o, m) = <<0, m>>  BY <1>1, <1>3 DEF SliceBounds, Sorted, UpBy
  <2> QED  BY <1>1, <1>2, <1>3, <2>1
<1>4. CASE m < 0 /\ o + m >= 0
  <2>1. SliceBounds(o, m) = <<m + N, N>>  BY <1>1, <1>4 DEF SliceBounds, Sorted, UpBy
  <2> QED  BY <1>1, <1>2, <1>4, <2>1
<1>5. CASE m < 0 /\ o + m < 0
  <2>1. SliceBounds(o, m) = <<m + N - 1, N - 1>>  BY <1>1, <1>5 DEF SliceBounds, Sorted, UpBy
  <2> QED  BY <1>1, <1>2, <1>5, <2>1
<1> QED  BY <1>1, <1>3, <1>4, <1>5

-----------------------------------------------------------------------------
Points == [Axis -> Int]

(* A linear address past the origin ends in a cell of the buffer.          *)
LEMMA FetchedCell ==
    ASSUME origin \in Cell, NEW r \in Cell
    PROVE  Fetched(r) \in Cell
<1>1. N \in Nat \ {0} /\ N * N \in Nat \ {0}  BY VolumeAssumption
<1>2. \A v \in Cell : Address(v) \in Int  BY <1>1 DEF Address, Cell, Axis
<1> DEFINE d == Address(r) + Address(origin)
<1>3. d \in Int  BY <1>2
<1> HIDE DEF d
<1>4. d \div N \in Int /\ d \div (N * N) \in Int  BY <1>1, <1>3, Division
<1>5. /\ d % N \in 0 .. N - 1 /\ (d \div N) % N \in 0 .. N - 1
      /\ (d \div (N * N)) % N \in 0 .. N - 1
  BY <1>1, <1>3, <1>4, Division
<1>6. CellAt(d) \in Cell  BY <1>5 DEF CellAt, Cell, Axis
<1> QED  BY <1>6 DEF Fetched, d

(* What a kernel reads of a buffer of voxels is a voxel.                   *)
LEMMA FetchPlace ==
    ASSUME origin \in Cell, NEW mem \in [Cell -> Place], NEW r \in Cell
    PROVE  Fetch(mem, r) \in Place
BY FetchedCell DEF Fetch

(* A voxel of the cube is one of space, and so is Empty.                   *)
LEMMA VoxelPlace ==
    ASSUME global \in [Axis -> -Reach .. Reach]
    PROVE  Empty \in Place /\ \A r \in Cell : Plus(global, r) \in Place
BY VolumeAssumption DEF Empty, Place, Plus, Cell

(* The invariant: every variable has its type and the two origins agree.   *)
VolumeInv == TypeOK /\ OriginCongruent

(* The cube moves where shiftOrigin() says.                                *)
LEMMA OriginShifts ==
    ASSUME VolumeInv, NEW s \in Offsets
    PROVE  ShiftedOrigin(s) = Home(Plus(global, s)) /\ ShiftedOrigin(s) \in Cell
<1>1. global \in [Axis -> Int] /\ s \in [Axis -> 1 - N .. N - 1]
  BY VolumeAssumption DEF VolumeInv, TypeOK, Axis
<1>2. \A a \in Axis : Wrapped(origin[a] + s[a]) = (global[a] + s[a]) % N
  BY <1>1, WrapsOnce DEF VolumeInv, OriginCongruent, Home
<1>3. N \in Nat \ {0} /\ \A a \in Axis : global[a] + s[a] \in Int
  BY <1>1, VolumeAssumption
<1>4. \A i \in Int : i % N \in 0 .. N - 1  BY <1>3, Division
<1> QED  BY <1>2, <1>3, <1>4 DEF ShiftedOrigin, Home, Plus, Cell

(* Init: the volumes are empty and both origins are 0.                     *)
LEMMA InitVolume == Init => VolumeInv
<1> SUFFICES ASSUME Init PROVE VolumeInv  OBVIOUS
<1>1. N \in Nat \ {0, 1} /\ Reach \in Nat /\ MaxShifts \in Nat  BY VolumeAssumption
<1>2. origin \in Cell /\ global \in [Axis -> -Reach .. Reach]  BY <1>1 DEF Init, Cell
<1>3. Empty \in Place  BY <1>2, VoxelPlace
<1>4. TypeOK  BY <1>1, <1>2, <1>3 DEF Init, TypeOK
<1>5. 0 % N = 0  BY <1>1
<1>6. OriginCongruent  BY <1>5 DEF Init, OriginCongruent, Home
<1> QED  BY <1>4, <1>6 DEF VolumeInv

(* A frame writes voxels of the cube to cells of the buffer.               *)
LEMMA IntegrateVolume ==
    ASSUME VolumeInv, NEW seen \in Views, Integrate(seen)
    PROVE  VolumeInv'
<1>1. seen \subseteq Cell  BY VolumeAssumption DEF Cell, Axis
<1>2. ASSUME NEW mem \in [Cell -> Place] PROVE Seen(mem, seen) \in [Cell -> Place]
  <2>1. ASSUME NEW c \in Cell, \E r \in seen : Fetched(r) = c
        PROVE  Plus(global, CHOOSE r \in seen : Fetched(r) = c) \in Place
    BY <1>1, <2>1, VoxelPlace DEF VolumeInv, TypeOK
  <2> QED  BY <2>1 DEF Seen
<1> QED  BY <1>2 DEF Integrate, VolumeInv, TypeOK, OriginCongruent

(* A shift fills the cells it pushes to from the world model, and the      *)
(* world model from the slice.                                             *)
LEMMA ShiftVolume ==
    ASSUME VolumeInv, NEW s \in Offsets, NEW last \in BOOLEAN, Shift(s, last)
    PROVE  VolumeInv'
<1> USE VolumeAssumption
<1>1. global' \in [Axis -> -Reach .. Reach]
  <2>1. \A a \in Axis : global[a] + s[a] \in -Reach .. Reach  BY DEF Shift
  <2>2. global' = [a \in Axis |-> global[a] + s[a]]  BY DEF Shift, Plus
  <2> QED  BY <2>1, <2>2
<1>2. origin' = ShiftedOrigin(s)  BY DEF Shift
<1>3. origin' \in Cell /\ origin' = Home(Plus(global, s))  BY <1>2, OriginShifts
<1>4. Empty \in Place /\ \A r \in Cell : Plus(global, r) \in Place
  BY VoxelPlace DEF VolumeInv, TypeOK
<1>5. ASSUME NEW mem \in [Cell -> Place], NEW bx, NEW by
      PROVE  Cleared(mem, bx, by, s[3]) \in [Cell -> Place]
  BY <1>4 DEF Cleared
<1>6. ASSUME NEW mem \in [Cell -> Place], NEW o, NEW winners \in SUBSET world
      PROVE  Pushed(mem, o, s, winners) \in [Cell -> Place]
  <2>1. ASSUME NEW c \in Cell, \E e \in winners : PushCell(o, s, e.at) = c
        PROVE  (CHOOSE e \in winners : PushCell(o, s, e.at) = c).is \in Place
    BY <2>1 DEF VolumeInv, TypeOK
  <2> QED  BY <2>1 DEF Pushed
<1>7. tsdf' \in [Cell -> Place]
  <2>1. PICK winners \in SUBSET (IF extractWorld THEN ExistingData(s) ELSE {}) :
            tsdf' = Pushed(Cleared(tsdf, TsdfBounds(origin[1], s[1]), TsdfBounds(origin[2], s[2]), s[3]),
                           ShiftedOrigin(s), s, winners)
    BY DEF Shift
  <2>2. winners \in SUBSET world  BY DEF ExistingData
  <2> QED  BY <1>5, <1>6, <2>1, <2>2 DEF VolumeInv, TypeOK
<1>8. color' \in [Cell -> Place]  BY <1>5 DEF Shift, VolumeInv, TypeOK
<1>9. world' \subseteq [at : Place, is : Place]
  <2>1. Slice(s, last) \subseteq [at : Place, is : Place]
    BY <1>4, FetchPlace DEF Slice, VolumeInv, TypeOK
  <2> QED  BY <2>1 DEF Shift, VolumeInv, TypeOK
<1>10. extractWorld' \in BOOLEAN /\ shifts' \in 0 .. MaxShifts  BY DEF Shift, VolumeInv, TypeOK
<1>11. OriginCongruent'  BY <1>3 DEF OriginCongruent, Home, Shift
<1> QED  BY <1>1, <1>3, <1>7, <1>8, <1>9, <1>10, <1>11 DEF VolumeInv, TypeOK

(* reset() starts again with empty volumes.                                *)
LEMMA ResetVolume ==
    ASSUME VolumeInv, Reset
    PROVE  VolumeInv'
<1>1. N \in Nat \ {0, 1} /\ Reach \in Nat  BY VolumeAssumption
<1>2. Empty \in Place  BY VoxelPlace DEF VolumeInv, TypeOK
<1>3. TypeOK'  BY <1>1, <1>2 DEF Reset, VolumeInv, TypeOK, Cell
<1>4. 0 % N = 0  BY <1>1
<1>5. OriginCongruent'  BY <1>4 DEF Reset, OriginCongruent, Home
<1> QED  BY <1>3, <1>5 DEF VolumeInv

(* Every variable keeps its type and the rolling origin stays congruent to *)
(* the global one, for buffers of any size and offsets below it.           *)
THEOREM VolumeInvariant == Spec => []VolumeInv
<1>1. VolumeInv /\ [Next]_vars => VolumeInv'
  <2> SUFFICES ASSUME VolumeInv, [Next]_vars PROVE VolumeInv'  OBVIOUS
  <2>1. CASE Next  BY <2>1, IntegrateVolume, ShiftVolume, ResetVolume DEF Next
  <2>2. CASE UNCHANGED vars  BY <2>2 DEF vars, VolumeInv, TypeOK, OriginCongruent, Home
  <2> QED  BY <2>1, <2>2
<1> QED  BY <1>1, InitVolume, PTL DEF Spec

(* Every variable has its type.                                            *)
THEOREM TypeCorrect == Spec => []TypeOK
<1>1. VolumeInv => TypeOK  BY DEF VolumeInv
<1> QED  BY <1>1, VolumeInvariant, PTL

(* shiftOrigin() wraps the rolling origin to the place the slices use.     *)
THEOREM OriginAgrees == Spec => []OriginCongruent
<1>1. VolumeInv => OriginCongruent  BY DEF VolumeInv
<1> QED  BY <1>1, VolumeInvariant, PTL

-----------------------------------------------------------------------------
(* Two voxels of one cube with the same cell are the same.                 *)
LEMMA HomeInjective ==
    ASSUME NEW g \in Points, NEW v \in Points, NEW w \in Points, Home(v) = Home(w),
           \A a \in Axis : v[a] \in g[a] .. g[a] + N - 1 /\ w[a] \in g[a] .. g[a] + N - 1
    PROVE  v = w
<1> USE DEF Points
<1>1. ASSUME NEW a \in Axis PROVE v[a] = w[a]
  <2> DEFINE k == v[a] - g[a]
             l == w[a] - g[a]
  <2>1. N \in Nat \ {0, 1} /\ g[a] \in Int /\ v[a] \in Int /\ w[a] \in Int  BY VolumeAssumption
  <2>2. k \in 0 .. N - 1 /\ l \in 0 .. N - 1 /\ g[a] + k = v[a] /\ g[a] + l = w[a]  BY <2>1
  <2>3. v[a] % N = w[a] % N  BY DEF Home
  <2> HIDE DEF k, l
  <2>4. k = l  BY <2>1, <2>2, <2>3, OneCell
  <2> QED  BY <2>2, <2>4
<1> QED  BY <1>1

(* What the proofs about a shift start from: where a voxel of the new cube *)
(* was in the old one, and which plane of the buffer it lies in.           *)
LEMMA MovedVoxel ==
    ASSUME VolumeInv, NEW s \in Offsets, NEW last \in BOOLEAN, Shift(s, last), NEW w \in Space'
    PROVE  /\ w \in Points /\ Home(w) \in Cell
           /\ \A a \in Axis :
                /\ w[a] \in global'[a] .. global'[a] + N - 1
                /\ s[a] \in 1 - N .. N - 1
                /\ global'[a] = global[a] + s[a] /\ global[a] \in Int
                /\ origin[a] = global[a] % N
           /\ w \in Space <=> \A a \in Axis : w[a] \in global[a] .. global[a] + N - 1
<1>1. PICK r \in Cell : w = Plus(global', r)  BY DEF Space
<1>2. \A a \in Axis : r[a] \in 0 .. N - 1 /\ w[a] = global'[a] + r[a]  BY <1>1 DEF Cell, Plus
<1>3. \A a \in Axis : s[a] \in 1 - N .. N - 1  BY VolumeAssumption DEF Axis
<1>4. global \in Points /\ \A a \in Axis : global'[a] = global[a] + s[a] /\ global[a] \in Int
  BY DEF VolumeInv, TypeOK, Shift, Plus, Points
<1>5. \A a \in Axis : origin[a] = global[a] % N  BY DEF VolumeInv, OriginCongruent, Home
<1>6. N \in Nat \ {0, 1}  BY VolumeAssumption
<1>7. \A a \in Axis : w[a] \in Int /\ w[a] \in global'[a] .. global'[a] + N - 1
  BY <1>2, <1>3, <1>4, <1>6
<1>8. w \in Points  BY <1>1, <1>7 DEF Plus, Points
<1>9. \A i \in Int : i % N \in 0 .. N - 1  BY <1>6, Division
<1>10. Home(w) \in Cell  BY <1>7, <1>9 DEF Home, Cell
<1>11. ASSUME \A a \in Axis : w[a] \in global[a] .. global[a] + N - 1
       PROVE  w \in Space
  <2> DEFINE q == Minus(w, global)
  <2>1. q \in Cell  BY <1>4, <1>6, <1>7, <1>11 DEF Minus, Cell
  <2>2. \A a \in Axis : global[a] + q[a] = w[a]  BY <1>4, <1>7 DEF Minus
  <2>3. w = Plus(global, q)  BY <1>8, <2>2 DEF Plus, Points
  <2> QED  BY <2>1, <2>3 DEF Space
<1>12. ASSUME w \in Space
       PROVE  \A a \in Axis : w[a] \in global[a] .. global[a] + N - 1
  BY <1>4, <1>6, <1>12 DEF Space, Plus, Cell
<1> QED  BY <1>3, <1>4, <1>5, <1>7, <1>8, <1>10, <1>11, <1>12

(* The planes cleared along z are those of the voxels that enter too.      *)
LEMMA RedPlanes ==
    ASSUME NEW g \in Int, NEW m \in 1 - N .. N - 1, NEW k \in 0 .. N - 1, origin[3] = g % N
    PROVE  InRedZone(m, (g + m + k) % N) <=> m + k \notin 0 .. N - 1
<1> DEFINE o == g % N
<1>1. N \in Nat \ {0} /\ o \in 0 .. N - 1 /\ g % N = o  BY Division, VolumeAssumption
<1>2. (g + m + k) % N = Wrapped(Wrapped(o + m) + k)  BY WrapsTwice
<1> HIDE DEF o
<1>3. ASSUME NEW j \in 1 - N .. N - 1 PROVE (o + j) % N = Wrapped(o + j)
  <2>1. o % N = o /\ o \in Int  BY <1>1, WithinBuffer
  <2> QED  BY <1>3, <2>1, WrapsOnce
<1> DEFINE from == IF m < 0 THEN m ELSE 0
           count == IF m < 0 THEN -m ELSE m
           cell == Wrapped(Wrapped(o + m) + k)
<1>4. /\ count \in 0 .. N - 1 /\ from \in 1 - N .. N - 1
      /\ m < 0 => from = m /\ count = -m
      /\ m >= 0 => from = 0 /\ count = m
  BY <1>1
<1>5. InRedZone(m, (g + m + k) % N) <=> \E i \in 1 .. count : cell = (o + from + i - 1) % N
  BY <1>1, <1>2, Zenon DEF InRedZone
<1>6. /\ o \in 0 .. N - 1
      /\ cell = Wrapped(Wrapped(o + m) + k)
  BY <1>1
<1> HIDE DEF from, count, cell
<1>7. ASSUME NEW i \in 1 .. count PROVE (o + from + i - 1) % N = Wrapped(o + from + i - 1)
  <2>1. from + i - 1 \in 1 - N .. N - 1 /\ o + (from + i - 1) = o + from + i - 1
    BY <1>1, <1>4
  <2> QED  BY <1>3, <2>1
<1>8. ASSUME m + k \notin 0 .. N - 1
      PROVE  \E i \in 1 .. count : cell = (o + from + i - 1) % N
  <2>1. CASE m >= 0
    <3>1. m + k - N + 1 \in 1 .. count  BY <1>1, <1>4, <1>8, <2>1
    <3>2. cell = Wrapped(o + from + (m + k - N + 1) - 1)
      BY <1>1, <1>4, <1>6, <1>8, <2>1 DEF Wrapped
    <3>3. cell = (o + from + (m + k - N + 1) - 1) % N  BY <1>7, <3>1, <3>2
    <3> QED  BY <3>1, <3>3
  <2>2. CASE m < 0
    <3>1. k + 1 \in 1 .. count  BY <1>1, <1>4, <1>8, <2>2
    <3>2. cell = Wrapped(o + from + (k + 1) - 1)
      BY <1>1, <1>4, <1>6, <1>8, <2>2 DEF Wrapped
    <3>3. cell = (o + from + (k + 1) - 1) % N  BY <1>7, <3>1, <3>2
    <3> QED  BY <3>1, <3>3
  <2> QED  BY <2>1, <2>2
<1>9. ASSUME m + k \in 0 .. N - 1, NEW i \in 1 .. count
      PROVE  cell # (o + from + i - 1) % N
  <2>1. cell # Wrapped(o + from + i - 1)  BY <1>1, <1>4, <1>6, <1>9 DEF Wrapped
  <2> QED  BY <1>7, <2>1
<1> QED  BY <1>5, <1>8, <1>9

(* A cell is cleared exactly if its voxel has entered the cube; of the     *)
(* color volume at least those are.                                        *)
LEMMA ClearsEntering ==
    ASSUME VolumeInv, NEW s \in Offsets, NEW last \in BOOLEAN, Shift(s, last), NEW w \in Space'
    PROVE  /\ w \notin Space <=>
                \/ InBlackZone(TsdfBounds(origin[1], s[1]), Home(w)[1])
                \/ InBlackZone(TsdfBounds(origin[2], s[2]), Home(w)[2])
                \/ InRedZone(s[3], Home(w)[3])
           /\ w \notin Space =>
                \/ InBlackZone(ColorBounds(origin[1], s[1]), Home(w)[1])
                \/ InBlackZone(ColorBounds(origin[2], s[2]), Home(w)[2])
                \/ InRedZone(s[3], Home(w)[3])
<1> DEFINE k(a) == w[a] - global'[a]
           Enters(a) == s[a] + k(a) \notin 0 .. N - 1
<1>1. N \in Nat \ {0, 1}  BY VolumeAssumption
<1>2. /\ w \in Points
      /\ \A a \in Axis :
           /\ w[a] \in global'[a] .. global'[a] + N - 1
           /\ s[a] \in 1 - N .. N - 1
           /\ global'[a] = global[a] + s[a] /\ global[a] \in Int
           /\ origin[a] = global[a] % N
      /\ w \in Space <=> \A a \in Axis : w[a] \in global[a] .. global[a] + N - 1
  BY MovedVoxel
<1>3. \A a \in Axis :
        /\ k(a) \in 0 .. N - 1 /\ global[a] + s[a] + k(a) = w[a]
        /\ Enters(a) <=> w[a] \notin global[a] .. global[a] + N - 1
  BY <1>1, <1>2 DEF Points
<1>4. \A a \in Axis : Home(w)[a] = (global[a] + s[a] + k(a)) % N  BY <1>3 DEF Home
<1>5. w \notin Space <=> \E a \in Axis : Enters(a)  BY <1>2, <1>3
<1> HIDE DEF k
<1>6. \A a \in Axis :
        /\ InBlackZone(TsdfBounds(origin[a], s[a]), Home(w)[a]) <=> Enters(a)
        /\ Enters(a) => InBlackZone(ColorBounds(origin[a], s[a]), Home(w)[a])
  <2> TAKE a \in Axis
  <2>1. /\ global[a] \in Int /\ s[a] \in 1 - N .. N - 1 /\ k(a) \in 0 .. N - 1
        /\ origin[a] = global[a] % N /\ Home(w)[a] = (global[a] + s[a] + k(a)) % N
    BY <1>2, <1>3, <1>4
  <2> QED  BY <2>1, TsdfPlanes, ColorPlanes
<1>7. InRedZone(s[3], Home(w)[3]) <=> Enters(3)
  <2>1. 3 \in Axis  BY DEF Axis
  <2>2. /\ global[3] \in Int /\ s[3] \in 1 - N .. N - 1 /\ k(3) \in 0 .. N - 1
        /\ origin[3] = global[3] % N /\ Home(w)[3] = (global[3] + s[3] + k(3)) % N
    BY <1>2, <1>3, <1>4, <2>1
  <2> QED  BY <2>2, RedPlanes
<1> HIDE DEF Enters
<1>8. (\E a \in Axis : Enters(a)) <=> Enters(1) \/ Enters(2) \/ Enters(3)  BY DEF Axis
<1>9. 1 \in Axis /\ 2 \in Axis  BY DEF Axis
<1> QED  BY <1>5, <1>6, <1>7, <1>8, <1>9

(* What is pushed to the cell of a voxel of the new cube is what the world *)
(* model knows of that voxel.                                              *)
LEMMA PushesHome ==
    ASSUME VolumeInv, NEW s \in Offsets, NEW last \in BOOLEAN, Shift(s, last),
           NEW e \in ExistingData(s)
    PROVE  /\ PushCell(ShiftedOrigin(s), s, e.at) = Home(e.at)
           /\ e \in world
           /\ \A w \in Space' : Home(w) = Home(e.at) => w = e.at
<1> DEFINE o == ShiftedOrigin(s)
<1>1. N \in Nat \ {0, 1}  BY VolumeAssumption
<1>2. e \in world /\ e.at \in Points
  BY DEF ExistingData, VolumeInv, TypeOK, Place, Points
<1>3. /\ global \in Points /\ global' \in Points /\ global' = Plus(global, s)
      /\ \A a \in Axis : s[a] \in Int /\ global'[a] = global[a] + s[a]
  BY VolumeAssumption DEF VolumeInv, TypeOK, Shift, Plus, Points, Axis
<1>4. \A a \in Axis : e.at[a] \in Int /\ e.at[a] \in global'[a] .. global'[a] + N - 1
  BY <1>1, <1>2, <1>3 DEF ExistingData, Points
<1>5. \A a \in Axis : o[a] = global'[a] % N
  BY <1>3, OriginShifts DEF Home
<1>6. ASSUME NEW a \in Axis
      PROVE  (e.at[a] - global'[a] + o[a]) % N = e.at[a] % N
  <2> DEFINE k == e.at[a] - global'[a]
  <2>1. global'[a] \in Int /\ k \in 1 - N .. N - 1 /\ k \in 0 .. N - 1 /\ global'[a] + k = e.at[a]
    BY <1>1, <1>3, <1>4 DEF Points
  <2> HIDE DEF k
  <2>2. e.at[a] % N = Wrapped(o[a] + k)  BY <1>5, <2>1, WrapsOnce
  <2>3. o[a] \in 0 .. N - 1 /\ N \in Nat \ {0}  BY <1>1, <1>5, <2>1, Division
  <2>4. o[a] % N = o[a] /\ o[a] \in Int  BY <2>3, WithinBuffer
  <2>5. (o[a] + k) % N = Wrapped((o[a] % N) + k)  BY <2>1, <2>4, WrapsOnce
  <2>6. (k + o[a]) % N = e.at[a] % N  BY <2>1, <2>2, <2>4, <2>5
  <2> QED  BY <2>6 DEF k
<1>7. PushCell(o, s, e.at) = Home(e.at)
  BY <1>3, <1>6 DEF PushCell, Home, Minus
<1>8. ASSUME NEW w \in Space', Home(w) = Home(e.at) PROVE w = e.at
  <2>1. w \in Points /\ \A a \in Axis : w[a] \in global'[a] .. global'[a] + N - 1  BY MovedVoxel
  <2> QED  BY <1>2, <1>3, <1>4, <1>8, <2>1, HomeInjective
<1> QED  BY <1>2, <1>7, <1>8

(* One shift keeps what stays, and empties what enters.                    *)
LEMMA ShiftSlides ==
    ASSUME VolumeInv, NEW s \in Offsets, NEW last \in BOOLEAN, Shift(s, last), NEW w \in Space'
    PROVE  \/ tsdf'[Home(w)] = IF w \in Space THEN tsdf[Home(w)] ELSE Empty
           \/ \E e \in world : e.at = w /\ e.is = tsdf'[Home(w)]
<1> DEFINE o == ShiftedOrigin(s)
           cleared == Cleared(tsdf, TsdfBounds(origin[1], s[1]), TsdfBounds(origin[2], s[2]), s[3])
<1>1. PICK winners \in SUBSET (IF extractWorld THEN ExistingData(s) ELSE {}) :
          tsdf' = Pushed(cleared, o, s, winners)
  BY DEF Shift
<1>2. winners \subseteq ExistingData(s)  OBVIOUS
<1>3. Home(w) \in Cell  BY MovedVoxel
<1>4. cleared[Home(w)] = IF w \in Space THEN tsdf[Home(w)] ELSE Empty
  BY <1>3, ClearsEntering DEF Cleared
<1> HIDE DEF cleared
<1>5. CASE \E e \in winners : PushCell(o, s, e.at) = Home(w)
  <2> DEFINE e == CHOOSE e \in winners : PushCell(o, s, e.at) = Home(w)
  <2>1. e \in winners /\ PushCell(o, s, e.at) = Home(w)  BY <1>5
  <2>2. tsdf'[Home(w)] = e.is  BY <1>1, <1>3, <1>5 DEF Pushed
  <2> HIDE DEF e
  <2>3. e \in world /\ e.at = w  BY <1>2, <2>1, PushesHome
  <2> QED  BY <2>2, <2>3
<1>6. CASE ~\E e \in winners : PushCell(o, s, e.at) = Home(w)
  <2>1. tsdf'[Home(w)] = cleared[Home(w)]  BY <1>1, <1>3, <1>6 DEF Pushed
  <2> QED  BY <1>4, <2>1
<1> QED  BY <1>5, <1>6

(* A step that changes the number of shifts is one of performShift().      *)
LEMMA MovedByShift ==
    ASSUME VolumeInv, Next, Moved
    PROVE  \E s \in Offsets, last \in BOOLEAN : Shift(s, last)
BY DEF Next, Moved, Integrate, Reset

(* A shift keeps what stays in the cube and empties what enters it.        *)
THEOREM SlidesTheCube == Spec => CubeSlides
<1> DEFINE Slides(w) ==
        \/ tsdf'[Home(w)] = IF w \in Space THEN tsdf[Home(w)] ELSE Empty
        \/ \E e \in world : e.at = w /\ e.is = tsdf'[Home(w)]
<1>1. VolumeInv /\ [Next]_vars => [Moved => \A w \in Space' : Slides(w)]_vars
  <2> SUFFICES ASSUME VolumeInv, Next, Moved PROVE \A w \in Space' : Slides(w)
    BY DEF vars, Moved
  <2> QED  BY MovedByShift, ShiftSlides
<1> QED  BY <1>1, VolumeInvariant, PTL DEF Spec, CubeSlides

(* No voxel that enters the cube has the color of one that has left it.    *)
THEOREM ClearsColor == Spec => NoStaleColor
<1>1. ASSUME VolumeInv, NEW s \in Offsets, NEW last \in BOOLEAN, Shift(s, last),
             NEW w \in Space' \ Space
      PROVE  color'[Home(w)] = Empty
  <2>1. Home(w) \in Cell  BY <1>1, MovedVoxel
  <2>2. color' = Cleared(color, ColorBounds(origin[1], s[1]), ColorBounds(origin[2], s[2]), s[3])
    BY <1>1 DEF Shift
  <2>3. \/ InBlackZone(ColorBounds(origin[1], s[1]), Home(w)[1])
        \/ InBlackZone(ColorBounds(origin[2], s[2]), Home(w)[2])
        \/ InRedZone(s[3], Home(w)[3])
    BY <1>1, ClearsEntering
  <2> QED  BY <2>1, <2>2, <2>3 DEF Cleared
<1>2. VolumeInv /\ [Next]_vars =>
        [Moved => \A w \in Space' \ Space : color'[Home(w)] = Empty]_vars
  <2> SUFFICES ASSUME VolumeInv, Next, Moved
               PROVE  \A w \in Space' \ Space : color'[Home(w)] = Empty
    BY DEF vars, Moved
  <2> QED  BY <1>1, MovedByShift
<1> QED  BY <1>2, VolumeInvariant, PTL DEF Spec, NoStaleColor

(* One shift extracts what leaves the cube.                                *)
LEMMA ShiftExtracts ==
    ASSUME VolumeInv, NEW s \in Offsets, NEW last \in BOOLEAN, Shift(s, last), extractWorld,
           NEW r \in Cell, Fetch(tsdf, r) # Empty, Plus(global, r) \notin Space'
    PROVE  [at |-> Plus(global, r), is |-> Fetch(tsdf, r)] \in world'
<1>1. N \in Nat \ {0, 1}  BY VolumeAssumption
<1>2. \A a \in Axis :
        /\ s[a] \in 1 - N .. N - 1 /\ r[a] \in 0 .. N - 1 /\ global[a] \in Int
        /\ global'[a] = global[a] + s[a] /\ origin[a] \in 0 .. N - 1
  BY VolumeAssumption DEF VolumeInv, TypeOK, Shift, Plus, Cell, Axis
<1>3. \E a \in Axis : r[a] - s[a] \notin 0 .. N - 1
  <2> SUFFICES ASSUME \A a \in Axis : r[a] - s[a] \in 0 .. N - 1 PROVE FALSE  OBVIOUS
  <2> DEFINE q == [a \in Axis |-> r[a] - s[a]]
  <2>1. q \in Cell  BY DEF Cell
  <2>2. \A a \in Axis : global'[a] + q[a] = global[a] + r[a]  BY <1>1, <1>2
  <2>3. Plus(global', q) = Plus(global, r)  BY <2>2 DEF Plus
  <2> QED  BY <2>1, <2>3 DEF Space
<1>4. PICK a \in Axis : r[a] - s[a] \notin 0 .. N - 1  BY <1>3
<1>5. LET b == SliceBounds(origin[a], IF last THEN N - 1 ELSE s[a]) IN r[a] \in b[1] .. b[2]
  BY <1>2, <1>4, SlicePlanes
<1>6. [at |-> Plus(global, r), is |-> Fetch(tsdf, r)] \in Slice(s, last)
  BY <1>4, <1>5 DEF Slice
<1> QED  BY <1>6 DEF Shift

(* What leaves the cube goes to the world model.                           *)
THEOREM ExtractsLeaving == Spec => LeavingExtracted
<1> DEFINE Extracted ==
        \A r \in Cell :
            Fetch(tsdf, r) # Empty /\ Plus(global, r) \notin Space' =>
                [at |-> Plus(global, r), is |-> Fetch(tsdf, r)] \in world'
<1>1. VolumeInv /\ [Next]_vars => [Moved /\ extractWorld => Extracted]_vars
  <2> SUFFICES ASSUME VolumeInv, Next, Moved, extractWorld PROVE Extracted
    BY DEF vars, Moved
  <2> QED  BY MovedByShift, ShiftExtracts
<1> QED  BY <1>1, VolumeInvariant, PTL DEF Spec, LeavingExtracted

(* One shift restores what the world model knows of an entering voxel.     *)
LEMMA ShiftRestores ==
    ASSUME VolumeInv, NEW s \in Offsets, NEW last \in BOOLEAN, Shift(s, last), extractWorld,
           NEW e \in world, e.at \in Space' \ Space,
           \A a \in Axis : e.at[a] < global'[a] + N - 1
    PROVE  \E f \in world : f.at = e.at /\ f.is = tsdf'[Home(e.at)]
<1> DEFINE o == ShiftedOrigin(s)
           Cells(set) == {PushCell(o, s, f.at) : f \in set}
<1>1. N \in Nat \ {0, 1}  BY VolumeAssumption
<1>2. /\ e.at \in Points /\ Home(e.at) \in Cell
      /\ \A a \in Axis :
           /\ e.at[a] \in global'[a] .. global'[a] + N - 1
           /\ s[a] \in 1 - N .. N - 1
           /\ global'[a] = global[a] + s[a] /\ global[a] \in Int
      /\ ~\A a \in Axis : e.at[a] \in global[a] .. global[a] + N - 1
  BY MovedVoxel
<1>3. e \in ExistingData(s)
  <2>1. \A a \in Axis : e.at[a] \in Int  BY <1>2 DEF Points
  <2>2. \A a \in Axis : e.at[a] \in global[a] + s[a] .. global[a] + s[a] + N - 2
    BY <1>1, <1>2, <2>1
  <2>3. PICK a \in Axis : e.at[a] \notin global[a] .. global[a] + N - 1  BY <1>2
  <2>4. IF s[a] >= 0 THEN e.at[a] >= global[a] + N - 2 ELSE e.at[a] < global[a]
    BY <1>1, <1>2, <2>1, <2>2, <2>3
  <2> QED  BY <2>2, <2>4 DEF ExistingData
<1>4. PICK winners \in SUBSET ExistingData(s) :
          /\ Cells(winners) = Cells(ExistingData(s))
          /\ tsdf' = Pushed(Cleared(tsdf, TsdfBounds(origin[1], s[1]),
                                    TsdfBounds(origin[2], s[2]), s[3]), o, s, winners)
  BY DEF Shift
<1>5. \E f \in winners : PushCell(o, s, f.at) = Home(e.at)
  <2>1. Home(e.at) \in Cells(ExistingData(s))  BY <1>3, PushesHome
  <2> QED  BY <1>4, <2>1
<1> DEFINE f == CHOOSE f \in winners : PushCell(o, s, f.at) = Home(e.at)
<1>6. f \in winners /\ PushCell(o, s, f.at) = Home(e.at)  BY <1>5
<1>7. tsdf'[Home(e.at)] = f.is  BY <1>2, <1>4, <1>5 DEF Pushed
<1> HIDE DEF f
<1>8. f \in world /\ e.at = f.at  BY <1>4, <1>6, PushesHome
<1> QED  BY <1>7, <1>8

(* What the world model knows of a voxel comes back with the voxel.        *)
THEOREM RestoresWorld == Spec => WorldRestored
<1> DEFINE Restored ==
        \A e \in world :
            e.at \in Space' \ Space /\ (\A a \in Axis : e.at[a] < global'[a] + N - 1) =>
                \E f \in world : f.at = e.at /\ f.is = tsdf'[Home(e.at)]
<1>1. VolumeInv /\ [Next]_vars => [Moved /\ extractWorld => Restored]_vars
  <2> SUFFICES ASSUME VolumeInv, Next, Moved, extractWorld PROVE Restored
    BY DEF vars, Moved
  <2> QED  BY MovedByShift, ShiftRestores
<1> QED  BY <1>1, VolumeInvariant, PTL DEF Spec, WorldRestored

-----------------------------------------------------------------------------
(* Division gives the only quotient.                                       *)
LEMMA Quotient ==
    ASSUME NEW n \in Nat \ {0}, NEW q \in Int, NEW r \in 0 .. n - 1
    PROVE  (n * q + r) \div n = q
OBVIOUS

(* With the origin at 0 on x and y the end of a row is never crossed: the  *)
(* linear address wraps along z alone, as the slices do.                   *)
LEMMA LinearAddress ==
    ASSUME NEW o \in Cell, o[1] = 0, o[2] = 0, NEW r \in Cell
    PROVE  CellAt(Address(r) + Address(o)) = [a \in Axis |-> (r[a] + o[a]) % N]
<1> DEFINE x == r[1]
           y == r[2]
           z == r[3] + o[3]
           d == Address(r) + Address(o)
<1>1. /\ N \in Nat \ {0} /\ N * N \in Nat \ {0} /\ z \in Int /\ r[3] \in Int /\ o[3] \in Int
      /\ x \in 0 .. N - 1 /\ y \in 0 .. N - 1
  BY VolumeAssumption DEF Cell, Axis
<1>2. N * N * r[3] + N * N * o[3] = N * N * z  BY <1>1
<1>3. d = x + N * y + N * N * z  BY <1>1, <1>2 DEF Address
<1>4. r[1] + o[1] = x /\ r[2] + o[2] = y /\ r[3] + o[3] = z  BY <1>1
<1> HIDE DEF x, y, z, d
<1>5. d = N * (y + N * z) + x
  <2>1. N * (y + N * z) = N * y + N * N * z  BY <1>1
  <2> QED  BY <1>1, <1>3, <2>1
<1>6. d % N = x /\ d \div N = y + N * z
  <2>1. y + N * z \in Int  BY <1>1
  <2> QED  BY <1>1, <1>5, <2>1, Remainder, Quotient
<1>7. (d \div N) % N = y
  <2>1. y + N * z = N * z + y  BY <1>1
  <2> QED  BY <1>1, <1>6, <2>1, Remainder
<1>8. d \div (N * N) = z
  <2>1. N * y \in Int /\ N * y <= N * (N - 1) /\ N * y >= 0  BY <1>1
  <2>2. N * (N - 1) = N * N - N  BY <1>1
  <2>3. x + N * y \in 0 .. N * N - 1  BY <1>1, <2>1, <2>2
  <2>4. d = (N * N) * z + (x + N * y)  BY <1>1, <1>3, <2>1
  <2> HIDE DEF x
  <2> QED  BY <1>1, <2>3, <2>4, Quotient
<1>9. CellAt(d) = <<x, y, z % N>>  BY <1>6, <1>7, <1>8 DEF CellAt
<1>10. x % N = x /\ y % N = y  BY <1>1, WithinBuffer
<1>11. <<x, y, z % N>> = [a \in Axis |-> (r[a] + o[a]) % N]
  <2>1. \A a \in Axis : <<x, y, z % N>>[a] = (r[a] + o[a]) % N
    <3> TAKE a \in Axis
    <3>1. CASE a = 1  BY <1>4, <1>10, <3>1
    <3>2. CASE a = 2  BY <1>4, <1>10, <3>2
    <3>3. CASE a = 3  BY <1>4, <3>3
    <3> QED  BY <3>1, <3>2, <3>3 DEF Axis
  <2> QED  BY <2>1 DEF Axis
<1> QED  BY <1>9, <1>11 DEF d

(* What is fetched for voxel r of the cube at g is its own cell then.      *)
LEMMA FetchesHome ==
    ASSUME NEW g \in Points, NEW o \in Cell, o = Home(g), o[1] = 0, o[2] = 0, NEW r \in Cell
    PROVE  CellAt(Address(r) + Address(o)) = Home(Plus(g, r))
<1>1. ASSUME NEW a \in Axis PROVE (r[a] + o[a]) % N = (g[a] + r[a]) % N
  <2>1. /\ N \in Nat \ {0, 1} /\ g[a] \in Int /\ r[a] \in 0 .. N - 1 /\ r[a] \in 1 - N .. N - 1
        /\ o[a] \in 0 .. N - 1 /\ o[a] = g[a] % N
    BY VolumeAssumption DEF Points, Cell, Home
  <2> DEFINE h == g[a]
             k == r[a]
             i == o[a]
  <2>2. /\ h \in Int /\ k \in 1 - N .. N - 1 /\ i \in Int /\ i \in 0 .. N - 1 /\ i = h % N
    BY <2>1
  <2> HIDE DEF h, k, i
  <2>3. (h + k) % N = Wrapped(i + k)  BY <2>2, WrapsOnce
  <2>4. i % N = i  BY <2>2, WithinBuffer
  <2>5. (i + k) % N = Wrapped(i + k)  BY <2>2, <2>4, WrapsOnce
  <2>6. i + k = k + i  BY <2>2
  <2>7. (k + i) % N = (h + k) % N  BY <2>3, <2>5, <2>6
  <2> QED  BY <2>7 DEF h, k, i
<1> QED  BY <1>1, LinearAddress DEF Home, Plus

(* While the cube moves along z it is read where it was written.           *)
THEOREM ReadsWritten == Spec => ReadsFollow
<1> DEFINE Follows(r) ==
        LET w == Plus(global', r)
            now == Fetch(tsdf, r)'
        IN  \/ now = IF w \in Space THEN Fetch(tsdf, Minus(w, global)) ELSE Empty
            \/ \E e \in world : e.at = w /\ e.is = now
<1>1. ASSUME VolumeInv, VolumeInv', NEW s \in Offsets, NEW last \in BOOLEAN, Shift(s, last), AlongZ,
             NEW r \in Cell
      PROVE  Follows(r)
  <2> DEFINE w == Plus(global', r)
  <2>1. w \in Space'  BY DEF Space
  <2>2. /\ origin \in Cell /\ global \in Points /\ origin = Home(global)
        /\ origin' \in Cell /\ global' \in Points /\ origin' = Home(global')
    BY <1>1 DEF VolumeInv, TypeOK, OriginCongruent, Home, Points
  <2>3. origin[1] = 0 /\ origin[2] = 0 /\ origin'[1] = 0 /\ origin'[2] = 0  BY <1>1 DEF AlongZ
  <2>4. Fetch(tsdf, r)' = tsdf'[Home(w)]
    BY <2>2, <2>3, FetchesHome DEF Fetch, Fetched
  <2>5. ASSUME w \in Space PROVE Fetch(tsdf, Minus(w, global)) = tsdf[Home(w)]
    <3>1. PICK q \in Cell : w = Plus(global, q)  BY <2>5 DEF Space
    <3>2. \A a \in Axis : w[a] - global[a] = q[a]
      BY <2>2, <3>1, VolumeAssumption DEF Plus, Cell, Points
    <3>3. Minus(w, global) = q  BY <3>2 DEF Minus, Cell
    <3> QED  BY <2>2, <2>3, <3>1, <3>3, FetchesHome DEF Fetch, Fetched
  <2>6. \/ tsdf'[Home(w)] = IF w \in Space THEN tsdf[Home(w)] ELSE Empty
        \/ \E e \in world : e.at = w /\ e.is = tsdf'[Home(w)]
    BY <1>1, <2>1, ShiftSlides
  <2> QED  BY <2>4, <2>5, <2>6
<1>2. VolumeInv /\ VolumeInv' /\ [Next]_vars => [Moved /\ AlongZ => \A r \in Cell : Follows(r)]_vars
  <2> SUFFICES ASSUME VolumeInv, VolumeInv', Next, Moved, AlongZ PROVE \A r \in Cell : Follows(r)
    BY DEF vars, Moved
  <2> QED  BY <1>1, MovedByShift
<1> QED  BY <1>2, VolumeInvariant, PTL DEF Spec, ReadsFollow

-----------------------------------------------------------------------------
(* A cube that is only ever moved along z: each cell holds nothing or what *)
(* was measured of the voxel the slices keep there, and the world model    *)
(* knows each voxel as itself.                                             *)
Straight == \A s \in Offsets : s[1] = 0 /\ s[2] = 0

AtHome(mem) == \A w \in Space : mem[Home(w)] \in {Empty, w}

StraightInv ==
    /\ VolumeInv
    /\ global[1] = 0 /\ global[2] = 0
    /\ AtHome(tsdf) /\ AtHome(color)
    /\ \A e \in world : e.is = e.at

LEMMA SpaceVoxel ==
    ASSUME global \in Points, NEW w \in Space
    PROVE  /\ w \in Points /\ Home(w) \in Cell
           /\ \A a \in Axis : w[a] \in global[a] .. global[a] + N - 1
<1>1. N \in Nat \ {0}  BY VolumeAssumption
<1>2. PICK r \in Cell : w = Plus(global, r)  BY DEF Space
<1>3. \A a \in Axis : global[a] \in Int /\ r[a] \in 0 .. N - 1 /\ w[a] = global[a] + r[a]
  BY <1>2 DEF Plus, Cell, Points
<1>4. \A a \in Axis : w[a] \in Int /\ w[a] \in global[a] .. global[a] + N - 1  BY <1>1, <1>3
<1>5. w \in Points  BY <1>2, <1>3, <1>4 DEF Points, Plus
<1>6. \A i \in Int : i % N \in 0 .. N - 1  BY <1>1, Division
<1> QED  BY <1>4, <1>5, <1>6 DEF Home, Cell

(* There, linear addresses are the slices'. *)
LEMMA StraightFetch ==
    ASSUME VolumeInv, global[1] = 0, global[2] = 0, NEW r \in Cell
    PROVE  /\ global \in Points
           /\ Plus(global, r) \in Space
           /\ Fetched(r) = Home(Plus(global, r))
<1>1. origin \in Cell /\ global \in Points /\ origin = Home(global)
  BY DEF VolumeInv, TypeOK, OriginCongruent, Home, Points
<1>2. origin[1] = 0 /\ origin[2] = 0
  <2>1. 0 % N = 0  BY VolumeAssumption
  <2> QED  BY <1>1, <2>1 DEF Home, Axis
<1>3. Fetched(r) = Home(Plus(global, r))  BY <1>1, <1>2, FetchesHome DEF Fetched
<1> QED  BY <1>1, <1>3 DEF Space

LEMMA StraightSeen ==
    ASSUME VolumeInv, global[1] = 0, global[2] = 0, NEW seen \in Views,
           NEW mem \in [Cell -> Place], AtHome(mem), NEW w \in Space
    PROVE  Seen(mem, seen)[Home(w)] \in {Empty, w}
<1>1. seen \subseteq Cell /\ global \in Points
  BY VolumeAssumption DEF Cell, Axis, VolumeInv, TypeOK, Points
<1>2. Home(w) \in Cell /\ w \in Points  BY <1>1, SpaceVoxel
<1>3. CASE \E r \in seen : Fetched(r) = Home(w)
  <2> DEFINE r == CHOOSE r \in seen : Fetched(r) = Home(w)
  <2>1. r \in seen /\ Fetched(r) = Home(w)  BY <1>3
  <2>2. Seen(mem, seen)[Home(w)] = Plus(global, r)  BY <1>2, <1>3 DEF Seen
  <2> HIDE DEF r
  <2>3. Plus(global, r) \in Space /\ Home(Plus(global, r)) = Home(w)
    BY <1>1, <2>1, StraightFetch
  <2>4. Plus(global, r) = w  BY <1>1, <2>3, SpaceVoxel, HomeInjective
  <2> QED  BY <2>2, <2>4
<1>4. CASE ~\E r \in seen : Fetched(r) = Home(w)
  BY <1>2, <1>4 DEF Seen, AtHome
<1> QED  BY <1>3, <1>4

LEMMA StraightShift ==
    ASSUME Straight, StraightInv, VolumeInv', NEW s \in Offsets, NEW last \in BOOLEAN, Shift(s, last)
    PROVE  StraightInv'
<1>1. global'[1] = 0 /\ global'[2] = 0
  <2>1. global' = Plus(global, s) /\ s[1] = 0 /\ s[2] = 0  BY DEF Shift, Straight
  <2> QED  BY <2>1 DEF Plus, Axis, StraightInv
<1>2. ASSUME NEW w \in Space' PROVE tsdf'[Home(w)] \in {Empty, w}
  <2>1. \/ tsdf'[Home(w)] = IF w \in Space THEN tsdf[Home(w)] ELSE Empty
        \/ \E e \in world : e.at = w /\ e.is = tsdf'[Home(w)]
    BY ShiftSlides DEF StraightInv
  <2> QED  BY <2>1 DEF StraightInv, AtHome
<1>3. ASSUME NEW w \in Space' PROVE color'[Home(w)] \in {Empty, w}
  <2>1. Home(w) \in Cell  BY MovedVoxel DEF StraightInv
  <2>2. color' = Cleared(color, ColorBounds(origin[1], s[1]), ColorBounds(origin[2], s[2]), s[3])
    BY DEF Shift
  <2>3. CASE w \in Space
    <3>1. color[Home(w)] \in {Empty, w}  BY <2>3 DEF StraightInv, AtHome
    <3> QED  BY <2>1, <2>2, <3>1 DEF Cleared
  <2>4. CASE w \notin Space
    <3>1. \/ InBlackZone(ColorBounds(origin[1], s[1]), Home(w)[1])
          \/ InBlackZone(ColorBounds(origin[2], s[2]), Home(w)[2])
          \/ InRedZone(s[3], Home(w)[3])
      BY <2>4, ClearsEntering DEF StraightInv
    <3> QED  BY <2>1, <2>2, <3>1 DEF Cleared
  <2> QED  BY <2>3, <2>4
<1>4. ASSUME NEW e \in world' PROVE e.is = e.at
  <2>1. e \in world \/ e \in Slice(s, last)  BY DEF Shift
  <2>2. CASE e \in Slice(s, last)
    <3>1. PICK r \in Cell : /\ e = [at |-> Plus(global, r), is |-> Fetch(tsdf, r)]
                            /\ Fetch(tsdf, r) # Empty
      BY <2>2 DEF Slice
    <3>2. Fetch(tsdf, r) \in {Empty, Plus(global, r)}
      BY StraightFetch DEF Fetch, StraightInv, AtHome
    <3> QED  BY <3>1, <3>2
  <2> QED  BY <2>1, <2>2 DEF StraightInv
<1> QED  BY <1>1, <1>2, <1>3, <1>4 DEF StraightInv, AtHome

(* Empty volumes with the origin at 0, at the start and after a reset.     *)
LEMMA StraightEmpty ==
    ASSUME VolumeInv, tsdf = [c \in Cell |-> Empty], color = [c \in Cell |-> Empty],
           global = [a \in Axis |-> 0]
    PROVE  global[1] = 0 /\ global[2] = 0 /\ AtHome(tsdf) /\ AtHome(color)
<1>1. global \in Points  BY DEF VolumeInv, TypeOK, Points
<1>2. \A w \in Space : Home(w) \in Cell  BY <1>1, SpaceVoxel
<1> QED  BY <1>2 DEF AtHome, Axis

(* Where the cube is never moved along x or y both volumes are read back as *)
(* they were measured, through any shifts, extractions to the world model, *)
(* points that come back from it, and resets: what ReadBack asks, and what *)
(* is lost with the first plane of another axis.                           *)
THEOREM ReadsBackStraight ==
    ASSUME Straight
    PROVE  Spec => []ReadBack /\ [](\A r \in Cell : Fetch(color, r) \in {Empty, Plus(global, r)})
<1>1. Init => StraightInv
  BY InitVolume, StraightEmpty DEF Init, StraightInv
<1>2. StraightInv /\ [Next]_vars => StraightInv'
  <2> SUFFICES ASSUME StraightInv, [Next]_vars PROVE StraightInv'  OBVIOUS
  <2>1. CASE UNCHANGED vars
    BY <2>1 DEF vars, StraightInv, VolumeInv, TypeOK, OriginCongruent, Home, AtHome, Space, Plus
  <2>2. ASSUME NEW seen \in Views, Integrate(seen) PROVE StraightInv'
    <3>1. VolumeInv'  BY <2>2, IntegrateVolume DEF StraightInv
    <3>2. Space' = Space /\ global' = global /\ world' = world
      BY <2>2 DEF Integrate, Space, Plus
    <3>3. tsdf' = Seen(tsdf, seen) /\ color' = Seen(color, seen)  BY <2>2 DEF Integrate
    <3>4. \A w \in Space : tsdf'[Home(w)] \in {Empty, w} /\ color'[Home(w)] \in {Empty, w}
      BY <3>3, StraightSeen DEF StraightInv, VolumeInv, TypeOK
    <3> QED  BY <3>1, <3>2, <3>4 DEF StraightInv, AtHome
  <2>3. ASSUME NEW s \in Offsets, NEW last \in BOOLEAN, Shift(s, last) PROVE StraightInv'
    BY <2>3, ShiftVolume, StraightShift DEF StraightInv
  <2>4. CASE Reset
    <3>1. VolumeInv' /\ world' = world  BY <2>4, ResetVolume DEF StraightInv, Reset
    <3>2. global'[1] = 0 /\ global'[2] = 0  BY <2>4 DEF Reset, Axis
    <3>3. ASSUME NEW w \in Space' PROVE Home(w) \in Cell
      <4>1. \A i \in Int : i % N \in 0 .. N - 1  BY VolumeAssumption, Division
      <4>2. PICK r \in Cell : w = Plus(global', r)  BY DEF Space
      <4>3. \A a \in Axis : w[a] \in Int  BY <2>4, <4>2, VolumeAssumption DEF Reset, Plus, Cell
      <4> QED  BY <4>1, <4>3 DEF Home, Cell
    <3> QED  BY <2>4, <3>1, <3>2, <3>3 DEF StraightInv, AtHome, Reset
  <2> QED  BY <2>1, <2>2, <2>3, <2>4 DEF Next
<1>3. StraightInv => ReadBack /\ \A r \in Cell : Fetch(color, r) \in {Empty, Plus(global, r)}
  BY StraightFetch DEF StraightInv, AtHome, ReadBack, Fetch
<1> QED  BY <1>1, <1>2, <1>3, PTL DEF Spec
=============================================================================
