------------------------- MODULE KinfuTrackerProofs -------------------------
(***************************************************************************)
(* Proofs about the tracker: its poses, the file written before the cube   *)
(* moves, the fragments of SLAC, what their optimizer copies and that it   *)
(* catches up with them, and how far the cube is from the camera, for runs *)
(* of any length, fragments of any size and any shifting distance.         *)
(***************************************************************************)
EXTENDS KinfuTracker, TLAPS

SlacPlaces == {"lock", "fragment", "pairs", "spawn"}   \* where only slac() takes the thread

(* What the application and the loop remember as flags. *)
FlagsOK ==
    /\ lastScan \in BOOLEAN /\ finished \in BOOLEAN
    /\ forceShift \in BOOLEAN /\ unsaved \in BOOLEAN

(* The poses and the time of the frames. *)
PosesInv ==
    /\ TypeOK
    /\ HasFrame => frames < MaxFrames
    /\ app = "given" => HasFlags
    /\ time = 0 => pose = InitPose
    /\ app \in {"idle", "frame", "given"} => time <= frames /\ PosesMatchTime
    /\ app \in SlacPlaces =>
        mode = "slac" /\ time > 0 /\ time + 1 <= frames /\ size = time + 1

(* A shift that is due finds the volume saved. *)
SavedInv == HasFrame /\ forceShift => ~unsaved

CameraInv == PosesInv /\ SavedInv

(* While a fragment grows, the second volume holds frames of its base.     *)
Growing ==
    mode = "slac" =>
        /\ app \in {"idle", "frame", "given"} =>
            volume2 = IF time % SlacNum = 0 THEN {} ELSE {base}
        /\ app \in SlacPlaces => (time + 1) % SlacNum = 0
        /\ app \in {"lock", "fragment"} => volume2 = {base}

(* Every fragment has its base, and the fourth starts the optimizer.       *)
FragmentInv ==
    /\ fragments \in Seq(SUBSET Int) /\ bases \in Seq(Int) /\ Len(fragments) = Len(bases)
    /\ Growing /\ FragmentOneBase
    /\ started = IF Len(fragments) > 4 \/ (Len(fragments) = 4 /\ app \notin {"pairs", "spawn"})
                 THEN 1 ELSE 0

(* The pairs of the first n fragments. *)
PairsUpTo(n) == UNION {PairsOf(i) : i \in 1 .. n}

(* The mutex is held where it should be, and protects the pairs of each    *)
(* fragment and what the optimizer copies.                                 *)
SnapshotInv ==
    /\ mutex = "tracker" <=> app \in {"fragment", "pairs"}
    /\ mutex = "optimizer" <=> optimizer \in {"copy", "bases", "write"}
    /\ started = 0 => optimizer = "off"
    /\ corres = PairsUpTo(IF app = "pairs" THEN Len(fragments) - 1 ELSE Len(fragments))
    /\ snapshot = [fragments |-> snapshot.fragments, bases |-> snapshot.bases,
                   corres |-> snapshot.corres]
    /\ optimizer = "bases" => snapshot.fragments = fragments /\ snapshot.corres = corres
    /\ SnapshotConsistent

(* The inductive invariant. *)
TrackerInv == CameraInv /\ FragmentInv /\ SnapshotInv

(* Before the first frame. *)
LEMMA InitTracker == Init => TrackerInv
<1> SUFFICES ASSUME Init PROVE TrackerInv  OBVIOUS
<1> USE TrackerAssumption DEF Init
<1>1. CameraInv
  <2>1. SavedInv  BY DEF SavedInv, HasFrame
  <2>2. FlagsOK  BY DEF FlagsOK
  <2>3. TypeOK  BY <2>2 DEF FlagsOK, TypeOK
  <2>4. PosesInv  BY <2>3 DEF PosesInv, HasFrame, PosesMatchTime, HasFrame, HasFlags, SlacPlaces
  <2> QED  BY <2>1, <2>4 DEF CameraInv
<1>2. 0 % SlacNum = 0  OBVIOUS
<1>3. FragmentInv  BY <1>2 DEF FragmentInv, Growing, FragmentOneBase, SlacPlaces
<1>4. PairsUpTo(0) = {}  BY DEF PairsUpTo
<1>5. SnapshotInv  BY <1>4 DEF SnapshotInv, SnapshotConsistent
<1> QED  BY <1>1, <1>3, <1>5 DEF TrackerInv

(* Keys, a frame that comes and one that does not.                         *)
LEMMA LoopTracks ==
    ASSUME TrackerInv, Keys \/ Execute
    PROVE  TrackerInv'
<1> USE TrackerAssumption
    DEF Keys, ForceShift, PerformLastScan, ExtractAndMeshWorld, Execute, cameraVars, loopVars,
        slacVars, sharedVars, optimizerVars
<1>1. CameraInv'
  <2> USE DEF TrackerInv, CameraInv, PosesInv
  <2>1. SavedInv'  BY DEF SavedInv, HasFrame
  <2>2. FlagsOK'  BY DEF FlagsOK, TypeOK
  <2>3. TypeOK'
    <3> USE DEF TypeOK
    <3>1. missed' \in 0 .. MaxMissed  OBVIOUS
    <3>2. app' \in {"idle", "frame", "given"}  OBVIOUS
    <3>3. /\ UNCHANGED <<frames, time, size, pose, initTrans, cube, mode>>
          /\ UNCHANGED <<base, volume2, mutex, started, optimizer, strayed>>
      OBVIOUS
    <3> HIDE DEF Keys, Execute
    <3> QED  BY <2>2, <3>1, <3>2, <3>3 DEF FlagsOK
  <2>4. PosesInv'  BY <2>3 DEF TypeOK, PosesMatchTime, HasFrame, HasFlags, SlacPlaces
  <2> QED  BY <2>1, <2>4
<1>2. /\ UNCHANGED <<slacVars, time, mode>>
      /\ app \in {"idle", "frame", "given"} /\ app' \in {"idle", "frame", "given"}
  OBVIOUS
<1>3. FragmentInv'  BY <1>2 DEF TrackerInv, FragmentInv, Growing, FragmentOneBase, SlacPlaces
<1>4. SnapshotInv'  BY <1>2 DEF TrackerInv, SnapshotInv, SnapshotConsistent
<1> QED  BY <1>1, <1>3, <1>4 DEF TrackerInv

(* No place is away from itself, and how far another is away. *)
LEMMA Distances ==
    ASSUME NEW p \in Int, NEW q \in Int
    PROVE  Distance(p, q) \in Nat /\ Distance(p, p) = 0
BY DEF Distance

(* A registration, or the pose of a frame, makes a pose of one. *)
LEMMA RegisteredPose ==
    ASSUME TypeOK, Registered
    PROVE  /\ pose' \in Int /\ cube' \in Int /\ strayed' \in Nat
           /\ app # "given" => \E s \in Steps : pose' = pose + s
<1>0. /\ pose \in Int /\ cube \in Int /\ strayed \in Nat /\ Steps \subseteq Int /\ 0 \in Steps
      /\ Given \subseteq Int
  BY TrackerAssumption DEF TypeOK
<1>1. PICK p \in NewPoses, registered \in BOOLEAN : SavePose(registered, p)
  BY DEF Registered
<1>2. p \in Int  BY <1>0, <1>1 DEF NewPoses
<1>3. pose' \in Int /\ pose' \in {pose, p}  BY <1>0, <1>1, <1>2 DEF SavePose
<1>4. cube' \in Int  BY <1>0, <1>3 DEF Registered, CheckForShift
<1>5. strayed' \in Nat
  <2>1. strayed' = Distance(pose', cube') \/ strayed' = 0 \/ strayed' = strayed  BY DEF Registered
  <2>2. Distance(pose', cube') \in Nat
    <3> HIDE <1>1, <1>2
    <3> QED  BY <1>3, <1>4, <1>0, Distances
  <2>3. 0 \in Nat  OBVIOUS
  <2> QED  BY <1>0, <2>1, <2>2, <2>3, Zenon
<1>6. app # "given" => \E s \in Steps : pose' = pose + s
  <2>1. CASE pose' = pose  BY <1>0, <2>1
  <2>2. CASE pose' = p /\ app # "given"
    <3>1. PICK s \in Steps : p = pose + s  BY <1>1, <2>2 DEF NewPoses
    <3> QED  BY <2>2, <3>1
  <2> QED  BY <1>3, <2>1, <2>2
<1> QED  BY <1>3, <1>4, <1>5, <1>6

(* A reset, to the first pose or to the one given for it. *)
LEMMA FirstPose ==
    ASSUME TypeOK, FirstFrame
    PROVE  \/ time = 0 /\ UNCHANGED <<initTrans, size, pose, cube, missed, strayed>>
           \/ \E p \in Int : ResetTo(p) /\ (app # "given" => p = InitPose)
BY TrackerAssumption DEF FirstFrame

LEMMA ResetPose ==
    ASSUME TypeOK, NEW p \in Int, ResetTo(p)
    PROVE  /\ size' = 1 /\ pose' = p /\ cube' = InitPose /\ missed' = 0
           /\ missed' \in 0 .. MaxMissed /\ initTrans' \in Int /\ cube' \in Int
           /\ strayed' = Distance(pose', cube') /\ strayed' \in Nat
BY TrackerAssumption, Distances DEF TypeOK, ResetTo

(* A frame that is lost, the first one, and those between. *)
LEMMA FrameTracks ==
    ASSUME TrackerInv, Track
    PROVE  TrackerInv'
<1> USE TrackerAssumption
<1> DEFINE Poses == /\ frames' \in 0 .. MaxFrames /\ time' \in 0 .. MaxFrames
                    /\ size' \in 1 .. MaxFrames + 1 /\ missed' \in 0 .. MaxMissed
                    /\ pose' \in Int /\ initTrans' \in Int /\ cube' \in Int /\ strayed' \in Nat
                    /\ time' = 0 => pose' = InitPose
                    /\ app' = "idle" => time' <= frames' /\ size' = IF time' = 0 THEN 1 ELSE time'
                    /\ app' = "lock" => /\ mode = "slac" /\ time' > 0
                                        /\ time' + 1 <= frames' /\ size' = time' + 1
<1>1. CameraInv'
  <2> USE DEF TrackerInv, CameraInv, PosesInv
  <2>1. app' \in {"idle", "lock"} /\ UNCHANGED <<mode, mutex, started, optimizer, lastScan>>
    BY DEF Track, FirstFrame, Lost, Frame, SlacFrame, Registered, loopVars, slacVars, optimizerVars
  <2>2. FlagsOK'
    <3> USE DEF FlagsOK, TypeOK
    <3>1. CASE FirstFrame  BY <3>1 DEF FirstFrame
    <3>2. CASE Lost  BY <3>2 DEF Lost
    <3>3. ASSUME Registered PROVE FlagsOK'
      <4>1. lastScan' = lastScan /\ finished' = finished  BY <3>3 DEF Registered, loopVars
      <4>2. unsaved' \in BOOLEAN
        <5>1. PICK integrate \in BOOLEAN : unsaved' = (unsaved \/ integrate)
          BY <3>3 DEF Registered
        <5> QED  BY <5>1
      <4>3. forceShift' \in BOOLEAN
        <5>1. forceShift' = FALSE \/ forceShift' = (Distance(pose', cube) > Threshold)
          BY <3>3 DEF Registered, CheckForShift
        <5>2. pose' \in Int /\ cube \in Int  BY <3>3, RegisteredPose DEF TypeOK
        <5> HIDE DEF Poses, TrackerInv
        <5>3. Distance(pose', cube) \in Int  BY <5>2 DEF Distance
        <5>4. (Distance(pose', cube) > Threshold) \in BOOLEAN
          <6>1. Threshold \in Int  OBVIOUS
          <6>2. \A d, t \in Int : (d > t) \in BOOLEAN  OBVIOUS
          <6> QED  BY <5>3, <6>1, <6>2, Zenon
        <5> QED  BY <5>1, <5>4, Zenon
      <4> QED  BY <4>1, <4>2, <4>3
    <3> QED  BY <3>1, <3>2, <3>3 DEF Track, Frame, SlacFrame
  <2>3. Poses
    <3> USE DEF TypeOK, PosesMatchTime
    <3>0. HasFrame => frames + 1 \in 1 .. MaxFrames /\ time <= frames  BY DEF HasFrame
    <3>1. CASE FirstFrame
      <4>1. /\ size' = 1 /\ missed' \in 0 .. MaxMissed /\ pose' \in Int /\ initTrans' \in Int
            /\ cube' \in Int /\ strayed' \in Nat
        <5>1. CASE time = 0 /\ UNCHANGED <<initTrans, size, pose, cube, missed, strayed>>
          BY <3>1, <5>1 DEF FirstFrame, HasFrame
        <5>2. CASE \E p \in Int : ResetTo(p)
          <6>1. PICK p \in Int : ResetTo(p)  BY <5>2
          <6> HIDE DEF Poses
          <6> QED  BY <6>1, ResetPose
        <5> QED  BY <3>1, <5>1, <5>2, FirstPose
      <4> QED  BY <3>0, <3>1, <4>1 DEF FirstFrame
    <3>2. CASE Lost
      <4>1. CASE ResetTo(InitPose) /\ time' = 0
        BY <3>0, <3>2, <4>1, ResetPose DEF Lost
      <4>2. CASE UNCHANGED cameraVars
        BY <3>0, <3>2, <4>2 DEF Lost, cameraVars, HasFrame
      <4> QED  BY <3>2, <4>1, <4>2 DEF Lost
    <3>3. ASSUME Registered
          PROVE  /\ frames' = frames + 1 /\ size' = size + 1 /\ time > 0 /\ HasFrame
                 /\ pose' \in Int /\ cube' \in Int /\ missed' \in 0 .. MaxMissed
                 /\ strayed' \in Nat /\ initTrans' = initTrans
      <4>1. /\ frames' = frames + 1 /\ size' = size + 1 /\ time > 0 /\ HasFrame
            /\ missed' \in {missed, 0} /\ initTrans' = initTrans
        BY <3>3 DEF Registered, SavePose, CheckForShift
      <4> HIDE DEF Poses
      <4> QED  BY <3>3, <4>1, RegisteredPose
    <3>4. CASE Frame  BY <3>0, <3>3, <3>4 DEF Frame, HasFrame
    <3>5. CASE SlacFrame  BY <3>0, <3>3, <3>5 DEF SlacFrame, HasFrame
    <3> QED  BY <3>1, <3>2, <3>4, <3>5 DEF Track
  <2>4. base' \in 0 .. MaxFrames /\ volume2' \subseteq 1 .. MaxFrames
    <3> USE DEF TypeOK
    <3>1. CASE FirstFrame
      <4>1. /\ frames + 1 \in 1 .. MaxFrames
            /\ \/ base' = frames + 1 /\ volume2' = volume2 \union {frames + 1}
               \/ base' = base /\ volume2' = volume2
        BY <3>1 DEF FirstFrame, HasFrame
      <4>2. frames + 1 \in 0 .. MaxFrames  BY <4>1
      <4>3. base \in 0 .. MaxFrames /\ volume2 \subseteq 1 .. MaxFrames  OBVIOUS
      <4> QED  BY <4>1, <4>2, <4>3, Zenon
    <3>2. CASE Lost  BY <3>2 DEF Lost, ResetVolume2
    <3>3. CASE Frame  BY <3>3 DEF Frame, slacVars
    <3>4. CASE SlacFrame
      <4>1. /\ base' \in {base, frames + 1} /\ volume2' = volume2 \union {base'}
            /\ base' = IF time % SlacNum = 0 THEN frames + 1 ELSE base
            /\ app \in {"frame", "given"}
        BY <3>4 DEF SlacFrame, Registered, HasFrame
      <4>2. frames + 1 \in 1 .. MaxFrames  BY <4>1 DEF HasFrame
      <4>3. base' \in 0 .. MaxFrames  BY <4>1, <4>2
      <4>4. base' \in 1 .. MaxFrames
        <5>1. time % SlacNum # 0 => volume2 = {base}
          BY <4>1, <3>4 DEF FragmentInv, Growing, SlacFrame
        <5> QED  BY <4>1, <4>2, <5>1
      <4> HIDE DEF Poses
      <4> QED  BY <4>1, <4>3, <4>4
    <3> QED  BY <3>1, <3>2, <3>3, <3>4 DEF Track
  <2> HIDE DEF Poses
  <2>5. TypeOK'  BY <2>1, <2>2, <2>3, <2>4 DEF FlagsOK, TypeOK, Poses
  <2>6. PosesInv'  BY <2>1, <2>3, <2>5 DEF Poses, PosesMatchTime, HasFrame, HasFlags, SlacPlaces
  <2>7. SavedInv'  BY <2>1 DEF SavedInv, HasFrame
  <2> QED  BY <2>6, <2>7
<1>2. UNCHANGED <<sharedVars, mutex, optimizerVars, mode>> /\ app \in {"frame", "given"}
  BY DEF HasFrame, Track, FirstFrame, Lost, Frame, SlacFrame, Registered, loopVars, slacVars
<1>3. app' \in {"idle", "lock"}  BY DEF Track, FirstFrame, Lost, Frame, SlacFrame
<1>4. Growing'
  <2> SUFFICES ASSUME mode = "slac" PROVE Growing'  BY <1>2 DEF Growing
  <2> USE <1>2 DEF Growing, SlacPlaces
  <2>0. /\ time \in Nat /\ volume2 = IF time % SlacNum = 0 THEN {} ELSE {base}
    BY DEF TrackerInv, CameraInv, PosesInv, TypeOK, FragmentInv
  <2>1. CASE FirstFrame
    <3>1. time = 0 /\ time' = 1 /\ app' = "idle" /\ volume2' = volume2 \union {base'}
      BY <2>1 DEF FirstFrame, HasFlags, TrackerInv, CameraInv, PosesInv
    <3>2. 0 % SlacNum = 0 /\ 1 % SlacNum # 0  OBVIOUS
    <3> QED  BY <2>0, <3>1, <3>2
  <2>2. CASE Lost
    <3>1. time' = 0 /\ app' = "idle" /\ volume2' = {}  BY <2>2 DEF Lost, Resets, ResetVolume2
    <3>2. 0 % SlacNum = 0  OBVIOUS
    <3> QED  BY <3>1, <3>2
  <2>3. CASE SlacFrame
    <3>1. /\ base' = (IF time % SlacNum = 0 THEN frames + 1 ELSE base)
          /\ volume2' = volume2 \union {base'}
          /\ IF (time + 1) % SlacNum = 0
             THEN app' = "lock" /\ time' = time ELSE app' = "idle" /\ time' = time + 1
      BY <2>3 DEF SlacFrame
    <3>2. volume2' = {base'}  BY <2>0, <3>1
    <3> QED  BY <3>1, <3>2
  <2> QED  BY <2>1, <2>2, <2>3 DEF Track, Frame
<1>5. FragmentInv'
  BY <1>2, <1>3, <1>4 DEF TrackerInv, FragmentInv, FragmentOneBase, sharedVars, optimizerVars
<1>6. SnapshotInv'
  BY <1>2, <1>3 DEF TrackerInv, SnapshotInv, SnapshotConsistent, sharedVars, optimizerVars
<1> QED  BY <1>1, <1>5, <1>6 DEF TrackerInv

(* Complete fragments, with the mutex for the first two of these steps. *)
LEMMA FragmentTracks ==
    ASSUME TrackerInv, TrackerLock \/ Fragment
    PROVE  TrackerInv'
<1> USE TrackerAssumption
<1>1. /\ UNCHANGED <<frames, forceShift, unsaved, size, pose, initTrans, cube, missed, strayed>>
      /\ UNCHANGED <<loopVars, base, snapshot>>
  BY DEF TrackerLock, Fragment, PushFragment, PushPairs, Spawn, cameraVars, sharedVars,
         optimizerVars
<1>2. \/ app = "lock" /\ app' = "fragment" /\ UNCHANGED <<time, volume2, optimizer, started>>
      \/ app = "fragment" /\ app' = "pairs" /\ UNCHANGED <<time, volume2, optimizer, started>>
      \/ app = "pairs" /\ app' = "spawn" /\ UNCHANGED <<time, volume2, optimizer, started>>
      \/ /\ app = "spawn" /\ app' = "idle" /\ time' = time + 1 /\ volume2' = {}
         /\ \/ UNCHANGED <<optimizer, started>>
            \/ optimizer' = "lock" /\ started' = started + 1
  BY DEF TrackerLock, Fragment, PushFragment, PushPairs, Spawn, cameraVars, optimizerVars
<1>3. mutex' \in {mutex, "tracker", "free"}
  BY DEF TrackerLock, Fragment, PushFragment, PushPairs, Spawn
<1>4. CameraInv'
  <2> USE DEF TrackerInv, CameraInv, PosesInv
  <2>1. FlagsOK'  BY <1>1 DEF FlagsOK, TypeOK, loopVars
  <2>2. time' \in 0 .. MaxFrames /\ volume2' \subseteq 1 .. MaxFrames
    <3>1. time' \in {time, time + 1} /\ volume2' \in {volume2, {}}  BY <1>2
    <3>2. time + 1 <= frames /\ frames \in 0 .. MaxFrames /\ time \in 0 .. MaxFrames
      BY <1>2 DEF TypeOK, SlacPlaces
    <3>3. time' \in 0 .. MaxFrames  BY <3>1, <3>2
    <3>4. volume2' \subseteq 1 .. MaxFrames  BY <3>1 DEF TypeOK
    <3> QED  BY <3>3, <3>4
  <2>3. started' \in Nat  BY <1>2 DEF TypeOK
  <2>4. TypeOK'  BY <1>1, <1>2, <1>3, <2>1, <2>2, <2>3 DEF TypeOK, FlagsOK, loopVars
  <2>5. PosesInv'
    <3>1. mode = "slac" /\ time > 0 /\ time + 1 <= frames /\ size = time + 1 /\ time \in Nat
      BY <1>2 DEF SlacPlaces, TypeOK
    <3>2. mode' = mode /\ frames' = frames /\ size' = size  BY <1>1 DEF loopVars
    <3> HIDE DEF TrackerInv, CameraInv
    <3>3. \/ app' \in {"fragment", "pairs", "spawn"} /\ time' = time
          \/ app' = "idle" /\ time' = time + 1
      BY <1>2
    <3>4. frames \in Nat  BY DEF TrackerInv, CameraInv, TypeOK
    <3>5. CASE app' = "idle" /\ time' = time + 1
      <4>1. time' <= frames' /\ time' # 0 /\ size' = time'  BY <3>1, <3>2, <3>4, <3>5
      <4> QED  BY <2>4, <3>5, <4>1 DEF PosesMatchTime, HasFrame, HasFlags, SlacPlaces
    <3>6. CASE app' \in {"fragment", "pairs", "spawn"} /\ time' = time
      <4>1. time' # 0 /\ mode' = "slac" /\ time' > 0 /\ time' + 1 <= frames' /\ size' = time' + 1
        BY <3>1, <3>2, <3>6
      <4> QED  BY <2>4, <3>6, <4>1 DEF PosesMatchTime, HasFrame, HasFlags, SlacPlaces
    <3> QED  BY <3>3, <3>5, <3>6
  <2>6. SavedInv'  BY <1>2 DEF SavedInv, HasFrame
  <2> QED  BY <2>5, <2>6
<1>5. Growing'
  <2>1. mode' = mode /\ base' = base /\ (mode = "slac" => time \in Nat)
    BY <1>1 DEF loopVars, TrackerInv, CameraInv, PosesInv, TypeOK
  <2> QED  BY <1>2, <2>1 DEF TrackerInv, FragmentInv, Growing, SlacPlaces
<1>6. FragmentInv'
  <2> USE DEF TrackerInv, FragmentInv
  <2>1. CASE TrackerLock
    BY <1>5, <2>1 DEF TrackerLock, FragmentOneBase, sharedVars, optimizerVars
  <2>2. CASE PushFragment
    <3>1. /\ fragments' = Append(fragments, {base}) /\ bases' = Append(bases, base)
          /\ started' = started /\ app = "fragment" /\ app' = "pairs" /\ base \in Int
      BY <2>2 DEF PushFragment, Growing, CameraInv, PosesInv, TypeOK, SlacPlaces, optimizerVars
    <3>2. /\ fragments' \in Seq(SUBSET Int) /\ bases' \in Seq(Int)
          /\ Len(fragments') = Len(fragments) + 1 /\ Len(bases') = Len(bases) + 1
      BY <3>1
    <3>3. FragmentOneBase'
      <4> SUFFICES ASSUME NEW i \in DOMAIN bases' PROVE fragments'[i] = {bases'[i]}
        BY DEF FragmentOneBase
      <4>1. i \in 1 .. Len(bases) + 1  BY <3>2
      <4>2. CASE i = Len(bases) + 1  BY <3>1, <4>2
      <4>3. CASE i \in 1 .. Len(bases)
        BY <3>1, <4>3 DEF FragmentOneBase
      <4> QED  BY <4>1, <4>2, <4>3
    <3>4. started = IF Len(fragments) >= 4 THEN 1 ELSE 0
      <4>1. Len(fragments) \in Nat /\ app \notin {"pairs", "spawn"}  BY <3>1
      <4>2. Len(fragments) >= 4 <=> Len(fragments) > 4 \/ Len(fragments) = 4  BY <4>1, SMTT(30)
      <4> QED  BY <4>1, <4>2
    <3>5. started' = IF Len(fragments') > 4 THEN 1 ELSE 0  BY <3>1, <3>2, <3>4
    <3> QED  BY <1>5, <3>1, <3>2, <3>3, <3>5
  <2>3. CASE PushPairs
    BY <1>5, <2>3 DEF PushPairs, FragmentOneBase, optimizerVars
  <2>4. CASE Spawn
    <3>1. /\ UNCHANGED <<fragments, bases>> /\ app = "spawn" /\ app' = "idle"
          /\ started' = IF Len(fragments) = 4 THEN started + 1 ELSE started
      BY <2>4 DEF Spawn, SpawnNow, sharedVars
    <3>2. started = IF Len(fragments) > 4 THEN 1 ELSE 0  BY <3>1
    <3>3. started' = IF Len(fragments) > 4 \/ Len(fragments) = 4 THEN 1 ELSE 0
      <4>1. Len(fragments) \in Nat  OBVIOUS
      <4> QED  BY <3>1, <3>2, <4>1, SMTT(30)
    <3> QED  BY <1>5, <3>1, <3>3 DEF FragmentOneBase
  <2> QED  BY <2>1, <2>2, <2>3, <2>4 DEF Fragment
<1>7. SnapshotInv'
  <2> USE DEF TrackerInv, SnapshotInv
  <2>1. Len(fragments) \in Nat  BY DEF FragmentInv
  <2>2. SnapshotConsistent' \/ optimizer' # optimizer
    BY <1>1 DEF SnapshotConsistent
  <2>3. CASE TrackerLock
    BY <1>1, <2>2, <2>3 DEF TrackerLock, sharedVars, optimizerVars
  <2>4. CASE PushFragment
    <3>1. /\ Len(fragments') = Len(fragments) + 1 /\ UNCHANGED <<corres, mutex, optimizer, started>>
          /\ app = "fragment" /\ app' = "pairs"
      BY <2>4 DEF PushFragment, FragmentInv, optimizerVars
    <3>2. corres' = PairsUpTo(Len(fragments') - 1)
      BY <2>1, <3>1
    <3> QED  BY <1>1, <2>2, <3>1, <3>2
  <2>5. CASE PushPairs
    <3>1. /\ UNCHANGED <<fragments, optimizer, started>> /\ app = "pairs" /\ app' = "spawn"
          /\ mutex' = "free" /\ corres' = corres \union PairsOf(Len(fragments))
      BY <2>5 DEF PushPairs, optimizerVars
    <3>2. corres' = PairsUpTo(Len(fragments))
      <4>1. corres = PairsUpTo(Len(fragments) - 1)  BY <3>1
      <4>2. CASE Len(fragments) = 0
        <5>1. PairsOf(0) = {}  BY DEF PairsOf
        <5>2. PairsUpTo(-1) = {} /\ PairsUpTo(0) = {}  BY DEF PairsUpTo
        <5> QED  BY <3>1, <4>1, <4>2, <5>1, <5>2
      <4>3. CASE Len(fragments) > 0
        <5>1. 1 .. Len(fragments) = (1 .. Len(fragments) - 1) \union {Len(fragments)}
          BY <2>1, <4>3
        <5> QED  BY <3>1, <4>1, <5>1 DEF PairsUpTo
      <4> QED  BY <2>1, <4>2, <4>3
    <3> QED  BY <1>1, <2>2, <3>1, <3>2
  <2>6. CASE Spawn
    <3>1. /\ UNCHANGED <<fragments, corres, mutex>> /\ app = "spawn" /\ app' = "idle"
          /\ \/ UNCHANGED <<optimizer, started>>
             \/ Len(fragments) = 4 /\ optimizer' = "lock" /\ started' = started + 1
      BY <2>6 DEF Spawn, SpawnNow, sharedVars
    <3>2. Len(fragments) = 4 => optimizer = "off"
      BY <3>1 DEF FragmentInv
    <3>3. started' # 0 \/ UNCHANGED <<optimizer, started>>
      <4>1. started \in Nat  BY DEF CameraInv, PosesInv, TypeOK
      <4> QED  BY <3>1, <4>1
    <3>4. SnapshotConsistent'  BY <2>2, <3>1 DEF SnapshotConsistent
    <3> QED  BY <1>1, <3>1, <3>2, <3>3, <3>4
  <2> QED  BY <2>3, <2>4, <2>5, <2>6 DEF Fragment
<1> QED  BY <1>4, <1>6, <1>7 DEF TrackerInv

(* The optimizer, which touches nothing but its copy. *)
LEMMA OptimizerTracks ==
    ASSUME TrackerInv, OptimizeSLAC
    PROVE  TrackerInv'
<1> USE TrackerAssumption
<1>1. /\ UNCHANGED <<app, frames, forceShift, unsaved, cameraVars, loopVars, base, volume2>>
      /\ UNCHANGED <<sharedVars, started>>
  BY DEF OptimizeSLAC, OptimizerLock, CopyFragments, CopyBases, LockGrid, WriteGrid, OptimizerStep
<1>2. \/ /\ optimizer = "lock" /\ optimizer' = "copy" /\ mutex = "free" /\ mutex' = "optimizer"
         /\ snapshot' = snapshot
      \/ /\ optimizer = "copy" /\ optimizer' = "bases" /\ mutex' = mutex
         /\ snapshot' = [snapshot EXCEPT !.fragments = fragments, !.corres = corres]
      \/ /\ optimizer = "bases" /\ optimizer' = "work" /\ mutex' = "free"
         /\ snapshot' = [snapshot EXCEPT !.bases = bases]
      \/ /\ optimizer = "work" /\ optimizer' = "write" /\ mutex = "free"
         /\ mutex' = "optimizer" /\ snapshot' = snapshot
      \/ /\ optimizer = "write" /\ optimizer' = "lock" /\ mutex' = "free"
         /\ snapshot' = snapshot
  BY DEF OptimizeSLAC, OptimizerLock, CopyFragments, CopyBases, LockGrid, WriteGrid, OptimizerStep,
         TakeMutex, ReleaseMutex
<1>3. CameraInv'
  <2> USE DEF TrackerInv, CameraInv, PosesInv
  <2>1. FlagsOK'  BY <1>1 DEF FlagsOK, TypeOK, loopVars
  <2>2. /\ optimizer' \in {"off", "lock", "copy", "bases", "work", "write"}
        /\ mutex' \in {mutex, "free", "optimizer"}
    BY <1>2
  <2>3. TypeOK'  BY <1>1, <2>1, <2>2 DEF TypeOK, FlagsOK, loopVars, cameraVars
  <2>4. PosesInv'
    BY <1>1, <2>3 DEF TypeOK, PosesMatchTime, HasFrame, HasFlags, SlacPlaces, loopVars, cameraVars
  <2>5. SavedInv'  BY <1>1 DEF SavedInv, HasFrame
  <2> QED  BY <2>4, <2>5
<1>4. FragmentInv'
  BY <1>1 DEF TrackerInv, FragmentInv, FragmentOneBase, Growing, sharedVars, loopVars, cameraVars,
              SlacPlaces
<1>5. SnapshotInv'
  <2>1. /\ mutex' = "tracker" <=> app' \in {"fragment", "pairs"}
        /\ mutex' = "optimizer" <=> optimizer' \in {"copy", "bases", "write"}
        /\ started' = 0 => optimizer' = "off"
    BY <1>1, <1>2 DEF TrackerInv, SnapshotInv
  <2>2. corres' = PairsUpTo(IF app' = "pairs" THEN Len(fragments') - 1 ELSE Len(fragments'))
    BY <1>1 DEF TrackerInv, SnapshotInv, sharedVars
  <2>3. UNCHANGED <<fragments, bases, corres>>  BY <1>1 DEF sharedVars
  <2>4. /\ snapshot' = [fragments |-> snapshot'.fragments, bases |-> snapshot'.bases,
                        corres |-> snapshot'.corres]
        /\ optimizer' = "bases" =>
             snapshot'.fragments = fragments' /\ snapshot'.corres = corres'
    BY <1>2, <2>3 DEF TrackerInv, SnapshotInv
  <2>5. SnapshotConsistent'
    <3>1. CASE optimizer = "bases" /\ optimizer' = "work"
      <4>1. /\ snapshot'.fragments = fragments /\ snapshot'.bases = bases
            /\ snapshot'.corres = corres
        BY <1>2, <3>1 DEF TrackerInv, SnapshotInv
      <4>2. app # "pairs"  BY <3>1 DEF TrackerInv, SnapshotInv
      <4>3. corres = PairsUpTo(Len(fragments))  BY <4>2 DEF TrackerInv, SnapshotInv
      <4>4. DOMAIN fragments = 1 .. Len(fragments) /\ Len(fragments) = Len(bases)
        BY DEF TrackerInv, FragmentInv
      <4> QED  BY <4>1, <4>3, <4>4 DEF SnapshotConsistent, PairsUpTo
    <3>2. CASE optimizer = "work" /\ snapshot' = snapshot
      BY <3>2 DEF TrackerInv, SnapshotInv, SnapshotConsistent
    <3>3. CASE optimizer' \notin {"work", "write"}  BY <3>3 DEF SnapshotConsistent
    <3> QED  BY <1>2, <3>1, <3>2, <3>3
  <2> QED  BY <2>1, <2>2, <2>4, <2>5 DEF SnapshotInv
<1> QED  BY <1>3, <1>4, <1>5 DEF TrackerInv

(* The invariant holds in every state. *)
THEOREM TrackerInvariant == Spec => []TrackerInv
<1>1. Init => TrackerInv  BY InitTracker
<1>2. TrackerInv /\ [Next]_vars => TrackerInv'
  <2> SUFFICES ASSUME TrackerInv, [Next]_vars PROVE TrackerInv'  OBVIOUS
  <2>1. CASE Keys \/ Execute  BY <2>1, LoopTracks
  <2>2. CASE Track  BY <2>2, FrameTracks
  <2>3. CASE TrackerLock \/ Fragment  BY <2>3, FragmentTracks
  <2>4. CASE OptimizeSLAC  BY <2>4, OptimizerTracks
  <2>5. CASE UNCHANGED vars
    <3> USE <2>5 DEF vars, cameraVars, loopVars, slacVars, sharedVars, optimizerVars, TrackerInv
    <3>1. CameraInv'
      BY DEF CameraInv, PosesInv, SavedInv, TypeOK, PosesMatchTime, HasFrame, HasFlags, SlacPlaces
    <3>2. FragmentInv'  BY DEF FragmentInv, Growing, FragmentOneBase, SlacPlaces
    <3>3. SnapshotInv'  BY DEF SnapshotInv, SnapshotConsistent
    <3> QED  BY <3>1, <3>2, <3>3
  <2> QED  BY <2>1, <2>2, <2>3, <2>4, <2>5 DEF Next
<1> QED  BY <1>1, <1>2, PTL DEF Spec

-----------------------------------------------------------------------------
(* Every variable has its type. *)
THEOREM TypeCorrect == Spec => []TypeOK
<1>1. TrackerInv => TypeOK  BY DEF TrackerInv, CameraInv, PosesInv
<1> QED  BY <1>1, TrackerInvariant, PTL

(* The pose a frame is registered from is the one saved last, however many *)
(* frames were lost before and wherever the resets fell.                   *)
THEOREM StartsFromLastPose == Spec => []PosesMatchTime
<1>1. TrackerInv => PosesMatchTime
  BY DEF TrackerInv, CameraInv, PosesInv, PosesMatchTime, HasFrame
<1> QED  BY <1>1, TrackerInvariant, PTL

(* Fragments of any size have one base each. *)
THEOREM KeepsOneBase == Spec => []FragmentOneBase
<1>1. TrackerInv => FragmentOneBase  BY DEF TrackerInv, FragmentInv
<1> QED  BY <1>1, TrackerInvariant, PTL

(* The optimizer copies a consistent set of fragments, bases and pairs. *)
THEOREM CopiesOneMoment == Spec => []SnapshotConsistent
<1>1. TrackerInv => SnapshotConsistent  BY DEF TrackerInv, SnapshotInv
<1> QED  BY <1>1, TrackerInvariant, PTL

(* No run starts a second optimizer. *)
THEOREM StartsOneOptimizer == Spec => []OneOptimizer
<1>1. TrackerInv => OneOptimizer  BY DEF TrackerInv, FragmentInv, OneOptimizer
<1> QED  BY <1>1, TrackerInvariant, PTL

(* The cube does not move on from what no file has. *)
THEOREM SavesBeforeShift == Spec => SavedBeforeShift
<1>1. TrackerInv /\ [Next]_vars => [cube' # cube /\ size' # 1 => ~unsaved]_vars
  <2> SUFFICES ASSUME TrackerInv, Next, cube' # cube, size' # 1 PROVE ~unsaved
    OBVIOUS
  <2>1. CASE Keys \/ Execute
    BY <2>1 DEF Keys, ForceShift, PerformLastScan, ExtractAndMeshWorld, Execute, cameraVars
  <2>2. CASE FirstFrame  BY <2>2 DEF FirstFrame, ResetTo
  <2>3. CASE Lost  BY <2>3 DEF Lost, ResetTo, cameraVars
  <2>4. CASE Registered
    <3>1. forceShift /\ HasFrame  BY <2>4 DEF Registered, CheckForShift
    <3> QED  BY <3>1 DEF TrackerInv, CameraInv, SavedInv
  <2>5. CASE TrackerLock \/ Fragment
    BY <2>5 DEF TrackerLock, Fragment, PushFragment, PushPairs, Spawn, cameraVars
  <2>6. CASE OptimizeSLAC
    BY <2>6 DEF OptimizeSLAC, OptimizerLock, CopyFragments, CopyBases, LockGrid, WriteGrid,
                OptimizerStep, cameraVars
  <2> QED  BY <2>1, <2>2, <2>3, <2>4, <2>5, <2>6 DEF Next, Track, Frame, SlacFrame
<1> QED  BY <1>1, TrackerInvariant, PTL DEF Spec, SavedBeforeShift

(* The trajectory goes on by the steps of the camera but for the poses the *)
(* frames come with, also over a reset, and whatever pose it starts from.  *)
THEOREM TrajectoryGoesOn == Spec => NoJump
<1> DEFINE GoesOn == (initTrans + pose)' - (initTrans + pose) \in Steps
<1>1. TrackerInv /\ [Next]_vars => [app # "given" => GoesOn]_vars
  <2> SUFFICES ASSUME TrackerInv, Next, app # "given" PROVE GoesOn
    OBVIOUS
  <2>0. /\ pose \in Int /\ initTrans \in Int /\ InitPose \in Int
        /\ 0 \in Steps /\ Steps \subseteq Int
        /\ time \in Nat /\ (time = 0 => pose = InitPose) /\ TypeOK
    BY TrackerAssumption DEF TrackerInv, CameraInv, PosesInv, TypeOK
  <2>1. CASE UNCHANGED <<pose, initTrans>>  BY <2>0, <2>1
  <2>2. CASE ResetTo(InitPose)
    <3>1. /\ pose' = InitPose
          /\ initTrans' = IF time > 0 THEN initTrans + pose - InitPose ELSE initTrans
      BY <2>2 DEF ResetTo
    <3>2. initTrans' = initTrans + pose - InitPose  BY <2>0, <3>1
    <3>3. (initTrans + pose)' - (initTrans + pose) = 0  BY <2>0, <3>1, <3>2
    <3> QED  BY <2>0, <3>3
  <2>3. CASE FirstFrame  BY <2>0, <2>1, <2>2, <2>3, FirstPose
  <2>4. CASE Lost  BY <2>1, <2>2, <2>4 DEF Lost, cameraVars
  <2>5. CASE Registered
    <3>1. PICK s \in Steps : pose' = pose + s  BY <2>0, <2>5, RegisteredPose
    <3>2. initTrans' = initTrans /\ s \in Int  BY <2>0, <2>5 DEF Registered
    <3>3. (initTrans + pose)' - (initTrans + pose) = s  BY <2>0, <3>1, <3>2
    <3> QED  BY <3>3
  <2>6. CASE Keys \/ Execute
    BY <2>1, <2>6 DEF Keys, ForceShift, PerformLastScan, ExtractAndMeshWorld, Execute, cameraVars
  <2>7. CASE TrackerLock \/ Fragment
    BY <2>1, <2>7 DEF TrackerLock, Fragment, PushFragment, PushPairs, Spawn, cameraVars
  <2>8. CASE OptimizeSLAC
    BY <2>1, <2>8 DEF OptimizeSLAC, OptimizerLock, CopyFragments, CopyBases, LockGrid, WriteGrid,
                      OptimizerStep, cameraVars
  <2> QED  BY <2>3, <2>4, <2>5, <2>6, <2>7, <2>8 DEF Next, Track, Frame, SlacFrame
<1> QED  BY <1>1, TrackerInvariant, PTL DEF Spec, NoJump

-----------------------------------------------------------------------------
(* How many steps the camera may be ahead of the cube. *)
Behind == IF forceShift THEN 1 + missed ELSE missed

(* Where these steps count from. *)
Around == Longer(Threshold, strayed)

(* The cube is no step behind when no shift is due, one when one is, and   *)
(* one more for each shift that was given up; after a frame that was not   *)
(* the first it is within the threshold or a shift is due or was given up. *)
FollowInv ==
    /\ time = 0 => cube = InitPose
    /\ time > 0 => Distance(pose, cube) <= Around + Behind * MaxStep
    /\ (time > 1 \/ app \in SlacPlaces) /\ ~forceShift /\ missed = 0 =>
          Distance(pose, cube) <= Threshold

(* No step is longer than the longest. *)
LEMMA LongestStep == MaxStep \in Nat /\ \A s \in Steps : Distance(s, 0) <= MaxStep
<1> DEFINE Lengths == {Distance(s, 0) : s \in Steps}
<1>1. \A s \in Steps : Distance(s, 0) \in Nat  BY TrackerAssumption DEF Distance
<1>2. \E m \in Lengths : \A s \in Steps : Distance(s, 0) <= m  BY StepsAssumption
<1>3. MaxStep \in Lengths /\ \A s \in Steps : Distance(s, 0) <= MaxStep
  BY <1>2, Zenon DEF MaxStep
<1> QED  BY <1>1, <1>3

(* A step takes the camera no further than its length. *)
LEMMA StepAway ==
    ASSUME NEW p \in Int, NEW c \in Int, NEW s \in Steps
    PROVE  Distance(p + s, c) <= Distance(p, c) + MaxStep
<1>1. s \in Int /\ Distance(s, 0) <= MaxStep /\ MaxStep \in Nat
  BY LongestStep, TrackerAssumption
<1> QED  BY <1>1 DEF Distance

(* A multiple of the longest step and one more. *)
LEMMA OneMore == \A n, m \in Nat : (n + 1) * m = n * m + m /\ n * m \in Nat
OBVIOUS

(* What the numbers are that the distance is compared with. *)
Numbers ==
    /\ Threshold \in Nat /\ MaxStep \in Nat /\ Around \in Nat
    /\ Around >= Threshold /\ Around >= strayed
    /\ missed * MaxStep \in Nat /\ (1 + missed) * MaxStep = missed * MaxStep + MaxStep
    /\ Behind * MaxStep \in Nat /\ Distance(pose, cube) \in Nat

LEMMA Bounds == TypeOK => Numbers
<1> SUFFICES ASSUME TypeOK PROVE Numbers  OBVIOUS
<1>1. /\ Threshold \in Nat /\ MaxStep \in Nat /\ strayed \in Nat /\ missed \in Nat
      /\ pose \in Int /\ cube \in Int
  BY TrackerAssumption, LongestStep DEF TypeOK
<1>2. Around \in Nat /\ Around >= Threshold /\ Around >= strayed  BY <1>1 DEF Around, Longer
<1>3. missed * MaxStep \in Nat /\ (missed + 1) * MaxStep = missed * MaxStep + MaxStep
  BY <1>1, OneMore
<1>4. 1 + missed = missed + 1  BY <1>1
<1>5. Behind * MaxStep \in Nat  BY <1>1, <1>3, <1>4 DEF Behind
<1>6. Distance(pose, cube) \in Nat  BY <1>1, Distances
<1> QED  BY <1>1, <1>2, <1>3, <1>4, <1>5, <1>6 DEF Numbers

LEMMA BoundsNext == TypeOK' => Numbers'
BY Bounds, PTL

(* A frame that starts a session, in the middle of the cube or as far from *)
(* it as the pose it came with.                                            *)
LEMMA FirstFollows ==
    ASSUME TrackerInv, FollowInv, FirstFrame, TypeOK'
    PROVE  FollowInv'
<1>1. time' = 1 /\ app' = "idle"  BY DEF FirstFrame
<1>2. Distance(pose', cube') <= strayed' /\ strayed' \in Nat
  <2>1. CASE time = 0 /\ UNCHANGED <<pose, cube, strayed>>
    <3>1. pose' = InitPose /\ cube' = InitPose /\ strayed' \in Nat
      BY <2>1 DEF TrackerInv, CameraInv, PosesInv, FollowInv, TypeOK
    <3>2. Distance(InitPose, InitPose) = 0  BY TrackerAssumption, Distances
    <3> QED  BY <3>1, <3>2
  <2>2. CASE \E p \in Int : ResetTo(p)
    <3>1. strayed' = Distance(pose', cube') /\ strayed' \in Nat
      BY <2>2, ResetPose DEF TrackerInv, CameraInv, PosesInv
    <3> QED  BY <3>1
  <2> QED  BY <2>1, <2>2, FirstPose DEF TrackerInv, CameraInv, PosesInv
<1>3. /\ Around' \in Nat /\ Around' >= strayed' /\ (Behind * MaxStep)' \in Nat
      /\ Distance(pose', cube') \in Nat
  BY BoundsNext DEF Numbers
<1> QED  BY <1>1, <1>2, <1>3 DEF FollowInv, SlacPlaces

(* A frame in between, with which a shift that is due is done, or becomes due. *)
LEMMA RegisteredFollows ==
    ASSUME TrackerInv, FollowInv, Registered, time' \in Nat, TypeOK'
    PROVE  FollowInv' \/ time' = 0
<1>1. /\ Around' \in Nat /\ Around' >= Threshold /\ Around' >= strayed'
      /\ (Behind * MaxStep)' \in Nat /\ Distance(pose', cube') \in Nat /\ Threshold \in Nat
  BY BoundsNext DEF Numbers
<1>2. TypeOK  BY DEF TrackerInv, CameraInv, PosesInv
<1>3. CASE forceShift
  <2>1. cube' = pose' /\ pose' \in Int
    BY <1>2, <1>3, RegisteredPose DEF Registered, CheckForShift
  <2>2. Distance(pose', cube') = 0
    <3>1. Distance(pose', pose') = 0  BY <2>1, Distances
    <3> QED  BY <2>1, <3>1
  <2> QED  BY <1>1, <2>2 DEF FollowInv
<1>4. CASE ~forceShift
  <2> DEFINE far == Distance(pose', cube') > Threshold
  <2>1. /\ cube' = cube /\ missed' = missed /\ forceShift' = (Distance(pose', cube) > Threshold)
    BY <1>4 DEF Registered, CheckForShift
  <2>2. forceShift' = far  BY <2>1
  <2>3. CASE ~forceShift'
    <3>1. ~far
      <4> HIDE DEF far
      <4> QED  BY <2>2, <2>3, Zenon
    <3> QED  BY <1>1, <3>1 DEF FollowInv
  <2>4. CASE forceShift'
    <3>1. Distance(pose', cube') <= Around' + (Behind * MaxStep)'
      <4>1. CASE app = "given"
        <5>1. strayed' = Distance(pose', cube')  BY <4>1 DEF Registered
        <5> HIDE DEF far
        <5> QED  BY <1>1, <5>1
      <4>2. CASE app # "given"
        <5>1. PICK s \in Steps : pose' = pose + s  BY <1>2, <4>2, RegisteredPose
        <5>2. strayed' = strayed  BY <1>4, <4>2 DEF Registered
        <5>3. Around' = Around  BY <5>2 DEF Around
        <5>4. Distance(pose', cube') <= Distance(pose, cube) + MaxStep
          BY <1>2, <2>1, <5>1, StepAway DEF TypeOK
        <5>5. Distance(pose, cube) <= Around + missed * MaxStep
          BY <1>4 DEF FollowInv, Behind, Registered
        <5>6. (Behind * MaxStep)' = (1 + missed) * MaxStep
          <6>1. Behind' = 1 + missed  BY <2>1, <2>4 DEF Behind
          <6>2. MaxStep' = MaxStep  BY DEF MaxStep
          <6> QED  BY <6>1, <6>2
        <5>7. /\ (1 + missed) * MaxStep = missed * MaxStep + MaxStep /\ missed * MaxStep \in Nat
              /\ Around \in Nat /\ MaxStep \in Nat /\ Distance(pose, cube) \in Nat
          BY <1>2, Bounds DEF Numbers
        <5> HIDE DEF far
        <5> QED  BY <1>1, <5>3, <5>4, <5>5, <5>6, <5>7
      <4> QED  BY <4>1, <4>2
    <3> QED  BY <2>4, <3>1 DEF FollowInv
  <2> QED  BY <2>3, <2>4
<1> QED  BY <1>3, <1>4

(* Neither do keys and shifts given up let the cube fall back further.     *)
LEMMA FollowStep ==
    ASSUME TrackerInv, TrackerInv', FollowInv, [Next]_vars
    PROVE  FollowInv'
<1>1. /\ TypeOK /\ TypeOK' /\ missed \in Nat /\ time \in Nat /\ forceShift \in BOOLEAN
      /\ Threshold \in Nat /\ MaxStep \in Nat /\ Around \in Nat /\ Distance(pose, cube) \in Nat
      /\ missed * MaxStep \in Nat /\ (1 + missed) * MaxStep = missed * MaxStep + MaxStep
  BY Bounds DEF Numbers, TrackerInv, CameraInv, PosesInv, TypeOK
<1>4. ASSUME UNCHANGED <<time, pose, cube, missed, strayed, forceShift>>,
             app' \in SlacPlaces => app \in SlacPlaces
      PROVE  FollowInv'
  BY <1>4 DEF FollowInv, Behind, Around
<1>5. CASE ForceShift
  <2>1. UNCHANGED <<time, pose, cube, missed, strayed, app>> /\ forceShift'
    BY <1>5 DEF ForceShift, cameraVars
  <2>2. Behind' = 1 + missed /\ Around' = Around  BY <2>1 DEF Behind, Around
  <2>3. time > 0 => Distance(pose, cube) <= Around + (1 + missed) * MaxStep
    BY <1>1 DEF FollowInv, Behind
  <2>4. MaxStep' = MaxStep  BY DEF MaxStep
  <2> QED  BY <2>1, <2>2, <2>3, <2>4 DEF FollowInv
<1>6. CASE PerformLastScan \/ ExtractAndMeshWorld
  BY <1>4, <1>6 DEF PerformLastScan, ExtractAndMeshWorld, cameraVars
<1>7. CASE Execute
  <2>1. /\ UNCHANGED <<time, pose, cube, strayed>> /\ app = "idle"
        /\ app' \in {"frame", "given", "idle"}
    BY <1>7 DEF Execute
  <2>2. CASE UNCHANGED <<forceShift, missed>>
    BY <1>4, <2>1, <2>2 DEF SlacPlaces
  <2>3. CASE forceShift' = FALSE /\ missed' = IF forceShift THEN missed + 1 ELSE missed
    <3>1. CASE forceShift
      <4>1. missed' = missed + 1 /\ Behind = Behind'  BY <1>1, <2>3, <3>1 DEF Behind
      <4>2. missed' # 0  BY <1>1, <4>1
      <4>3. Around' = Around /\ MaxStep' = MaxStep  BY <2>1 DEF Around, MaxStep
      <4> QED  BY <2>1, <4>1, <4>2, <4>3 DEF FollowInv, SlacPlaces
    <3>2. CASE ~forceShift
      <4>1. forceShift = FALSE  BY <1>1, <3>2
      <4> QED  BY <1>4, <2>1, <2>3, <4>1 DEF SlacPlaces
    <3> QED  BY <3>1, <3>2
  <2> QED  BY <1>7, <2>2, <2>3 DEF Execute
<1>8. CASE FirstFrame  BY <1>1, <1>8, FirstFollows
<1>9. CASE Lost
  <2>1. CASE Resets /\ ResetTo(InitPose) /\ time' = 0
    BY <1>9, <2>1 DEF Lost, ResetTo, FollowInv, SlacPlaces
  <2>2. CASE UNCHANGED cameraVars
    BY <1>4, <1>9, <2>2 DEF Lost, cameraVars, SlacPlaces
  <2> QED  BY <1>9, <2>1, <2>2 DEF Lost
<1>10. CASE Frame \/ SlacFrame
  <2>1. Registered /\ time' \in {time, time + 1}  BY <1>10 DEF Frame, SlacFrame
  <2>2. time > 0  BY <2>1 DEF Registered
  <2>3. time' \in Nat /\ time' # 0  BY <1>1, <2>1, <2>2
  <2> QED  BY <1>1, <2>1, <2>3, RegisteredFollows
<1>11. CASE TrackerLock \/ Fragment
  <2>1. /\ UNCHANGED <<pose, cube, missed, strayed, forceShift>> /\ app \in SlacPlaces
        /\ time' \in {time, time + 1} /\ time > 0
    BY <1>11 DEF TrackerLock, Fragment, PushFragment, PushPairs, Spawn, cameraVars, SlacPlaces,
                 TrackerInv, CameraInv, PosesInv
  <2>2. time' > 0 /\ time' # 0  BY <1>1, <2>1
  <2> QED  BY <2>1, <2>2 DEF FollowInv, Behind, Around
<1>12. CASE OptimizeSLAC
  BY <1>4, <1>12 DEF OptimizeSLAC, OptimizerLock, CopyFragments, CopyBases, LockGrid, WriteGrid,
                     OptimizerStep, cameraVars
<1>13. CASE UNCHANGED vars  BY <1>4, <1>13 DEF vars, cameraVars
<1> QED
  BY <1>5, <1>6, <1>7, <1>8, <1>9, <1>10, <1>11, <1>12, <1>13 DEF Next, Keys, Track

(* Whatever is lost, reset, forced or given up, the cube follows the       *)
(* camera, at most one of its longest steps behind and one for each shift  *)
(* that was given up, counted from the threshold or from where a frame has *)
(* put the camera: for any threshold, any steps and any poses given.       *)
THEOREM CubeStaysAround == Spec => []CubeFollows
<1>1. Init => FollowInv  BY DEF Init, FollowInv, SlacPlaces
<1>2. Spec => []FollowInv
  BY <1>1, FollowStep, TrackerInvariant, PTL DEF Spec
<1>3. TrackerInv /\ FollowInv => CubeFollows
  <2> SUFFICES ASSUME TrackerInv, FollowInv, time > 0 PROVE
                 Distance(pose, cube) <= Longer(Threshold, strayed) + (1 + missed) * MaxStep
    BY DEF FollowInv, CubeFollows
  <2>1. /\ Around \in Nat /\ MaxStep \in Nat /\ Distance(pose, cube) \in Nat
        /\ missed * MaxStep \in Nat /\ (1 + missed) * MaxStep = missed * MaxStep + MaxStep
    BY Bounds DEF Numbers, TrackerInv, CameraInv, PosesInv
  <2>2. Distance(pose, cube) <= Around + (1 + missed) * MaxStep
    BY <2>1 DEF FollowInv, Behind
  <2> QED  BY <2>2 DEF Around
<1> QED  BY <1>2, <1>3, TrackerInvariant, PTL

-----------------------------------------------------------------------------
(* Steps left to the thread that has slac_mutex_ until it releases it.     *)
LockSteps ==
    CASE mutex = "tracker"   -> IF app = "fragment" THEN 2 ELSE 1
      [] mutex = "optimizer" -> IF optimizer = "copy" THEN 2 ELSE 1
      [] OTHER               -> 0

(* Whoever has the mutex is where it needs nobody to go on, and releases   *)
(* it after two steps at the most, whatever the other thread does then.    *)
MutexReleased ==
    /\ [](/\ mutex = "tracker" => app \in {"fragment", "pairs"}
          /\ mutex = "optimizer" => optimizer \in {"copy", "bases", "write"})
    /\ [][mutex # "free" =>
            /\ mutex' \in {mutex, "free"} /\ LockSteps' <= LockSteps
            /\ \/ mutex = "tracker" /\ Fragment
               \/ mutex = "optimizer" /\ OptimizeSLAC
               => LockSteps' < LockSteps]_vars

(* The optimizer's steps until it has copied the fragments again.          *)
CopySteps ==
    CASE optimizer = "work"  -> 5
      [] optimizer = "write" -> 4
      [] optimizer = "lock"  -> 3
      [] optimizer = "copy"  -> 2
      [] optimizer = "bases" -> 1
      [] OTHER               -> 0

(* What the optimizer works on is what the tracker had when it was copied: *)
(* fragments were only added since.                                        *)
SnapshotBehind ==
    optimizer \in {"work", "write"} =>
        \E n \in 0 .. Len(fragments) : /\ snapshot.fragments = SubSeq(fragments, 1, n)
                                       /\ snapshot.bases = SubSeq(bases, 1, n)

(* From four fragments on the optimizer runs, each of its steps brings it  *)
(* nearer to the next copy, and the copy has all fragments there are.      *)
OptimizerCatchesUp ==
    /\ [](Len(fragments) > 4 \/ (Len(fragments) = 4 /\ app \notin {"pairs", "spawn"})
            => optimizer # "off")
    /\ []SnapshotBehind
    /\ [][optimizer # "off" /\ optimizer' # optimizer =>
            \/ CopySteps' = CopySteps - 1
            \/ /\ optimizer = "bases" /\ optimizer' = "work"
               /\ snapshot'.fragments = fragments' /\ snapshot'.bases = bases']_vars

RoundInv == (started > 0 => optimizer # "off") /\ SnapshotBehind

(* All fragments of the first n are all of the first n of any longer list. *)
LEMMA LongerPrefix ==
    ASSUME NEW S, NEW s \in Seq(S), NEW e \in S, NEW n \in 0 .. Len(s)
    PROVE  SubSeq(Append(s, e), 1, n) = SubSeq(s, 1, n)
<1>1. n \in Nat /\ n <= Len(s) /\ Len(s) \in Nat  OBVIOUS
<1>2. Append(s, e) \in Seq(S) /\ Len(Append(s, e)) = Len(s) + 1  OBVIOUS
<1>3. \A i \in 1 .. n : Append(s, e)[i] = s[i]  BY <1>1
<1>4. /\ SubSeq(Append(s, e), 1, n) = [i \in 1 .. n |-> Append(s, e)[i]]
      /\ SubSeq(s, 1, n) = [i \in 1 .. n |-> s[i]]
  BY <1>1, <1>2
<1> QED  BY <1>3, <1>4

LEMMA WholePrefix == ASSUME NEW S, NEW s \in Seq(S) PROVE SubSeq(s, 1, Len(s)) = s
OBVIOUS

(* What a step of the optimizer leaves alone, and what it does. *)
LEMMA OptimizerSteps ==
    ASSUME OptimizeSLAC
    PROVE  /\ UNCHANGED <<app, fragments, bases, started>>
           /\ \/ optimizer = "lock" /\ optimizer' = "copy"
              \/ optimizer = "copy" /\ optimizer' = "bases"
              \/ optimizer = "bases" /\ optimizer' = "work" /\ CopyBases
              \/ optimizer = "work" /\ optimizer' = "write" /\ snapshot' = snapshot
              \/ optimizer = "write" /\ optimizer' = "lock"
           /\ \/ mutex = "free" /\ mutex' = "optimizer" /\ optimizer \in {"lock", "work"}
              \/ mutex' = mutex /\ optimizer = "copy"
              \/ mutex' = "free" /\ optimizer \in {"bases", "write"}
BY DEF OptimizeSLAC, OptimizerLock, CopyFragments, CopyBases, LockGrid, WriteGrid, OptimizerStep,
       sharedVars, TakeMutex, ReleaseMutex

LEMMA TrackerSteps ==
    ASSUME Keys \/ Execute \/ Track \/ TrackerLock \/ Fragment
    PROVE  /\ snapshot' = snapshot
           /\ Spawn \/ UNCHANGED <<optimizer, started>>
           /\ PushFragment \/ UNCHANGED <<fragments, bases>>
           /\ \/ mutex' = mutex /\ app \notin {"lock", "pairs"}
              \/ TrackerLock \/ PushPairs
BY DEF Keys, ForceShift, PerformLastScan, ExtractAndMeshWorld, Execute, Track, HasFrame, FirstFrame,
       Lost, Frame, SlacFrame, Registered, TrackerLock, Fragment, PushFragment, PushPairs, Spawn,
       slacVars, sharedVars, optimizerVars

LEMMA RoundStep ==
    ASSUME TrackerInv, RoundInv, [Next]_vars
    PROVE  RoundInv'
<1> DEFINE Old(n) == /\ snapshot.fragments = SubSeq(fragments, 1, n)
                     /\ snapshot.bases = SubSeq(bases, 1, n)
<1>0. /\ started \in Nat /\ fragments \in Seq(SUBSET Int) /\ bases \in Seq(Int)
      /\ Len(fragments) = Len(bases) /\ Len(fragments) \in Nat
  BY DEF TrackerInv, CameraInv, PosesInv, TypeOK, FragmentInv
<1>1. CASE OptimizeSLAC
  <2>1. started' > 0 => optimizer' # "off"  BY <1>1, OptimizerSteps
  <2>2. SnapshotBehind'
    <3>1. CASE optimizer = "bases" /\ CopyBases
      <4>1. snapshot'.fragments = fragments /\ snapshot'.bases = bases
        BY <3>1 DEF CopyBases, TrackerInv, SnapshotInv
      <4>2. fragments' = fragments /\ bases' = bases  BY <1>1, OptimizerSteps
      <4>3. /\ snapshot'.fragments = SubSeq(fragments', 1, Len(fragments'))
            /\ snapshot'.bases = SubSeq(bases', 1, Len(fragments'))
        BY <1>0, <4>1, <4>2, WholePrefix
      <4>4. Len(fragments') \in 0 .. Len(fragments')  BY <1>0, <4>2
      <4> QED  BY <4>3, <4>4 DEF SnapshotBehind
    <3>2. CASE optimizer = "work" /\ snapshot' = snapshot
      <4>1. UNCHANGED <<fragments, bases>>  BY <1>1, OptimizerSteps
      <4> QED  BY <3>2, <4>1 DEF RoundInv, SnapshotBehind
    <3>3. CASE optimizer' \notin {"work", "write"}  BY <3>3 DEF SnapshotBehind
    <3> QED  BY <1>1, <3>1, <3>2, <3>3, OptimizerSteps
  <2> QED  BY <2>1, <2>2 DEF RoundInv
<1>2. CASE Keys \/ Execute \/ Track \/ TrackerLock \/ Fragment
  <2>1. snapshot' = snapshot  BY <1>2, TrackerSteps
  <2>2. started' > 0 => optimizer' # "off"
    <3>1. CASE Spawn  BY <3>1 DEF Spawn, RoundInv
    <3>2. CASE ~Spawn  BY <1>2, <3>2, TrackerSteps DEF RoundInv
    <3> QED  BY <3>1, <3>2
  <2>3. SnapshotBehind'
    <3>1. optimizer' \in {"work", "write"} => optimizer' = optimizer
      BY <1>2, TrackerSteps DEF Spawn
    <3>2. SUFFICES ASSUME optimizer \in {"work", "write"} PROVE SnapshotBehind'
      BY <3>1 DEF SnapshotBehind
    <3>3. PICK n \in 0 .. Len(fragments) : Old(n)
      BY <3>2 DEF RoundInv, SnapshotBehind
    <3>4. CASE PushFragment
      <4>1. fragments' = Append(fragments, volume2) /\ bases' = Append(bases, base)
        BY <3>4 DEF PushFragment
      <4>2. volume2 \in SUBSET Int /\ base \in Int
        BY TrackerAssumption DEF TrackerInv, CameraInv, PosesInv, TypeOK
      <4>3. /\ SubSeq(fragments', 1, n) = SubSeq(fragments, 1, n)
            /\ SubSeq(bases', 1, n) = SubSeq(bases, 1, n)
        BY <1>0, <4>1, <4>2, LongerPrefix
      <4>4. n \in 0 .. Len(fragments')  BY <1>0, <4>1, <4>2
      <4> QED  BY <2>1, <3>3, <4>3, <4>4 DEF SnapshotBehind
    <3>5. CASE ~PushFragment
      <4>1. UNCHANGED <<fragments, bases>>  BY <1>2, <3>5, TrackerSteps
      <4> QED  BY <2>1, <3>3, <4>1 DEF SnapshotBehind
    <3> QED  BY <3>4, <3>5
  <2> QED  BY <2>2, <2>3 DEF RoundInv
<1>3. CASE UNCHANGED vars
  BY <1>3 DEF vars, slacVars, sharedVars, optimizerVars, RoundInv, SnapshotBehind
<1> QED  BY <1>1, <1>2, <1>3 DEF Next

LEMMA RoundInvariant == Spec => [](TrackerInv /\ RoundInv)
<1>1. Init => RoundInv  BY DEF Init, RoundInv, SnapshotBehind
<1> QED  BY <1>1, RoundStep, TrackerInvariant, PTL DEF Spec

(* An optimizer that runs is not started over.                             *)
LEMMA SpawnsNoSecond ==
    ASSUME TrackerInv, Spawn, optimizer # "off"
    PROVE  optimizer' = optimizer
<1>1. started # 0  BY DEF TrackerInv, SnapshotInv
<1>2. app = "spawn"  BY DEF Spawn
<1>3. Len(fragments) > 4  BY <1>1, <1>2 DEF TrackerInv, FragmentInv
<1>4. Len(fragments) \in Nat  BY DEF TrackerInv, FragmentInv
<1>5. ~SpawnNow
  <2>1. \A n \in Nat : n > 4 => n # 4  OBVIOUS
  <2> QED  BY <1>3, <1>4, <2>1, Zenon DEF SpawnNow
<1> QED  BY <1>5 DEF Spawn

(* The mutex comes free again: what FragmentsOptimized says of the tracker *)
(* that waits for it, but for fairness.                                    *)
THEOREM ReleasesMutex == Spec => MutexReleased
<1>1. TrackerInv => /\ mutex = "tracker" => app \in {"fragment", "pairs"}
                    /\ mutex = "optimizer" => optimizer \in {"copy", "bases", "write"}
  BY DEF TrackerInv, SnapshotInv
<1> DEFINE Released == /\ mutex' \in {mutex, "free"} /\ LockSteps' <= LockSteps
                       /\ \/ mutex = "tracker" /\ Fragment
                          \/ mutex = "optimizer" /\ OptimizeSLAC
                          => LockSteps' < LockSteps
<1>2. TrackerInv /\ [Next]_vars => [mutex # "free" => Released]_vars
  <2> SUFFICES ASSUME TrackerInv, Next, mutex # "free" PROVE Released  OBVIOUS
  <2>1. CASE mutex = "tracker"
    <3>1. app \in {"fragment", "pairs"}  BY <1>1, <2>1
    <3>2. CASE OptimizeSLAC
      <4>1. optimizer \notin {"bases", "write", "copy"}  BY <2>1 DEF TrackerInv, SnapshotInv
      <4> QED  BY <2>1, <3>2, <4>1, OptimizerSteps
    <3>3. CASE PushFragment  BY <2>1, <3>3 DEF PushFragment, LockSteps
    <3>4. CASE PushPairs  BY <2>1, <3>4, <3>1 DEF PushPairs, LockSteps
    <3> QED
      BY <2>1, <3>1, <3>2, <3>3, <3>4
      DEF Next, Keys, ForceShift, PerformLastScan, ExtractAndMeshWorld, Execute, Track, HasFrame,
          FirstFrame, Lost, Frame, SlacFrame, Registered, TrackerLock, Fragment, Spawn
  <2>2. CASE mutex = "optimizer"
    <3>1. optimizer \in {"copy", "bases", "write"}  BY <1>1, <2>2
    <3>2. app \notin {"fragment", "pairs"}  BY <2>2 DEF TrackerInv, SnapshotInv
    <3>3. CASE OptimizeSLAC
      <4>1. \/ optimizer = "copy" /\ optimizer' = "bases" /\ mutex' = mutex
            \/ optimizer \in {"bases", "write"} /\ mutex' = "free"
        BY <2>2, <3>1, <3>3, OptimizerSteps
      <4> QED  BY <2>2, <4>1 DEF LockSteps
    <3>4. CASE Keys \/ Execute \/ Track \/ TrackerLock \/ Fragment
      <4>1. mutex' = mutex
        BY <2>2, <3>2, <3>4, TrackerSteps DEF TrackerLock, PushPairs
      <4>2. optimizer' = optimizer
        <5>1. CASE Spawn
          <6>1. optimizer # "off"  BY <3>1
          <6> QED  BY <5>1, <6>1, SpawnsNoSecond
        <5> QED  BY <3>4, <5>1, TrackerSteps
      <4>3. LockSteps' = LockSteps /\ LockSteps \in Nat  BY <2>2, <4>1, <4>2 DEF LockSteps
      <4>4. ~OptimizeSLAC
        BY <3>1, <4>2 DEF OptimizeSLAC, OptimizerLock, CopyFragments, CopyBases, LockGrid, WriteGrid,
                          OptimizerStep
      <4> QED  BY <2>2, <4>1, <4>3, <4>4
    <3> QED  BY <3>3, <3>4 DEF Next
  <2>3. mutex \in {"tracker", "optimizer"}  BY DEF TrackerInv, CameraInv, PosesInv, TypeOK
  <2> QED  BY <2>1, <2>2, <2>3
<1> QED  BY <1>1, <1>2, TrackerInvariant, PTL DEF Spec, MutexReleased

(* Every fragment is in the next copy of an optimizer that runs for good:  *)
(* what FragmentsOptimized says of it but for fairness.                    *)
THEOREM CopiesAllFragments == Spec => OptimizerCatchesUp
<1>1. TrackerInv /\ RoundInv
        => (Len(fragments) > 4 \/ (Len(fragments) = 4 /\ app \notin {"pairs", "spawn"})
              => optimizer # "off")
  BY DEF TrackerInv, FragmentInv, RoundInv
<1>2. RoundInv => SnapshotBehind  BY DEF RoundInv
<1> DEFINE Copies ==
      \/ CopySteps' = CopySteps - 1
      \/ /\ optimizer = "bases" /\ optimizer' = "work"
         /\ snapshot'.fragments = fragments' /\ snapshot'.bases = bases'
<1>3. TrackerInv /\ RoundInv /\ [Next]_vars
        => [optimizer # "off" /\ optimizer' # optimizer => Copies]_vars
  <2> SUFFICES ASSUME TrackerInv, RoundInv, Next, optimizer # "off", optimizer' # optimizer
               PROVE  Copies
    OBVIOUS
  <2>1. CASE OptimizeSLAC
    <3>1. CASE optimizer = "bases" /\ optimizer' = "work" /\ CopyBases
      <4>1. UNCHANGED <<fragments, bases>>  BY <2>1, OptimizerSteps
      <4>2. snapshot'.fragments = fragments /\ snapshot'.bases = bases
        BY <3>1 DEF CopyBases, TrackerInv, SnapshotInv
      <4> QED  BY <3>1, <4>1, <4>2
    <3>2. CASE ~(optimizer = "bases" /\ optimizer' = "work" /\ CopyBases)
      BY <2>1, <3>2, OptimizerSteps DEF CopySteps
    <3> QED  BY <3>1, <3>2
  <2>2. CASE Spawn  BY <2>2, SpawnsNoSecond
  <2> QED  BY <2>1, <2>2, TrackerSteps DEF Next
<1> QED  BY <1>1, <1>2, <1>3, RoundInvariant, PTL DEF Spec, OptimizerCatchesUp
=============================================================================
