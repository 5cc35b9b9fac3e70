---------------------------- MODULE KinfuTracker ----------------------------
(***************************************************************************)
(* KinfuTracker and the loop of the KinFu large scale application around   *)
(* it: the poses, the cube that follows the camera, the clouds saved       *)
(* before it moves, and with SLAC the fragments and the thread that        *)
(* optimizes them.  A pose is a place on one axis, a camera that looks     *)
(* along it has its target at the pose; what a registration finds is       *)
(* nondeterministic, and whether it gets lost.                             *)
(***************************************************************************)
EXTENDS Integers, Sequences

CONSTANTS
    Modes,      \* the kinds of odometry, see Init
    Steps,      \* how far a camera moves between two poses
    Given,      \* the poses frames come with, or registrations find that start from them
    InitPose,   \* init_tcam_; the cube is around it when it is at its origin
    Threshold,  \* shifting_distance_
    SlacNum,    \* slac_num_: frames of a fragment
    Places,     \* bound: the poses registrations find
    MaxFrames,  \* bound: frames of a run
    MaxMissed   \* bound: shifts given up, because no frame came, before one is done

Distance(p, q) == IF p > q THEN p - q ELSE q - p

ASSUME TrackerAssumption ==
    /\ Modes \subseteq {"icp", "kintinuous", "rgbd", "bdr", "kdtree", "slac"}
    /\ Steps \subseteq Int /\ 0 \in Steps /\ InitPose \in Int /\ Given \subseteq Int
    /\ Threshold \in Nat /\ SlacNum \in Nat \ {0, 1}
    /\ InitPose \in Places /\ MaxFrames \in Nat /\ MaxMissed \in Nat

(* No camera moves without bound between two frames. *)
ASSUME StepsAssumption ==
    \E longest \in Steps : \A s \in Steps : Distance(s, 0) <= Distance(longest, 0)

VARIABLES
    mode,        \* which odometry execute() calls
    app,         \* where the thread of execute() is
    time,        \* global_time_
    size,        \* rmats_.size()
    pose,        \* the last of rmats_ and tvecs_
    initTrans,   \* init_trans_
    cube,        \* the pose whose target is at the center of the cube
    forceShift,  \* force_shift_
    unsaved,     \* has the volume something that no file has?
    missed,      \* clearForceShift() since the cube has moved
    strayed,     \* how far from the cube a given pose has put the camera since then
    lastScan,    \* perform_last_scan_
    finished,    \* the main loop ends: finished_, or a frame was lost
    frames       \* frames handled, and those lost

cameraVars == <<time, size, pose, initTrans, cube, missed, strayed>>
loopVars == <<mode, lastScan, finished>>

VARIABLES
    base,        \* base_pose_cur_: the frame in which it was taken
    volume2,     \* tsdf_volume2_: the bases of the frames integrated in it
    fragments,   \* fragments_: each with the bases of its frames
    bases,       \* base_pose_
    corres,      \* corres_: pairs of fragments
    mutex,       \* who has slac_mutex_
    optimizer,   \* where the thread of OptimizeSLAC() is
    started,     \* how many were started
    snapshot     \* what the optimizer has copied

sharedVars == <<fragments, bases, corres>>
optimizerVars == <<optimizer, started, snapshot>>
slacVars == <<base, volume2, sharedVars, mutex, optimizerVars>>
vars == <<app, frames, forceShift, unsaved, cameraVars, loopVars, slacVars>>

-----------------------------------------------------------------------------
Init ==
    /\ mode \in Modes /\ lastScan = FALSE /\ finished = FALSE
    /\ app = "idle" /\ frames = 0 /\ forceShift = FALSE /\ unsaved = FALSE
    /\ time = 0 /\ size = 1 /\ pose = InitPose /\ initTrans = 0 /\ cube = InitPose
    /\ missed = 0 /\ strayed = 0
    /\ base = 0 /\ volume2 = {} /\ fragments = <<>> /\ bases = <<>> /\ corres = {}
    /\ mutex = "free" /\ optimizer = "off" /\ started = 0
    /\ snapshot = [fragments |-> <<>>, bases |-> <<>>, corres |-> {}]

(* The keys of the window, handled between two calls of execute(). *)
ForceShift ==
    /\ app = "idle" /\ ~finished
    /\ forceShift' = TRUE
    /\ UNCHANGED <<app, frames, unsaved, cameraVars, loopVars, slacVars>>

PerformLastScan ==
    /\ app = "idle" /\ ~finished
    /\ lastScan' = TRUE
    /\ UNCHANGED <<app, frames, forceShift, unsaved, cameraVars, mode, finished, slacVars>>

ExtractAndMeshWorld ==
    /\ app = "idle" /\ ~finished
    /\ finished' = TRUE
    /\ UNCHANGED <<app, frames, forceShift, unsaved, cameraVars, mode, lastScan, slacVars>>

HasFlags == mode \in {"icp", "kintinuous", "rgbd"}   \* the modes that get a frame_ptr
Resets == mode \in {"kintinuous", "rgbd", "slac"}    \* the modes in which a lost frame resets

(* execute() saves the cloud when the cube moves with the next frame, that *)
(* may come with a pose (its type_ is not Kinfu); when no frame has come   *)
(* in time it gives the shift up.                                          *)
Execute ==
    /\ app = "idle" /\ ~finished /\ frames < MaxFrames
    /\ unsaved' = (unsaved /\ ~forceShift)
    /\ \/ app' \in (IF HasFlags THEN {"frame", "given"} ELSE {"frame"})
          /\ UNCHANGED <<forceShift, missed>>
       \/ /\ missed < MaxMissed
          /\ forceShift' = FALSE
          /\ missed' = IF forceShift THEN missed + 1 ELSE missed
          /\ UNCHANGED app
    /\ UNCHANGED <<frames, time, size, pose, initTrans, cube, strayed, loopVars, slacVars>>

-----------------------------------------------------------------------------
(* Mutant: the reset multiplies by the last pose only. *)
ResetToLast(p) ==
    /\ initTrans' = IF time > 0 THEN initTrans + pose ELSE initTrans
    /\ size' = 1 /\ pose' = p /\ cube' = InitPose
    /\ missed' = 0 /\ strayed' = Distance(p, InitPose)

(* reset(), after which the first pose is p. *)
ResetTo(p) ==
    /\ initTrans' = IF time > 0 THEN initTrans + pose - InitPose ELSE initTrans
    /\ size' = 1 /\ pose' = p /\ cube' = InitPose
    /\ missed' = 0 /\ strayed' = Distance(p, InitPose)

(* The second volume after reset(). *)
ResetVolume2 == {}

HasFrame == app \in {"frame", "given"}

(* The frame at global_time_ 0, or with ResetFlag, when DirectApply makes  *)
(* any pose the first one of the new session, whose cube and init_trans_   *)
(* know nothing of it.  With SLAC it is the base of the first fragment.    *)
FirstFrame ==
    /\ HasFrame
    /\ \/ time = 0 /\ UNCHANGED <<initTrans, size, pose, cube, missed, strayed>>
       \/ HasFlags /\ ResetTo(InitPose)
       \/ app = "given" /\ \E p \in Given : ResetTo(p)
    /\ IF mode = "slac"
       THEN base' = frames + 1 /\ volume2' = volume2 \union {frames + 1}
       ELSE UNCHANGED <<base, volume2>>
    /\ unsaved' = TRUE /\ time' = 1 /\ frames' = frames + 1 /\ app' = "idle"
    /\ finished' = (finished \/ lastScan)
    /\ UNCHANGED <<mode, forceShift, lastScan, sharedVars, mutex, optimizerVars>>

(* The registration finds no pose.  Three modes mean to end the main loop  *)
(* unless the volume has only its first frame; kintinuous never does, it   *)
(* looks at the time after reset() has set it to 0.                        *)
Lost ==
    /\ HasFrame /\ time > 0 /\ mode # "kdtree"
    /\ frames' = frames + 1 /\ app' = "idle"
    /\ IF Resets
       THEN ResetTo(InitPose) /\ time' = 0 /\ unsaved' = FALSE /\ volume2' = ResetVolume2
       ELSE UNCHANGED <<cameraVars, unsaved, volume2>>
    /\ finished' = (mode \in {"icp", "kintinuous", "bdr"} /\ time' > 1)
    /\ UNCHANGED <<mode, forceShift, lastScan, base, sharedVars, mutex, optimizerVars>>

(* Mutant: the cube moves in the frame that notices the distance. *)
ShiftAtOnce(p) ==
    LET far == forceShift \/ Distance(p, cube) > Threshold
    IN  /\ forceShift' = FALSE
        /\ cube' = IF far THEN p ELSE cube
        /\ missed' = IF far THEN 0 ELSE missed

(* Mutant: the cube moves to where the camera was. *)
ShiftToPrevious(p) ==
    IF forceShift
    THEN forceShift' = FALSE /\ cube' = pose /\ missed' = 0
    ELSE forceShift' = (Distance(p, cube) > Threshold) /\ UNCHANGED <<cube, missed>>

(* The cube moves one frame after the target has left its middle. *)
CheckForShift(p) ==
    IF forceShift
    THEN forceShift' = FALSE /\ cube' = p /\ missed' = 0
    ELSE forceShift' = (Distance(p, cube) > Threshold) /\ UNCHANGED <<cube, missed>>

(* Where a registration may find the camera, or what it is told. *)
NewPoses ==
    IF app = "given"
    THEN Given
    ELSE {pose + s : s \in Steps} \intersect Places

(* With IgnoreRegistrationFlag the pose before is saved again. *)
SavePose(registered, p) == pose' = (IF registered THEN p ELSE pose) /\ size' = size + 1

(* A frame whose pose is found, or given, up to where the second volume    *)
(* comes in.                                                               *)
Registered ==
    /\ HasFrame /\ time > 0
    /\ \E p \in NewPoses, registered \in BOOLEAN, integrate \in BOOLEAN :
        /\ ~HasFlags => registered /\ integrate
        /\ SavePose(registered, p)
        /\ unsaved' = (unsaved \/ integrate)
    /\ CheckForShift(pose')
    /\ strayed' = IF app = "given" THEN Distance(pose', cube')
                  ELSE IF forceShift THEN 0 ELSE strayed
    /\ frames' = frames + 1
    /\ UNCHANGED <<initTrans, loopVars>>

Frame ==
    /\ mode # "slac" /\ Registered
    /\ time' = time + 1 /\ app' = "idle"
    /\ UNCHANGED slacVars

-----------------------------------------------------------------------------
(* slac(): the frame is also integrated into the fragment's own volume.    *)
SlacFrame ==
    /\ mode = "slac" /\ Registered
    /\ base' = IF time % SlacNum = 0 THEN frames + 1 ELSE base
    /\ volume2' = volume2 \union {base'}
    /\ IF (time + 1) % SlacNum = 0
       THEN app' = "lock" /\ UNCHANGED time
       ELSE app' = "idle" /\ time' = time + 1
    /\ UNCHANGED <<sharedVars, mutex, optimizerVars>>

TrackerLock ==
    /\ app = "lock" /\ mutex = "free"
    /\ app' = "fragment" /\ mutex' = "tracker"
    /\ UNCHANGED <<frames, forceShift, unsaved, cameraVars, loopVars, base, volume2, sharedVars,
                   optimizerVars>>

(* The first half of what the mutex protects. *)
PushFragment ==
    /\ app = "fragment"
    /\ fragments' = Append(fragments, volume2) /\ bases' = Append(bases, base)
    /\ app' = "pairs"
    /\ UNCHANGED <<frames, forceShift, unsaved, cameraVars, loopVars, base, volume2, corres, mutex,
                   optimizerVars>>

(* A fragment is paired with up to three before it. *)
PairsOf(n) == {<<i, n>> : i \in {j \in 1 .. n - 1 : j >= n - 3}}

PushPairs ==
    /\ app = "pairs"
    /\ corres' = corres \union PairsOf(Len(fragments))
    /\ mutex' = "free" /\ app' = "spawn"
    /\ UNCHANGED <<frames, forceShift, unsaved, cameraVars, loopVars, base, volume2, fragments,
                   bases, optimizerVars>>

SpawnNow == Len(fragments) = 4

Spawn ==
    /\ app = "spawn"
    /\ volume2' = {}
    /\ IF SpawnNow
       THEN optimizer' = "lock" /\ started' = started + 1
       ELSE UNCHANGED <<optimizer, started>>
    /\ time' = time + 1 /\ app' = "idle"
    /\ UNCHANGED <<frames, forceShift, unsaved, size, pose, initTrans, cube, missed, strayed,
                   loopVars, base, sharedVars, mutex, snapshot>>

-----------------------------------------------------------------------------
(* OptimizeSLAC(): copy under the mutex, work without it, write the grid   *)
(* under it, for ever.                                                     *)
OptimizerStep(from, to) ==
    /\ optimizer = from /\ optimizer' = to
    /\ UNCHANGED <<app, frames, forceShift, unsaved, cameraVars, loopVars, base, volume2,
                   sharedVars, started>>

(* Mutant: the optimizer copies without the mutex. *)
LockNothing == mutex' = mutex

TakeMutex == mutex = "free" /\ mutex' = "optimizer"

(* Mutant: the optimizer goes on with the mutex in its hands. *)
KeepMutex == mutex' = mutex

ReleaseMutex == mutex' = "free"

OptimizerLock == OptimizerStep("lock", "copy") /\ TakeMutex /\ UNCHANGED snapshot

CopyFragments ==
    /\ OptimizerStep("copy", "bases")
    /\ snapshot' = [snapshot EXCEPT !.fragments = fragments, !.corres = corres]
    /\ UNCHANGED mutex

CopyBases ==
    /\ OptimizerStep("bases", "work")
    /\ snapshot' = [snapshot EXCEPT !.bases = bases]
    /\ ReleaseMutex

LockGrid == OptimizerStep("work", "write") /\ TakeMutex /\ UNCHANGED snapshot

WriteGrid == OptimizerStep("write", "lock") /\ ReleaseMutex /\ UNCHANGED snapshot

OptimizeSLAC == OptimizerLock \/ CopyFragments \/ CopyBases \/ LockGrid \/ WriteGrid

Keys == ForceShift \/ PerformLastScan \/ ExtractAndMeshWorld
Track == FirstFrame \/ Lost \/ Frame \/ SlacFrame
Fragment == PushFragment \/ PushPairs \/ Spawn

Next == Keys \/ Execute \/ Track \/ TrackerLock \/ Fragment \/ OptimizeSLAC

(* Both threads run; the mutex is free all the time the optimizer works,   *)
(* seconds against the moments it is held, so that the other gets it.      *)
Fairness ==
    /\ WF_vars(Track) /\ WF_vars(Fragment) /\ SF_vars(TrackerLock)
    /\ WF_vars(CopyFragments \/ CopyBases \/ WriteGrid) /\ SF_vars(OptimizerLock \/ LockGrid)

Spec == Init /\ [][Next]_vars /\ Fairness

-----------------------------------------------------------------------------
MaxStep == CHOOSE m \in {Distance(s, 0) : s \in Steps} : \A s \in Steps : Distance(s, 0) <= m

(* Every variable has its type. *)
TypeOK ==
    /\ lastScan \in BOOLEAN /\ finished \in BOOLEAN
    /\ forceShift \in BOOLEAN /\ unsaved \in BOOLEAN
    /\ mode \in Modes /\ app \in {"idle", "frame", "given", "lock", "fragment", "pairs", "spawn"}
    /\ frames \in 0 .. MaxFrames /\ time \in 0 .. MaxFrames
    /\ size \in 1 .. MaxFrames + 1 /\ missed \in 0 .. MaxMissed /\ strayed \in Nat
    /\ pose \in Int /\ initTrans \in Int /\ cube \in Int
    /\ base \in 0 .. MaxFrames /\ volume2 \subseteq 1 .. MaxFrames
    /\ mutex \in {"free", "tracker", "optimizer"} /\ started \in Nat
    /\ optimizer \in {"off", "lock", "copy", "bases", "work", "write"}

(* rmats_[global_time_ - 1], the pose a frame starts from, is the last one *)
(* saved, whatever resets, lost and ignored frames there were.             *)
PosesMatchTime == app = "idle" \/ HasFrame => size = (IF time = 0 THEN 1 ELSE time)

(* The trajectory in the coordinates of the first session goes on by what  *)
(* the camera moves, but for the poses the frames come with, which are     *)
(* taken as they are: a reset moves what it takes from the pose to         *)
(* init_trans_, also when given poses have made it any, and frames that    *)
(* are lost or ignored move nothing.                                       *)
NoJump == [][app # "given" => (initTrans + pose)' - (initTrans + pose) \in Steps]_vars

Longer(d, e) == IF d > e THEN d ELSE e

(* Between frames the cube is around the camera's target unless a shift is *)
(* due with the next frame or was given up.  Even then it is one step      *)
(* behind, and one more for each shift given up, from the threshold or     *)
(* from where a pose that a frame came with has put the camera: moved by a *)
(* frame, the camera does not get away from the cube.                      *)
CubeFollows ==
    app = "idle" /\ time > 0 =>
        /\ time > 1 /\ ~forceShift /\ missed = 0 => Distance(pose, cube) <= Threshold
        /\ Distance(pose, cube) <= Longer(Threshold, strayed) + (1 + missed) * MaxStep

(* Whatever is in the volume when the cube moves on has been written to a  *)
(* file by execute() since it was integrated.                              *)
SavedBeforeShift == [][cube' # cube /\ size' # 1 => ~unsaved]_vars

(* All frames of a fragment were integrated relative to the base that is   *)
(* saved with it, also when tracking was lost amid a fragment.             *)
FragmentOneBase == \A i \in DOMAIN bases : fragments[i] = {bases[i]}

(* What the optimizer works on is from one moment: as many bases as        *)
(* fragments, and every fragment with all its pairs.                       *)
SnapshotConsistent ==
    optimizer \in {"work", "write"} =>
        /\ Len(snapshot.fragments) = Len(snapshot.bases)
        /\ snapshot.corres = UNION {PairsOf(n) : n \in DOMAIN snapshot.fragments}

(* There is one optimizer thread at most, also after a reset. *)
OneOptimizer == started <= 1

(* Once there are four fragments every one reaches the optimizer, which    *)
(* does not keep the tracker from adding more.                             *)
FragmentsOptimized ==
    /\ \A n \in 4 .. MaxFrames \div SlacNum :
           Len(fragments) = n ~> Len(snapshot.fragments) >= n
    /\ app = "lock" ~> app = "idle"
=============================================================================
