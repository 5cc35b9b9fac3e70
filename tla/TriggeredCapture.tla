-------------------------- MODULE TriggeredCapture --------------------------
(***************************************************************************)
(* KinFuLSApp's main loop driving an ONI file frame by frame.  The main    *)
(* thread asks ONIGrabber::trigger() for the next records of the file; the *)
(* device's image and depth threads wake up, fetch what the generators     *)
(* hold and feed the grabber's rgb_sync_; the pair comes back to the app's *)
(* callback on whichever of those threads completed it, with all mutexes   *)
(* of the synchronizer held, and is passed to the main loop under          *)
(* data_ready_mutex_, which the main loop gives back only while it waits.  *)
(* Before some triggers the main loop seeks in the file and clears the     *)
(* synchronizer: a schedule, a graph of frame pairs or a bounding box says *)
(* when.  Stamps and frame ids are one number.                             *)
(***************************************************************************)
EXTENDS Integers, Sequences, FiniteSets

CONSTANTS
    Image, Depth,    \* the device's two data threads
    Main,            \* the application's main thread
    Helpers,         \* bound: threads trigger() may spawn
    NoThread,
    Frames,          \* frames in the file
    Modes,           \* the ways the application is started, see ModesAssumption
    Rate,            \* fragment_rate_
    MaxMisses,       \* misses in a row before the main loop gives up, 20
    MaxCalls         \* bound: seeks and spawned helpers

(* The application triggers without seeking, follows a list of frames or    *)
(* of edges <<frame_i, frame_j>>, or skips frames outside a bounding box.   *)
Kinds == {"plain", "schedule", "graph", "bbox"}
ASSUME ModesAssumption ==
    /\ Frames \in Nat \ {0} /\ Rate \in Nat \ {0}
    /\ MaxMisses \in Nat \ {0} /\ MaxCalls \in Nat
    /\ \A m \in Modes :
         /\ m.kind \in Kinds
         /\ m.kind = "schedule" => m.plan \in Seq(1 .. Frames)
         /\ m.kind = "graph" => m.plan \in Seq((1 .. Frames) \X (Rate .. Frames))

DeviceThreads == {Image, Depth}
AppThreads == DeviceThreads \union Helpers \union {Main}

(* One thread fetches images, another one depth, a third is the main one.  *)
ASSUME ThreadsAssumption ==
    /\ Image # Depth /\ NoThread \notin AppThreads
    /\ Main \notin DeviceThreads \union Helpers /\ DeviceThreads \intersect Helpers = {}

VARIABLES
    (* the state of rgb_sync_, see Synchronizer *)
    queueT1, queueT2, mutex1, mutex2, publishMutex, cb, callbackCounter,
    pc, t1, t2, todo, seen1, seen2, delivered, forgotten, calls,
    (* the file and the device *)
    position,        \* the next record: image and depth of each frame alternate
    data,            \* the frame each generator holds, 0 for none
    device,          \* where each data thread is
    held,            \* the frame it has fetched
    (* the application *)
    mode, index,     \* how it was started, the next entry of its plan
    headFrame, tailFrame,  \* rgbd_graph_.head_frame_, tail_frame_
    mainAt,          \* where the main loop is
    target,          \* the frame it seeks
    updated,         \* data_updated_
    hasData, misses, \* has_data, ten_has_data_fail_then_we_call_it_a_day_
    missed,          \* history: has a wait ever timed out?
    crossed,         \* history: see SeekDepthFrame
    exit, frameId,   \* exit_, frame_id_
    stored           \* threads in the callback between unlock and notify_one

syncVars == <<queueT1, queueT2, mutex1, mutex2, publishMutex, cb, callbackCounter,
              pc, t1, t2, todo, seen1, seen2, delivered, forgotten, calls>>
fileVars == <<position, data>>
deviceVars == <<device, held>>
planVars == <<mode, index, headFrame, tailFrame>>
loopVars == <<target, updated, hasData, misses, missed, crossed>>
frameVars == <<exit, frameId, stored>>
vars == <<syncVars, fileVars, deviceVars, planVars, loopVars, mainAt, frameVars>>

Sync == INSTANCE Synchronizer WITH
    Threads <- AppThreads, Adders0 <- {Image}, Adders1 <- {Depth},
    Finalizers <- Helpers, Resetters <- {Main}, Subscribers <- {Main},
    Stamps <- 1 .. Frames, Modulus <- 4 * Frames, MaxCallbacks <- 1

Init ==
    /\ Sync!Init
    /\ position = 1 /\ data = [t \in DeviceThreads |-> 0]
    /\ device = [t \in DeviceThreads |-> "busy"]
    /\ held = [t \in DeviceThreads |-> 0]
    /\ mode \in Modes /\ index = 1 /\ headFrame = 0 /\ tailFrame = 0
    /\ mainAt = "construct" /\ target = 0
    /\ updated = FALSE /\ hasData = FALSE /\ misses = 0
    /\ missed = FALSE /\ crossed = FALSE
    /\ exit = FALSE /\ frameId = 0 /\ stored = {}

LoopGoto(from, to) == mainAt = from /\ mainAt' = to

(* Mutant: the main loop keeps the mutex when it leaves. *)
DataMutexFreeInWait == mainAt \in {"waiting", "woken"}

(* The main loop holds data_ready_mutex_ except in timed_wait; a callback   *)
(* takes and releases it in one step.                                      *)
DataMutexFree == mainAt \in {"waiting", "woken", "done"}

-----------------------------------------------------------------------------
(* processGraphSchedule(): whether, and where, to seek before the trigger. *)

SeekTo(f) ==
    /\ Sync!Reset(Main)
    /\ LoopGoto("loop", "seeking")
    /\ target' = f
    /\ UNCHANGED exit

NoSeek ==
    /\ LoopGoto("loop", "trigger1")
    /\ UNCHANGED <<syncVars, target, exit>>

Leave ==
    /\ LoopGoto("loop", "done")
    /\ exit' = TRUE
    /\ UNCHANGED <<syncVars, target>>

(* Mutant: the application never goes back. *)
SeekForward(f) ==
    \/ frameId + 1 < f /\ SeekTo(f)
    \/ frameId + 1 >= f /\ NoSeek

SeekUnlessNext(f) ==
    \/ frameId + 1 # f /\ SeekTo(f)
    \/ frameId + 1 = f /\ NoSeek

Ended == index > Len(mode.plan)

FollowPlain ==
    /\ mode.kind = "plain"
    /\ NoSeek
    /\ UNCHANGED planVars

FollowSchedule ==
    /\ mode.kind = "schedule"
    /\ \/ Ended /\ Leave /\ UNCHANGED index
       \/ ~Ended /\ SeekUnlessNext(mode.plan[index]) /\ index' = index + 1
    /\ UNCHANGED <<mode, headFrame, tailFrame>>

FrameI(k) == mode.plan[k][1]
FrameJ(k) == mode.plan[k][2]

FragmentHead(k) == FrameJ(k) - Rate + 1

StartEdge(k) ==
    /\ headFrame' = FragmentHead(k)
    /\ SeekTo(FragmentHead(k))

(* Mutant: a new edge always keeps the fragment of the one before. *)
NextEdgeSameHead ==
    /\ index' = index + 1
    /\ UNCHANGED <<headFrame, tailFrame>>
    /\ \/ index = Len(mode.plan) /\ Leave
       \/ index < Len(mode.plan) /\ SeekUnlessNext(FrameI(index + 1))

NextEdge ==
    /\ index' = index + 1
    /\ UNCHANGED tailFrame
    /\ \/ index = Len(mode.plan) /\ Leave /\ UNCHANGED headFrame
       \/ /\ index < Len(mode.plan)
          /\ \/ /\ FrameJ(index + 1) = FrameJ(index)
                /\ SeekUnlessNext(FrameI(index + 1))
                /\ UNCHANGED headFrame
             \/ /\ FrameJ(index + 1) # FrameJ(index)
                /\ StartEdge(index + 1)

FollowGraph ==
    /\ mode.kind = "graph"
    /\ UNCHANGED mode
    /\ \/ Ended /\ NoSeek /\ UNCHANGED <<index, headFrame, tailFrame>>
       \/ /\ ~Ended /\ frameId = 0
          /\ StartEdge(index)
          /\ UNCHANGED <<index, tailFrame>>
       \/ /\ ~Ended /\ frameId # 0 /\ frameId = FrameJ(index)
          /\ tailFrame' = frameId
          /\ SeekUnlessNext(FrameI(index))
          /\ UNCHANGED <<index, headFrame>>
       \/ /\ ~Ended /\ frameId # 0 /\ frameId # FrameJ(index) /\ frameId = FrameI(index)
          /\ NextEdge
       \/ /\ ~Ended /\ frameId \notin {0, FrameI(index), FrameJ(index)}
          /\ NoSeek
          /\ UNCHANGED <<index, headFrame, tailFrame>>

(* Which frames' boxes kinfu_ intersects depends on the pose: any choice.   *)
(* bbox_.frames_ has one entry for each frame.                             *)
FollowBox ==
    /\ mode.kind = "bbox"
    /\ UNCHANGED planVars
    /\ \/ frameId \notin 1 .. (Frames - 1) /\ NoSeek
       \/ /\ frameId \in 1 .. (Frames - 1)
          /\ \/ Leave
             \/ NoSeek
             \/ \E f \in (frameId + 1) .. (Frames - 1) : SeekTo(f + 1)

ProcessSchedule ==
    /\ FollowPlain \/ FollowSchedule \/ FollowGraph \/ FollowBox
    /\ UNCHANGED <<fileVars, deviceVars, updated, hasData, misses, missed, crossed, frameId, stored>>

-----------------------------------------------------------------------------
(* The grabber and the device, on the main thread.                         *)

(* ONIGrabber's constructor registers its callback with rgb_sync_. *)
Construct ==
    /\ LoopGoto("construct", "loop")
    /\ Sync!AddCallback(Main)
    /\ UNCHANGED <<fileVars, deviceVars, planVars, loopVars, frameVars>>

(* New data of a generator notify its data thread: a thread that is not    *)
(* waiting misses it.                                                      *)
Notified(threads) ==
    device' = [t \in DeviceThreads |->
        IF t \in threads /\ device[t] = "waiting" THEN "notified" ELSE device[t]]

(* Mutant: the player goes on behind the frame after the one sought.       *)
SeekTooFar ==
    /\ LoopGoto("seeking", "trigger1")
    /\ pc[Main] = "idle"
    /\ position' = 2 * target + 3
    /\ data' = [t \in DeviceThreads |-> target]
    /\ Notified(DeviceThreads)
    /\ crossed' = (crossed \/ queueT1 # <<>> \/ queueT2 # <<>>
                          \/ \E t \in DeviceThreads : device[t] = "fetched")
    /\ UNCHANGED <<syncVars, held, planVars, target, updated, hasData, misses, missed, frameVars>>

(* seekDepthFrame(): after rgb_sync_.reset() the player gives every         *)
(* generator the frame sought and goes on behind it.                       *)
SeekDepthFrame ==
    /\ LoopGoto("seeking", "trigger1")
    /\ pc[Main] = "idle"
    /\ position' = 2 * target + 1
    /\ data' = [t \in DeviceThreads |-> target]
    /\ Notified(DeviceThreads)
    /\ crossed' = (crossed \/ queueT1 # <<>> \/ queueT2 # <<>>
                          \/ \E t \in DeviceThreads : device[t] = "fetched")
    /\ UNCHANGED <<syncVars, held, planVars, target, updated, hasData, misses, missed, frameVars>>

RecordOf(p) == IF p % 2 = 1 THEN Image ELSE Depth
ReadNext ==
    /\ position' = position + 1
    /\ data' = [data EXCEPT ![RecordOf(position)] = (position + 1) \div 2]
    /\ Notified({RecordOf(position)})

AtEnd == position > 2 * Frames

(* One device_->trigger() for each of the two streams of the file. *)
Trigger(from, to) ==
    /\ LoopGoto(from, to)
    /\ \/ AtEnd /\ UNCHANGED <<fileVars, device>>
       \/ ~AtEnd /\ ReadNext
    /\ updated' = IF from = "trigger1" THEN ~AtEnd ELSE updated \/ ~AtEnd
    /\ UNCHANGED <<syncVars, held, planVars, target, hasData, misses, missed, crossed, frameVars>>

(* The end of trigger(): with no new data, what is queued is finalized. *)
EndTrigger ==
    /\ LoopGoto("flush", "waiting")
    /\ \/ ~updated /\ queueT1 # <<>> /\ queueT2 # <<>> /\ \E h \in Helpers : Sync!Finalize(h)
       \/ /\ \/ updated \/ queueT1 = <<>> \/ queueT2 = <<>>
             \/ calls = MaxCalls \/ \A h \in Helpers : pc[h] # "idle"
          /\ UNCHANGED syncVars
    /\ UNCHANGED <<fileVars, deviceVars, planVars, loopVars, frameVars>>

-----------------------------------------------------------------------------
(* The main loop's wait for the frame, and what it does with it.           *)

Timeout ==
    /\ LoopGoto("waiting", "woken")
    /\ hasData' = FALSE
    /\ UNCHANGED <<syncVars, fileVars, deviceVars, planVars,
                   target, updated, misses, missed, crossed, frameVars>>

(* Mutant: the misses are not counted. *)
ExecuteForever ==
    /\ LoopGoto("woken", "loop")
    /\ UNCHANGED <<syncVars, fileVars, deviceVars, planVars, loopVars, frameVars>>

(* timed_wait() returns with the mutex; execute(); give up or go on. *)
Execute ==
    /\ misses' = IF hasData THEN 0 ELSE misses + 1
    /\ missed' = (missed \/ ~hasData)
    /\ \/ misses' < MaxMisses /\ LoopGoto("woken", "loop") /\ UNCHANGED exit
       \/ misses' >= MaxMisses /\ LoopGoto("woken", "done") /\ exit' = TRUE
    /\ UNCHANGED <<syncVars, fileVars, deviceVars, planVars,
                   target, updated, hasData, crossed, frameId, stored>>

-----------------------------------------------------------------------------
(* The data threads: wait for a notification, fetch what the generator      *)
(* holds by then, hand it to rgb_sync_ if the application still listens.   *)

DeviceGoto(t, from, to) ==
    /\ device[t] = from
    /\ device' = [device EXCEPT ![t] = to]

WaitForData(t) ==
    /\ pc[t] = "idle"
    /\ DeviceGoto(t, "busy", "waiting")
    /\ UNCHANGED <<syncVars, fileVars, held, planVars, loopVars, mainAt, frameVars>>

Fetch(t) ==
    /\ DeviceGoto(t, "notified", "fetched")
    /\ held' = [held EXCEPT ![t] = data[t]]
    /\ UNCHANGED <<syncVars, fileVars, planVars, loopVars, mainAt, frameVars>>

DataCallback(t) ==
    /\ DeviceGoto(t, "fetched", "busy")
    /\ \/ mainAt = "done" /\ UNCHANGED syncVars
       \/ mainAt # "done" /\ t = Image /\ Sync!Add0(t, held[t])
       \/ mainAt # "done" /\ t = Depth /\ Sync!Add1(t, held[t])
    /\ UNCHANGED <<fileVars, held, planVars, loopVars, mainAt, frameVars>>

-----------------------------------------------------------------------------
(* source_cb2_trigger(), on a thread that holds the synchronizer's mutexes. *)

Return(t) == \E id \in todo[t] : Sync!Call(t, id)

StoreFrame(t) ==
    /\ pc[t] \in Sync!Delivering /\ todo[t] # {} /\ t \notin stored
    /\ DataMutexFree /\ ~exit
    /\ frameId' = Head(queueT2)
    /\ stored' = stored \union {t}
    /\ UNCHANGED <<syncVars, fileVars, deviceVars, planVars, loopVars, mainAt, exit>>

IgnoreFrame(t) ==
    /\ pc[t] \in Sync!Delivering /\ todo[t] # {} /\ t \notin stored
    /\ DataMutexFree /\ exit
    /\ Return(t)
    /\ UNCHANGED <<fileVars, deviceVars, planVars, loopVars, mainAt, frameVars>>

(* data_ready_cond_.notify_one(), after the mutex has been given back. *)
NotifyMain(t) ==
    /\ t \in stored
    /\ stored' = stored \ {t}
    /\ Return(t)
    /\ \/ LoopGoto("waiting", "woken") /\ hasData' = TRUE
       \/ mainAt # "waiting" /\ UNCHANGED <<mainAt, hasData>>
    /\ UNCHANGED <<fileVars, deviceVars, planVars, target, updated, misses, missed, crossed,
                   exit, frameId>>

SourceCallback(t) == StoreFrame(t) \/ IgnoreFrame(t) \/ NotifyMain(t)

(* What a thread does inside rgb_sync_, the application's callback aside. *)
InSync(t) ==
    /\ \/ Sync!StartPublish(t) \/ Sync!Front1(t) \/ Sync!Front2(t) \/ Sync!Match(t)
       \/ Sync!PublishData1(t) \/ Sync!PublishData2(t) \/ Sync!PopFronts(t)
       \/ Sync!FinalizePublish(t) \/ Sync!Finalize1(t) \/ Sync!Finalize2(t)
       \/ Sync!Reset1(t) \/ Sync!Reset2(t)
    /\ UNCHANGED <<fileVars, deviceVars, planVars, loopVars, mainAt, frameVars>>

MainLoop ==
    \/ Construct \/ ProcessSchedule \/ SeekDepthFrame
    \/ Trigger("trigger1", "trigger2") \/ Trigger("trigger2", "flush") \/ EndTrigger
    \/ Timeout \/ Execute

DataThread(t) == WaitForData(t) \/ Fetch(t) \/ DataCallback(t)

(* A thread is at one place: in its own loop or in a call it has made. *)
Thread(t) ==
    \/ t = Main /\ MainLoop
    \/ t \in DeviceThreads /\ DataThread(t)
    \/ InSync(t)
    \/ SourceCallback(t)

Next == \E t \in AppThreads : Thread(t)

Spec == Init /\ [][Next]_vars

(* Every thread is scheduled, and a mutex that stays free is got. *)
FairSpec == Spec /\ \A t \in AppThreads : WF_vars(Thread(t))

-----------------------------------------------------------------------------
TypeOK ==
    /\ position \in 1 .. (2 * Frames + 1)
    /\ data \in [DeviceThreads -> 0 .. Frames]
    /\ device \in [DeviceThreads -> {"busy", "waiting", "notified", "fetched"}]
    /\ held \in [DeviceThreads -> 0 .. Frames]
    /\ mode \in Modes /\ index \in Nat /\ headFrame \in Int /\ tailFrame \in Nat
    /\ mainAt \in {"construct", "loop", "seeking", "trigger1", "trigger2", "flush",
                   "waiting", "woken", "done"}
    /\ {updated, hasData, missed, crossed, exit} \subseteq BOOLEAN
    /\ misses \in 0 .. MaxMisses /\ frameId \in 0 .. Frames
    /\ stored \subseteq AppThreads

Plain == mode.kind = "plain"

(* The frames of a file played without seeking come to the main loop in    *)
(* the order of the file, on whatever threads they are put together, also  *)
(* when the main loop has given up waiting for the one before.             *)
FramesInOrder == [][Plain => frameId' >= frameId]_vars

(* Without seeks the main loop comes to an end after the last frame, and   *)
(* everyone who called into rgb_sync_ comes back, the helper that finalizes *)
(* and those that wait for data_ready_mutex_ included.                     *)
MainLoopEnds == Plain ~> (mainAt = "done" /\ \A t \in AppThreads : pc[t] = "idle")

(* The threads wait for each other in one way only: a callback for          *)
(* data_ready_mutex_, which the main loop keeps while it resets rgb_sync_   *)
(* for a seek, and the main loop for a mutex of rgb_sync_ that the thread   *)
(* of the callback keeps.  Otherwise somebody can go on until the main loop *)
(* has ended and nobody is in a call, unless the reset left a thread at the *)
(* front of an empty queue, where anything may happen.                     *)
InCallback(t) == pc[t] \in Sync!Delivering /\ todo[t] # {} /\ t \notin stored
MainBlockedBy(t) ==
    \/ pc[Main] = "reset" /\ mutex1 = t
    \/ pc[Main] = "reset2" /\ mutex2 = t
SeekDeadlock == mainAt = "seeking" /\ \E t \in AppThreads : InCallback(t) /\ MainBlockedBy(t)

(* The main loop may go on unless it waits for its call of reset(), or is  *)
(* over; a thread in a call unless it waits for a mutex.                   *)
LoopMayGoOn ==
    \/ mainAt = "construct" /\ publishMutex = NoThread
    \/ mainAt = "loop" /\ calls < MaxCalls    \* the bound: no more seeks
    \/ mainAt = "seeking" /\ pc[Main] = "idle"
    \/ mainAt \in {"trigger1", "trigger2", "flush", "waiting", "woken"}
CallMayGoOn(t) == Sync!MayContinue(t) /\ (InCallback(t) => DataMutexFree)
MayGoOn(t) == (t = Main /\ LoopMayGoOn) \/ CallMayGoOn(t)

SomeoneMayGoOn ==
    \/ \E t \in AppThreads : MayGoOn(t)
    \/ mainAt = "done" /\ \A t \in AppThreads : pc[t] = "idle"
    \/ SeekDeadlock
    \/ \E t \in AppThreads : pc[t] = "undefined"
    \/ mainAt = "loop" /\ calls = MaxCalls

NoOtherDeadlock ==
    /\ TypeOK /\ SomeoneMayGoOn
    /\ \A t \in AppThreads : MayGoOn(t) => ENABLED Thread(t)

(* "Processing finished. move on to the next index_": an edge is left only  *)
(* once the fragment's last frame has set the tail the edge starts from;   *)
(* and the head its transformation is relative to is that of its own       *)
(* fragment.  The head is right whatever happens, the tail when no frame   *)
(* was ever missed, none crossed a seek, and no edge of the fragment leads *)
(* to a frame that is passed on the way to the fragment's last one: that   *)
(* edge is left at once, and the next of the fragment is not led there.    *)
PassedFirst(k) == FrameI(k) \in FragmentHead(k) .. (FrameJ(k) - 1)
CutShort(k) == \E m \in 1 .. k : FrameJ(m) = FrameJ(k) /\ PassedFirst(m)
EdgesProcessed ==
    [][index' # index /\ mode.kind = "graph" =>
          /\ headFrame \in {0, FragmentHead(index)}
          /\ ~missed /\ ~crossed /\ ~CutShort(index)
                => headFrame # 0 /\ tailFrame = FrameJ(index)]_vars

(* The frame edge index calls for after frameId: the head of its fragment,  *)
(* if it is not that of the edge before; the next one up to the fragment's  *)
(* last; and then the edge's other frame.                                  *)
LeftWith(k) == IF k = 0 THEN 0 ELSE FrameI(k)
SameFragment(k) == k > 1 /\ FrameJ(k - 1) = FrameJ(k)
CalledFor(f) ==
    \/ f = FragmentHead(index) /\ frameId = LeftWith(index - 1) /\ ~SameFragment(index)
    \/ f = frameId + 1 /\ f \in FragmentHead(index) .. FrameJ(index)
    \/ /\ f = FrameI(index)
       /\ frameId = FrameJ(index) \/ (SameFragment(index) /\ frameId = LeftWith(index - 1))

(* The frames that make up an edge come to the main loop in turn: none is  *)
(* skipped or comes again, and none is left over from the edge before,     *)
(* although the player is one record ahead, each data thread fetches what  *)
(* its generator holds when it gets there, and the pair is made on either. *)
(* What comes when the main loop has given up waiting is taken for the     *)
(* next frame, in this round or in a later one, and promises nothing.      *)
EdgeFramesInTurn ==
    [][stored' \ stored # {} /\ mode.kind = "graph" /\ ~Ended
         /\ ~missed /\ ~crossed /\ mainAt = "waiting"
          => CalledFor(frameId')]_vars

(* When no frame was ever missed and none crossed a seek, an entry of the  *)
(* schedule is taken with the frame of the entry before it as the current  *)
(* one.                                                                    *)
ScheduleFollowed ==
    [][index' # index /\ mode.kind = "schedule" /\ ~missed /\ ~crossed /\ index > 1
          => frameId = mode.plan[index - 1]]_vars
=============================================================================
