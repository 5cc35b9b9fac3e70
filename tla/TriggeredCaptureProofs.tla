----------------------- MODULE TriggeredCaptureProofs -----------------------
(***************************************************************************)
(* Theorems about the capture loop, for any file, plan and number of       *)
(* helpers: the mutexes of rgb_sync_ with the application's threads as its *)
(* callers; a file played without seeks, which uses rgb_sync_ as its       *)
(* comment asks and whose frames come in order; the one way in which       *)
(* threads deadlock; a schedule and a graph worked off, each entry and     *)
(* edge with the frames it names and in their order; and a main loop that  *)
(* comes nearer to its end with every step.                                *)
(***************************************************************************)
EXTENDS TriggeredCapture, FiniteSetTheorems, SequenceTheorems, TLAPS

(* Until the graph has ended, the head is that of the edge in work, or 0   *)
(* before the first frame.                                                 *)
HeadInv ==
    /\ mode \in Modes /\ index \in Nat \ {0}
    /\ mode.kind = "graph" /\ ~Ended => headFrame \in {0, FragmentHead(index)}

LEMMA HeadInit == Init => HeadInv
BY DEF Init, HeadInv

(* Nobody else changes the plan or the place in it. *)
LEMMA OthersKeepPlan ==
    ASSUME NEW t, Thread(t), ~ProcessSchedule
    PROVE  UNCHANGED planVars
<1> USE DEF planVars
<1>1. CASE MainLoop
  BY <1>1 DEF MainLoop, Construct, SeekDepthFrame, Trigger, EndTrigger, Timeout, Execute
<1>2. CASE DataThread(t)  BY <1>2 DEF DataThread, WaitForData, Fetch, DataCallback
<1>3. CASE InSync(t)  BY <1>3 DEF InSync
<1>4. CASE SourceCallback(t)
  BY <1>4 DEF SourceCallback, StoreFrame, IgnoreFrame, NotifyMain
<1> QED  BY <1>1, <1>2, <1>3, <1>4 DEF Thread

(* Two edges that follow each other share the head or start a fragment.    *)
LEMMA ScheduleKeepsHead ==
    ASSUME ProcessSchedule, HeadInv
    PROVE  /\ HeadInv'
           /\ index' # index /\ mode.kind = "graph" => headFrame \in {0, FragmentHead(index)}
<1> USE DEF HeadInv
<1>1. CASE FollowPlain  BY <1>1 DEF FollowPlain, planVars
<1>2. CASE FollowSchedule  BY <1>2 DEF FollowSchedule
<1>3. CASE FollowBox  BY <1>3 DEF FollowBox, planVars
<1>4. CASE FollowGraph
  <2>1. mode.kind = "graph" /\ mode' = mode  BY <1>4 DEF FollowGraph
  <2>2. Len(mode.plan) \in Nat  BY <2>1, ModesAssumption
  <2>3. CASE NextEdge /\ ~Ended
    <3>1. headFrame \in {0, FragmentHead(index)} /\ index' = index + 1
      BY <2>1, <2>3 DEF NextEdge
    <3>2. CASE index = Len(mode.plan)
      BY <2>1, <2>2, <3>1, <3>2 DEF Ended
    <3>3. CASE FrameJ(index + 1) = FrameJ(index) /\ UNCHANGED headFrame
      <4>1. FragmentHead(index)' = FragmentHead(index)
        BY <2>1, <3>1, <3>3 DEF FragmentHead, FrameJ
      <4> QED  BY <2>1, <3>1, <3>3, <4>1
    <3>4. CASE StartEdge(index + 1)
      <4>1. headFrame' = FragmentHead(index)'
        BY <2>1, <3>1, <3>4 DEF StartEdge, FragmentHead, FrameJ
      <4> QED  BY <2>1, <3>1, <4>1
    <3> QED  BY <2>3, <3>2, <3>3, <3>4 DEF NextEdge
  <2>4. CASE StartEdge(index) /\ UNCHANGED index
    <3>1. headFrame' = FragmentHead(index)'
      BY <2>1, <2>4 DEF StartEdge, FragmentHead, FrameJ
    <3> QED  BY <2>1, <2>4, <3>1
  <2>5. CASE UNCHANGED <<index, headFrame>>
    BY <2>1, <2>5 DEF Ended, FragmentHead, FrameJ
  <2> QED  BY <1>4, <2>3, <2>4, <2>5 DEF FollowGraph
<1> QED  BY <1>1, <1>2, <1>3, <1>4 DEF ProcessSchedule

(* An edge's transformation is written relative to the head of its own     *)
(* fragment, whatever frames were missed: half of EdgesProcessed, for      *)
(* graphs of any length.                                                   *)
THEOREM HeadOfOwnFragment ==
    Spec => [][index' # index /\ mode.kind = "graph"
                  => headFrame \in {0, FragmentHead(index)}]_vars
<1>1. HeadInv /\ [Next]_vars =>
        /\ HeadInv'
        /\ [index' # index /\ mode.kind = "graph" => headFrame \in {0, FragmentHead(index)}]_vars
  <2>1. CASE ProcessSchedule  BY <2>1, ScheduleKeepsHead
  <2>2. ASSUME NEW t, Thread(t), ~ProcessSchedule, HeadInv
        PROVE  HeadInv' /\ index' = index
    <3>1. UNCHANGED planVars  BY <2>2, OthersKeepPlan
    <3> QED  BY <2>2, <3>1 DEF planVars, HeadInv, Ended, FragmentHead, FrameJ
  <2>3. CASE UNCHANGED vars
    BY <2>3 DEF vars, planVars, HeadInv, Ended, FragmentHead, FrameJ
  <2> QED  BY <2>1, <2>2, <2>3 DEF Next
<1> QED  BY <1>1, HeadInit, PTL DEF Spec

-----------------------------------------------------------------------------
(* What is proved of Synchronizer for any users holds for the application's *)
(* threads.                                                                *)
SyncP == INSTANCE SynchronizerProofs WITH
    Threads <- AppThreads, Adders0 <- {Image}, Adders1 <- {Depth},
    Finalizers <- Helpers, Resetters <- {Main}, Subscribers <- {Main},
    Stamps <- 1 .. Frames, Modulus <- 4 * Frames, MaxCallbacks <- 1

(* The instance meets what Synchronizer assumes of its constants.          *)
LEMMA SyncConstants == SyncP!ConstantsAssumption
<1>1. Frames \in Nat \ {0} /\ MaxCalls \in Nat  BY ModesAssumption
<1>2. 4 * Frames \in Nat \ {0} /\ 1 .. Frames \subseteq 0 .. (4 * Frames - 1)  BY <1>1
<1>3. UNION {{Image}, {Depth}, Helpers, {Main}, {Main}} \subseteq AppThreads
  BY DEF AppThreads, DeviceThreads
<1> QED  BY <1>1, <1>2, <1>3, ThreadsAssumption DEF SyncP!ConstantsAssumption

(* The methods the application calls, and what it does inside them.        *)
LEMMA SameSteps ==
    ASSUME NEW t
    PROVE  /\ \A s : Sync!Add0(t, s) <=> SyncP!Add0(t, s)
           /\ \A s : Sync!Add1(t, s) <=> SyncP!Add1(t, s)
           /\ \A id : Sync!Call(t, id) <=> SyncP!Call(t, id)
           /\ Sync!Finalize(t) <=> SyncP!Finalize(t)
           /\ Sync!Reset(t) <=> SyncP!Reset(t)
           /\ Sync!AddCallback(t) <=> SyncP!AddCallback(t)
           /\ Sync!Continue(t) <=> SyncP!Continue(t)
           /\ Sync!Step(t) <=> SyncP!Step(t)
BY DEF Sync!Add0, SyncP!Add0, Sync!Add1, SyncP!Add1, Sync!Call, SyncP!Call,
       Sync!Finalize, SyncP!Finalize, Sync!Reset, SyncP!Reset,
       Sync!AddCallback, SyncP!AddCallback, Sync!RemoveCallback, SyncP!RemoveCallback,
       Sync!StartPublish, SyncP!StartPublish, Sync!Front1, SyncP!Front1,
       Sync!Front2, SyncP!Front2, Sync!Match, SyncP!Match, Sync!Decide, SyncP!Decide,
       Sync!Trimmed, SyncP!Trimmed, Sync!Matched, SyncP!Matched,
       Sync!LeastOf, SyncP!LeastOf, Sync!SecondIsCloser, SyncP!SecondIsCloser,
       Sync!ReturnFrom, SyncP!ReturnFrom, Sync!PublishData1, SyncP!PublishData1,
       Sync!PublishData2, SyncP!PublishData2, Sync!LockMutex1, SyncP!LockMutex1,
       Sync!Deliver, SyncP!Deliver, Sync!Unlock, SyncP!Unlock,
       Sync!PopFronts, SyncP!PopFronts, Sync!FinalizePublish, SyncP!FinalizePublish,
       Sync!Finalize1, SyncP!Finalize1, Sync!Finalize2, SyncP!Finalize2,
       Sync!Reset1, SyncP!Reset1, Sync!Reset2, SyncP!Reset2,
       Sync!Continue, SyncP!Continue, Sync!Step, SyncP!Step,
       Sync!Arrive, SyncP!Arrive, Sync!Subscribe, SyncP!Subscribe,
       Sync!Pairs!Younger, SyncP!Pairs!Younger, Sync!Goto, SyncP!Goto,
       Sync!queues, SyncP!queues, Sync!locks, SyncP!locks,
       Sync!callbacks, SyncP!callbacks, Sync!locals, SyncP!locals,
       Sync!history, SyncP!history, Sync!Delivering, SyncP!Delivering

LEMMA SameVars ==
    /\ syncVars' = syncVars <=> UNCHANGED Sync!vars
    /\ syncVars' = syncVars <=> UNCHANGED SyncP!vars
BY DEF syncVars, Sync!vars, SyncP!vars, Sync!queues, SyncP!queues, Sync!locks, SyncP!locks,
       Sync!callbacks, SyncP!callbacks, Sync!locals, SyncP!locals, Sync!history, SyncP!history

(* Data apart, every call the application makes is one its thread may make, *)
(* in Synchronizer's own words.                                            *)
LEMMA CallsOnSync ==
    ASSUME SyncP!BaseInv, NEW t \in AppThreads, Thread(t), ~DataCallback(t)
    PROVE  UNCHANGED syncVars \/ \E u \in AppThreads : SyncP!Step(u)
<1>1. Main \in AppThreads /\ Helpers \subseteq AppThreads  BY DEF AppThreads
<1>2. CASE MainLoop
  <2>1. CASE Construct
    BY <1>1, <2>1, SameSteps DEF Construct, SyncP!Step, SyncP!Subscribe
  <2>2. CASE ProcessSchedule
    <3>1. Sync!Reset(Main) => SyncP!Step(Main)
      BY <1>1, SameSteps DEF SyncP!Step
    <3>2. \A f : SeekTo(f) => SyncP!Step(Main)  BY <3>1 DEF SeekTo
    <3>3. NoSeek \/ Leave => UNCHANGED syncVars  BY DEF NoSeek, Leave
    <3>4. \A f : SeekUnlessNext(f) => UNCHANGED syncVars \/ SyncP!Step(Main)
      BY <3>2, <3>3 DEF SeekUnlessNext
    <3>5. \A k : StartEdge(k) => SyncP!Step(Main)  BY <3>2 DEF StartEdge
    <3>6. FollowPlain => UNCHANGED syncVars  BY <3>3 DEF FollowPlain
    <3>7. FollowSchedule => UNCHANGED syncVars \/ SyncP!Step(Main)
      BY <3>3, <3>4 DEF FollowSchedule
    <3>8. FollowGraph => UNCHANGED syncVars \/ SyncP!Step(Main)
      BY <3>3, <3>4, <3>5 DEF FollowGraph, NextEdge
    <3>9. FollowBox => UNCHANGED syncVars \/ SyncP!Step(Main)
      BY <3>2, <3>3 DEF FollowBox
    <3> QED  BY <1>1, <2>2, <3>6, <3>7, <3>8, <3>9 DEF ProcessSchedule
  <2>3. CASE EndTrigger
    BY <1>1, <2>3, SameSteps DEF EndTrigger, SyncP!Step
  <2> QED  BY <1>2, <2>1, <2>2, <2>3 DEF MainLoop, SeekDepthFrame, Trigger, Timeout, Execute
<1>3. CASE DataThread(t)  BY <1>3 DEF DataThread, WaitForData, Fetch
<1>4. CASE InSync(t)
  <2>1. Sync!Continue(t)  BY <1>4 DEF InSync, Sync!Continue
  <2> QED  BY <2>1, SameSteps DEF SyncP!Step
<1>5. CASE SourceCallback(t)
  <2>1. CASE Return(t)
    <3>1. PICK id \in todo[t] : SyncP!Call(t, id)  BY <2>1, SameSteps DEF Return
    <3>2. id \in cb  BY <3>1 DEF SyncP!BaseInv, SyncP!OnlyRegisteredCalled
    <3> QED  BY <3>1, <3>2 DEF SyncP!Step, SyncP!Continue
  <2>2. CASE StoreFrame(t)  BY <2>2 DEF StoreFrame
  <2> QED  BY <1>5, <2>1, <2>2 DEF SourceCallback, IgnoreFrame, NotifyMain
<1> QED  BY <1>2, <1>3, <1>4, <1>5 DEF Thread

-----------------------------------------------------------------------------
(* The types.  What the types rest on: a notified thread finds a frame, the *)
(* frame sought is in the file, and the loop goes on only while the misses *)
(* in a row are below their limit.                                         *)
TypeInv ==
    /\ TypeOK
    /\ index # 0
    /\ \A t \in DeviceThreads :
         /\ device[t] = "notified" => data[t] # 0
         /\ device[t] = "fetched" => held[t] # 0
    /\ target \in 0 .. Frames
    /\ mainAt = "seeking" => target # 0
    /\ mainAt # "done" => misses < MaxMisses

CaptureInv == TypeInv /\ SyncP!BaseInv

LEMMA CaptureInit == Init => CaptureInv
<1> SUFFICES ASSUME Init PROVE CaptureInv
  OBVIOUS
<1>1. TypeInv
  <2>1. /\ Frames \in Nat \ {0} /\ MaxMisses \in Nat \ {0}
        /\ 1 \in 1 .. (2 * Frames + 1) /\ 0 \in 0 .. Frames
        /\ 0 \in 0 .. MaxMisses /\ 0 < MaxMisses
        /\ 1 \in Nat /\ 0 \in Nat /\ 0 \in Int /\ 1 # 0
    BY ModesAssumption
  <2> QED  BY <2>1, Zenon DEF Init, TypeInv, TypeOK
<1>2. SyncP!Init
  BY DEF Init, Sync!Init, SyncP!Init
<1>3. SyncP!BaseInv
  BY <1>2, SyncConstants, SyncP!InitIInv DEF SyncP!IInv
<1> QED  BY <1>1, <1>3 DEF CaptureInv

(* What is not rgb_sync_'s. *)
appVars == <<fileVars, deviceVars, planVars, loopVars, mainAt, frameVars>>

LEMMA TypeKept == ASSUME TypeInv, UNCHANGED appVars PROVE TypeInv'
BY DEF TypeInv, TypeOK, appVars, fileVars, deviceVars, planVars, loopVars, frameVars

(* The plan names frames of the file. *)
LEMMA PlanFrames ==
    ASSUME TypeInv, NEW k \in 1 .. Len(mode.plan)
    PROVE  /\ mode.kind = "schedule" => mode.plan[k] \in 1 .. Frames
           /\ mode.kind = "graph" => /\ FrameI(k) \in 1 .. Frames
                                     /\ FragmentHead(k) \in 1 .. Frames
<1>1. mode \in Modes /\ Rate \in Nat \ {0} /\ Frames \in Nat
  BY ModesAssumption DEF TypeInv, TypeOK
<1>2. CASE mode.kind = "schedule"
  <2>1. mode.plan \in Seq(1 .. Frames)  BY <1>1, <1>2, ModesAssumption
  <2>2. mode.plan[k] \in 1 .. Frames  BY <2>1, ElementOfSeq
  <2> QED  BY <1>2, <2>2
<1>3. CASE mode.kind = "graph"
  <2>1. mode.plan \in Seq((1 .. Frames) \X (Rate .. Frames))
    BY <1>1, <1>3, ModesAssumption
  <2>2. mode.plan[k] \in (1 .. Frames) \X (Rate .. Frames)  BY <2>1, ElementOfSeq
  <2>3. FrameI(k) \in 1 .. Frames /\ FrameJ(k) \in Rate .. Frames
    BY <2>2 DEF FrameI, FrameJ
  <2> QED  BY <1>1, <1>3, <2>3 DEF FragmentHead
<1> QED  BY <1>2, <1>3

(* Where the main loop goes from its first statement. *)
LEMMA TypeSchedule == ASSUME TypeInv, ProcessSchedule PROVE TypeInv'
<1> DEFINE To(to, t, e) == mainAt = "loop" /\ mainAt' = to /\ target' = t /\ exit' = e
           Goes == \/ \E f \in 1 .. Frames : To("seeking", f, exit)
                   \/ To("trigger1", target, exit)
                   \/ To("done", target, TRUE)
           Plan == /\ mode' = mode /\ index' \in Nat \ {0}
                   /\ headFrame' \in Int /\ tailFrame' \in Nat
<1>1. \A f \in 1 .. Frames : SeekTo(f) => Goes  BY DEF SeekTo, LoopGoto
<1>2. NoSeek \/ Leave => Goes  BY DEF NoSeek, Leave, LoopGoto
<1>3. \A f \in 1 .. Frames : SeekUnlessNext(f) => Goes
  BY <1>1, <1>2 DEF SeekUnlessNext
<1> HIDE DEF Goes
<1>4. /\ mode \in Modes /\ index \in Nat \ {0} /\ headFrame \in Int /\ tailFrame \in Nat
      /\ frameId \in 0 .. Frames /\ Frames \in Nat
  BY ModesAssumption DEF TypeInv, TypeOK
<1>5. /\ \A k \in 1 .. Len(mode.plan) : mode.kind = "schedule" => mode.plan[k] \in 1 .. Frames
      /\ \A k \in 1 .. Len(mode.plan) : mode.kind = "graph" =>
            FrameI(k) \in 1 .. Frames /\ FragmentHead(k) \in 1 .. Frames
  BY PlanFrames
<1>6. mode.kind \in {"schedule", "graph"} => Len(mode.plan) \in Nat
  BY <1>4, ModesAssumption, LenProperties
<1>7. FollowPlain => Goes /\ Plan  BY <1>2, <1>4 DEF FollowPlain, planVars
<1>8. FollowSchedule => Goes /\ Plan
  <2> SUFFICES ASSUME FollowSchedule PROVE Goes /\ Plan
    OBVIOUS
  <2>1. CASE Ended  BY <1>2, <1>4, <2>1 DEF FollowSchedule
  <2>2. CASE ~Ended
    <3>1. mode.plan[index] \in 1 .. Frames
      BY <1>4, <1>5, <1>6, <2>2 DEF FollowSchedule, Ended
    <3> QED  BY <1>3, <1>4, <2>2, <3>1 DEF FollowSchedule
  <2> QED  BY <2>1, <2>2
<1>9. FollowGraph => Goes /\ Plan
  <2> SUFFICES ASSUME FollowGraph PROVE Goes /\ Plan
    OBVIOUS
  <2>1. mode.kind = "graph" /\ mode' = mode /\ Len(mode.plan) \in Nat
    BY <1>6 DEF FollowGraph
  <2>2. \A k \in 1 .. Len(mode.plan) : FrameI(k) \in 1 .. Frames /\ FragmentHead(k) \in 1 .. Frames
    BY <1>5, <2>1
  <2>3. CASE Ended /\ NoSeek /\ UNCHANGED <<index, headFrame, tailFrame>>
    BY <1>2, <1>4, <2>1, <2>3
  <2>4. ~Ended => index \in 1 .. Len(mode.plan)  BY <1>4, <2>1 DEF Ended
  <2>5. CASE ~Ended /\ StartEdge(index) /\ UNCHANGED <<index, tailFrame>>
    <3>1. FragmentHead(index) \in 1 .. Frames  BY <2>2, <2>4, <2>5
    <3> QED  BY <1>1, <1>4, <2>1, <2>5, <3>1 DEF StartEdge
  <2>6. CASE ~Ended /\ tailFrame' = frameId /\ SeekUnlessNext(FrameI(index))
             /\ UNCHANGED <<index, headFrame>>
    <3>1. FrameI(index) \in 1 .. Frames  BY <2>2, <2>4, <2>6
    <3> QED  BY <1>3, <1>4, <2>1, <2>6, <3>1
  <2>7. CASE ~Ended /\ NextEdge
    <3>1. /\ index' \in Nat \ {0} /\ tailFrame' \in Nat
          /\ index < Len(mode.plan) => index + 1 \in 1 .. Len(mode.plan)
      BY <1>4, <2>1, <2>7 DEF NextEdge
    <3>2. CASE Leave /\ UNCHANGED headFrame
      BY <1>2, <1>4, <2>1, <3>1, <3>2
    <3>3. CASE index < Len(mode.plan) /\ SeekUnlessNext(FrameI(index + 1)) /\ UNCHANGED headFrame
      <4>1. FrameI(index + 1) \in 1 .. Frames  BY <2>2, <3>1, <3>3
      <4> QED  BY <1>3, <1>4, <2>1, <3>1, <3>3, <4>1
    <3>4. CASE index < Len(mode.plan) /\ StartEdge(index + 1)
      <4>1. FragmentHead(index + 1) \in 1 .. Frames  BY <2>2, <3>1, <3>4
      <4> QED  BY <1>1, <2>1, <3>1, <3>4, <4>1 DEF StartEdge
    <3> QED  BY <2>7, <3>2, <3>3, <3>4 DEF NextEdge
  <2>8. CASE NoSeek /\ UNCHANGED <<index, headFrame, tailFrame>>
    BY <1>2, <1>4, <2>1, <2>8
  <2> QED  BY <2>3, <2>5, <2>6, <2>7, <2>8 DEF FollowGraph
<1>10. FollowBox => Goes /\ Plan
  <2>1. \A f \in (frameId + 1) .. (Frames - 1) : f + 1 \in 1 .. Frames  BY <1>4
  <2> QED  BY <1>1, <1>2, <1>4, <2>1 DEF FollowBox, planVars
<1>11. Goes /\ Plan  BY <1>7, <1>8, <1>9, <1>10 DEF ProcessSchedule
<1>12. UNCHANGED <<position, data, device, held, updated, hasData, misses, missed,
                   crossed, frameId, stored>>
  BY DEF ProcessSchedule, fileVars, deviceVars
<1>13. TypeOK'
  <2>1. mainAt' \in {"seeking", "trigger1", "done"} /\ (exit' = exit \/ exit' = TRUE)
    BY <1>11 DEF Goes
  <2>2. {updated, hasData, missed, crossed, exit}' \subseteq BOOLEAN
    BY <1>12, <2>1, Zenon DEF TypeInv, TypeOK
  <2> QED  BY <1>4, <1>11, <1>12, <2>1, <2>2 DEF TypeInv, TypeOK
<1> QED  BY <1>11, <1>12, <1>13 DEF Goes, TypeInv

(* What a new notification leaves of the types. *)
LEMMA NotifiedType ==
    ASSUME TypeInv, NEW threads \in SUBSET DeviceThreads, Notified(threads),
           data' \in [DeviceThreads -> 0 .. Frames],
           \A t \in DeviceThreads : data'[t] = data[t] \/ data'[t] # 0,
           \A t \in threads : data'[t] # 0, UNCHANGED held
    PROVE  /\ device' \in [DeviceThreads -> {"busy", "waiting", "notified", "fetched"}]
           /\ \A t \in DeviceThreads :
                /\ device'[t] = "notified" => data'[t] # 0
                /\ device'[t] = "fetched" => held'[t] # 0
BY DEF Notified, TypeInv, TypeOK

LEMMA TypeSeek == ASSUME TypeInv, SeekDepthFrame PROVE TypeInv'
<1>1. /\ target \in 1 .. Frames /\ Frames \in Nat /\ mainAt' = "trigger1"
      /\ UNCHANGED <<held, mode, index, headFrame, tailFrame, target, updated, hasData,
                     misses, missed, exit, frameId, stored>>
      /\ mainAt = "seeking"
  BY ModesAssumption DEF SeekDepthFrame, LoopGoto, TypeInv, planVars, frameVars
<1>2. position' \in 1 .. (2 * Frames + 1)  BY <1>1 DEF SeekDepthFrame
<1>3. /\ data' \in [DeviceThreads -> 0 .. Frames] /\ Notified(DeviceThreads)
      /\ \A t \in DeviceThreads : data'[t] # 0
  BY <1>1 DEF SeekDepthFrame
<1>4. crossed' \in BOOLEAN  BY Zenon DEF SeekDepthFrame, TypeInv, TypeOK
<1>5. {updated, hasData, missed, crossed, exit}' \subseteq BOOLEAN
  BY <1>1, <1>4, Zenon DEF TypeInv, TypeOK
<1> QED  BY <1>1, <1>2, <1>3, <1>5, NotifiedType DEF TypeInv, TypeOK

LEMMA TypeTrigger ==
    ASSUME TypeInv, NEW from \in {"trigger1", "trigger2"}, NEW to \in {"trigger2", "flush"},
           Trigger(from, to)
    PROVE  TypeInv'
<1>1. /\ mainAt = from /\ mainAt' = to /\ Frames \in Nat
      /\ UNCHANGED <<held, mode, index, headFrame, tailFrame, target, hasData,
                     misses, missed, crossed, exit, frameId, stored>>
  BY ModesAssumption DEF Trigger, LoopGoto, planVars, frameVars
<1>2. {updated, hasData, missed, crossed, exit}' \subseteq BOOLEAN
  <2>1. (~AtEnd) \in BOOLEAN /\ (updated \/ ~AtEnd) \in BOOLEAN  BY Zenon
  <2>2. updated' \in BOOLEAN  BY <2>1, Zenon DEF Trigger
  <2> QED  BY <1>1, <2>2, Zenon DEF TypeInv, TypeOK
<1>3. CASE UNCHANGED <<fileVars, device>>
  BY <1>1, <1>2, <1>3 DEF TypeInv, TypeOK, fileVars
<1>4. CASE ~AtEnd /\ ReadNext
  <2>1. /\ position \in 1 .. (2 * Frames) /\ RecordOf(position) \in DeviceThreads
        /\ (position + 1) \div 2 \in 1 .. Frames
    BY <1>1, <1>4 DEF AtEnd, TypeInv, TypeOK, RecordOf, DeviceThreads
  <2>2. position' \in 1 .. (2 * Frames + 1)  BY <1>1, <1>4, <2>1 DEF ReadNext
  <2>3. /\ data' \in [DeviceThreads -> 0 .. Frames] /\ data'[RecordOf(position)] # 0
        /\ \A t \in DeviceThreads : data'[t] = data[t] \/ data'[t] # 0
    BY <1>1, <1>4, <2>1 DEF ReadNext, TypeInv, TypeOK
  <2>4. Notified({RecordOf(position)}) /\ {RecordOf(position)} \in SUBSET DeviceThreads
    BY <1>4, <2>1 DEF ReadNext
  <2> QED  BY <1>1, <1>2, <2>2, <2>3, <2>4, NotifiedType DEF TypeInv, TypeOK
<1> QED  BY <1>3, <1>4 DEF Trigger

LEMMA TypeExecute == ASSUME TypeInv, Execute PROVE TypeInv'
<1>1. UNCHANGED <<position, data, device, held, mode, index, headFrame, tailFrame,
                  target, updated, hasData, crossed, frameId, stored>>
  BY DEF Execute, fileVars, deviceVars, planVars
<1>2. /\ misses' \in 0 .. MaxMisses
      /\ \/ misses' < MaxMisses /\ mainAt' = "loop"
         \/ mainAt' = "done"
  BY ModesAssumption DEF Execute, LoopGoto, TypeInv, TypeOK
<1>3. {updated, hasData, missed, crossed, exit}' \subseteq BOOLEAN
  <2>1. (missed \/ ~hasData) \in BOOLEAN /\ TRUE \in BOOLEAN  BY Zenon
  <2>2. missed' \in BOOLEAN /\ (exit' = exit \/ exit' = TRUE)  BY <2>1, Zenon DEF Execute
  <2> QED  BY <1>1, <2>1, <2>2, Zenon DEF TypeInv, TypeOK
<1> QED  BY <1>1, <1>2, <1>3 DEF TypeInv, TypeOK

LEMMA TypeMain == ASSUME TypeInv, MainLoop PROVE TypeInv'
<1>1. CASE Construct
  BY <1>1 DEF Construct, LoopGoto, TypeInv, TypeOK, fileVars, deviceVars, planVars, loopVars, frameVars
<1>2. CASE EndTrigger
  BY <1>2 DEF EndTrigger, LoopGoto, TypeInv, TypeOK, fileVars, deviceVars, planVars, loopVars, frameVars
<1>3. CASE Timeout
  <2>1. FALSE \in BOOLEAN  OBVIOUS
  <2>2. {updated, hasData, missed, crossed, exit}' \subseteq BOOLEAN
    BY <1>3, <2>1, Zenon DEF Timeout, TypeInv, TypeOK, frameVars
  <2> QED
    BY <1>3, <2>2 DEF Timeout, LoopGoto, TypeInv, TypeOK, fileVars, deviceVars, planVars, frameVars
<1> QED
  BY <1>1, <1>2, <1>3, TypeSchedule, TypeSeek, TypeTrigger, TypeExecute DEF MainLoop

(* The front a callback gets is a frame of the file. *)
LEMMA FrontIsFrame ==
    ASSUME SyncP!BaseInv, NEW t \in AppThreads, pc[t] \in Sync!Delivering
    PROVE  /\ queueT2 \in Seq(1 .. Frames) /\ Len(queueT2) \in Nat \ {0}
           /\ Head(queueT2) = queueT2[1] /\ queueT2[1] \in 1 .. Frames
<1> DEFINE S == 1 .. Frames
<1>1. queueT2 \in Seq(S) /\ queueT2 # <<>>
  BY DEF SyncP!BaseInv, SyncP!TypeOK, SyncP!DeliveryDefined, SyncP!Delivering, Sync!Delivering
<1>2. Len(queueT2) \in Nat \ {0}  BY <1>1, LenProperties, EmptySeq
<1> HIDE DEF S
<1>3. Head(queueT2) \in S /\ Head(queueT2) = queueT2[1]
  BY <1>1, HeadTailProperties
<1> QED  BY <1>1, <1>2, <1>3 DEF S

LEMMA TypeThread ==
    ASSUME CaptureInv, NEW t \in AppThreads, Thread(t)
    PROVE  TypeInv'
<1> USE DEF CaptureInv
<1>1. CASE MainLoop  BY <1>1, TypeMain
<1>2. CASE t \in DeviceThreads /\ DataThread(t)
  <2>1. CASE WaitForData(t)
    BY <1>2, <2>1 DEF WaitForData, DeviceGoto, TypeInv, TypeOK, fileVars, planVars, loopVars, frameVars
  <2>2. CASE Fetch(t)
    BY <1>2, <2>2 DEF Fetch, DeviceGoto, TypeInv, TypeOK, fileVars, planVars, loopVars, frameVars
  <2>3. CASE DataCallback(t)
    BY <1>2, <2>3 DEF DataCallback, DeviceGoto, TypeInv, TypeOK, fileVars, planVars, loopVars, frameVars
  <2> QED  BY <1>2, <2>1, <2>2, <2>3 DEF DataThread
<1>3. CASE InSync(t)  BY <1>3, TypeKept DEF InSync, appVars
<1>4. CASE StoreFrame(t)
  <2>1. frameId' \in 0 .. Frames /\ stored' \subseteq AppThreads
    BY <1>4, FrontIsFrame DEF StoreFrame, TypeInv, TypeOK
  <2> QED
    BY <1>4, <2>1 DEF StoreFrame, TypeInv, TypeOK, fileVars, deviceVars, planVars, loopVars
<1>5. CASE IgnoreFrame(t)  BY <1>5, TypeKept DEF IgnoreFrame, appVars
<1>6. CASE NotifyMain(t)
  <2>1. TRUE \in BOOLEAN  OBVIOUS
  <2>2. {updated, hasData, missed, crossed, exit}' \subseteq BOOLEAN
    BY <1>6, <2>1, Zenon DEF NotifyMain, TypeInv, TypeOK
  <2>3. mainAt' = mainAt \/ (mainAt = "waiting" /\ mainAt' = "woken")
    BY <1>6 DEF NotifyMain, LoopGoto
  <2> QED
    BY <1>6, <2>2, <2>3 DEF NotifyMain, TypeInv, TypeOK, fileVars, deviceVars, planVars
<1> QED  BY <1>1, <1>2, <1>3, <1>4, <1>5, <1>6 DEF Thread, SourceCallback

(* Whatever is sought, given up or finalized, rgb_sync_'s own invariant is *)
(* kept, also when a seek lets older frames in behind younger ones.        *)
LEMMA CaptureStep == CaptureInv /\ [Next]_vars => CaptureInv'
<1> SUFFICES ASSUME CaptureInv, [Next]_vars PROVE CaptureInv'
  OBVIOUS
<1>1. ASSUME NEW t \in AppThreads, Thread(t)
      PROVE  CaptureInv'
  <2>1. SyncP!BaseInv'
    <3>1. CASE DataCallback(t) /\ mainAt # "done"
      <4>1. t \in DeviceThreads /\ held[t] \in 1 .. Frames
        <5>1. t \in DeviceThreads /\ device[t] = "fetched"
          BY <3>1 DEF DataCallback, DeviceGoto, DeviceThreads
        <5>2. held[t] \in 0 .. Frames /\ held[t] # 0 /\ Frames \in Nat
          BY <5>1, ModesAssumption DEF CaptureInv, TypeInv, TypeOK
        <5> QED  BY <5>1, <5>2
      <4>2. Sync!Add0(t, held[t]) \/ Sync!Add1(t, held[t])
        BY <3>1 DEF DataCallback
      <4>3. SyncP!AnyStep(t)  BY <4>1, <4>2, SameSteps DEF SyncP!AnyStep
      <4> QED  BY <4>3, SyncConstants, SyncP!BaseStep DEF CaptureInv
    <3>2. CASE UNCHANGED syncVars
      BY <3>2, SameVars, SyncConstants, SyncP!BaseUnchanged DEF CaptureInv
    <3>3. CASE ~DataCallback(t)
      <4>1. CASE \E u \in AppThreads : SyncP!Step(u)
        BY <4>1, SyncConstants, SyncP!BaseStep DEF CaptureInv, SyncP!AnyStep
      <4> QED  BY <1>1, <3>2, <3>3, <4>1, CallsOnSync DEF CaptureInv
    <3> QED  BY <3>1, <3>2, <3>3 DEF DataCallback
  <2> QED  BY <1>1, <2>1, TypeThread DEF CaptureInv
<1>2. CASE UNCHANGED vars
  <2>1. UNCHANGED syncVars /\ UNCHANGED appVars
    BY <1>2 DEF vars, appVars
  <2> QED
    BY <2>1, TypeKept, SameVars, SyncConstants, SyncP!BaseUnchanged DEF CaptureInv
<1> QED  BY <1>1, <1>2 DEF Next

THEOREM CaptureInvariant == Spec => []CaptureInv
BY CaptureInit, CaptureStep, PTL DEF Spec

(* Every variable of the file, the device and the loop keeps its type: no  *)
(* seek leaves the file, no frame is numbered outside it, the misses stay  *)
(* below their limit.                                                      *)
THEOREM TypeCorrect == Spec => []TypeOK
<1>1. CaptureInv => TypeOK  BY DEF CaptureInv, TypeInv
<1> QED  BY <1>1, CaptureInvariant, PTL

(* In the application too, with its seeks, each thread owns the mutexes of *)
(* rgb_sync_ its place says, and only the registered callback is called.   *)
THEOREM LocksInCapture == Spec => [](Sync!LocksOwned /\ Sync!OnlyRegisteredCalled)
<1>1. CaptureInv => Sync!LocksOwned /\ Sync!OnlyRegisteredCalled
  BY DEF CaptureInv, SyncP!BaseInv, SyncP!LocksOwned, Sync!LocksOwned,
     SyncP!OnlyRegisteredCalled, Sync!OnlyRegisteredCalled,
     SyncP!HoldsPublish, Sync!HoldsPublish, SyncP!HoldsMutex1, Sync!HoldsMutex1,
     SyncP!HoldsMutex2, Sync!HoldsMutex2, SyncP!Publishing, Sync!Publishing,
     SyncP!Finalizing, Sync!Finalizing, SyncP!Delivering, Sync!Delivering
<1> QED  BY <1>1, CaptureInvariant, PTL

(* Nor does anybody go back in a call of rgb_sync_, whatever its users do  *)
(* and whatever is sought meanwhile: a call takes a bounded number of its  *)
(* thread's steps.                                                         *)
THEOREM CallsInCaptureBounded == Spec => SyncP!CallsBounded
<1>1. CaptureInv => \A t \in AppThreads : SyncP!CallSteps(t) \in 0 .. 1 + 7
  BY SyncConstants, SyncP!StepsInRange DEF CaptureInv
<1> DEFINE Shorter(t) == /\ SyncP!CallSteps(t)' <= SyncP!CallSteps(t)
                         /\ SyncP!Continue(t) => SyncP!CallSteps(t)' < SyncP!CallSteps(t)
<1>2. CaptureInv /\ CaptureInv' /\ [Next]_vars
        => [\A t \in AppThreads : pc[t] # "idle" => Shorter(t)]_(SyncP!vars)
  <2> SUFFICES ASSUME CaptureInv, CaptureInv', [Next]_vars, ~UNCHANGED SyncP!vars,
                      NEW t \in AppThreads, pc[t] # "idle"
               PROVE  Shorter(t)
    OBVIOUS
  <2>1. ~UNCHANGED syncVars  BY SameVars
  <2>2. PICK u \in AppThreads : Thread(u)  BY <2>1 DEF Next, vars
  <2>3. PICK v \in AppThreads : SyncP!AnyStep(v)
    <3>1. CASE DataCallback(u)
      <4>1. u \in DeviceThreads /\ device[u] = "fetched" /\ mainAt # "done"
        BY <2>1, <2>2, <3>1 DEF DataCallback, DeviceGoto, CaptureInv, TypeInv, TypeOK, DeviceThreads
      <4>2. held[u] \in 1 .. Frames
        <5>1. held[u] \in 0 .. Frames /\ held[u] # 0 /\ Frames \in Nat
          BY <4>1, ModesAssumption DEF CaptureInv, TypeInv, TypeOK
        <5> QED  BY <5>1
      <4>3. Sync!Add0(u, held[u]) \/ Sync!Add1(u, held[u])  BY <3>1, <4>1 DEF DataCallback
      <4> QED  BY <4>2, <4>3, SameSteps DEF SyncP!AnyStep
    <3>2. CASE ~DataCallback(u)
      BY <2>1, <2>2, <3>2, CallsOnSync DEF CaptureInv, SyncP!AnyStep
    <3> QED  BY <3>1, <3>2
  <2> QED  BY <2>3, SyncConstants, SyncP!StepShortens DEF CaptureInv
<1> QED  BY <1>1, <1>2, CaptureInvariant, PTL DEF Spec, SyncP!CallsBounded

-----------------------------------------------------------------------------
(* A file played without seeks.  Each generator holds the last frame of its *)
(* records that were read, so a thread that was notified finds a frame     *)
(* behind all it has added, and the one it fetched is behind them too.     *)
Seen(t) == IF t = Image THEN seen1 ELSE seen2

ReadInOrder ==
    /\ mainAt # "seeking"
    /\ 2 * data[Image] - 1 < position
    /\ 2 * data[Depth] < position
    /\ \A t \in DeviceThreads :
         /\ held[t] <= data[t]
         /\ \A x \in Seen(t) : /\ x <= data[t]
                               /\ device[t] = "notified" => x < data[t]
                               /\ device[t] = "fetched" => x < held[t]

(* The frame the application works on is behind nothing that is queued.    *)
FrameFollows ==
    /\ frameId = 0 \/ frameId \in seen2
    /\ \A i \in 1 .. Len(queueT2) : frameId <= queueT2[i]

PlainInv ==
    /\ CaptureInv
    /\ Plain => ReadInOrder /\ SyncP!FreshInv /\ FrameFollows

LEMMA PlainInit == Init => PlainInv
<1> SUFFICES ASSUME Init PROVE PlainInv
  OBVIOUS
<1>1. SyncP!FreshInv
  <2>1. SyncP!Init  BY DEF Init, Sync!Init, SyncP!Init
  <2> QED  BY <2>1, SyncConstants, SyncP!FreshInit
<1>2. ReadInOrder
  <2>1. Image \in DeviceThreads /\ Depth \in DeviceThreads  BY DEF DeviceThreads
  <2> QED  BY <2>1 DEF Init, Sync!Init, ReadInOrder, Seen
<1>3. FrameFollows
  <2>1. queueT2 = <<>> /\ frameId = 0  BY DEF Init, Sync!Init
  <2>2. \A i \in 1 .. Len(<<>>) : FALSE  OBVIOUS
  <2> QED  BY <2>1, <2>2 DEF FrameFollows
<1> QED  BY <1>1, <1>2, <1>3, CaptureInit DEF PlainInv

LEMMA PlainKept == ASSUME [Next]_vars PROVE Plain' <=> Plain
<1>1. ProcessSchedule => mode' = mode
  BY DEF ProcessSchedule, FollowPlain, FollowSchedule, FollowGraph, FollowBox, planVars
<1>2. \A t \in AppThreads : Thread(t) => mode' = mode
  BY <1>1, OthersKeepPlan DEF planVars
<1> QED  BY <1>2 DEF Next, Plain, vars, planVars

LEMMA SeenFrames == ASSUME CaptureInv, NEW t PROVE Seen(t) \subseteq 1 .. Frames
BY DEF CaptureInv, SyncP!BaseInv, SyncP!TypeOK, Seen

(* What nobody adds to leaves the order alone. *)
LEMMA ReadKept ==
    ASSUME ReadInOrder, mainAt' # "seeking",
           UNCHANGED <<position, data, device, held, seen1, seen2>>
    PROVE  ReadInOrder'
BY DEF ReadInOrder, Seen

(* Reading a record puts the generator of its stream a frame further. *)
LEMMA ReadMore ==
    ASSUME CaptureInv, ReadInOrder, ~AtEnd, ReadNext, mainAt' # "seeking",
           UNCHANGED <<held, seen1, seen2>>
    PROVE  ReadInOrder'
<1> DEFINE p == position
           r == RecordOf(p)
           f == (p + 1) \div 2
<1>1. /\ p \in Nat \ {0} /\ Image # Depth /\ r \in DeviceThreads
      /\ data \in [DeviceThreads -> 0 .. Frames] /\ held \in [DeviceThreads -> 0 .. Frames]
      /\ Frames \in Nat
  BY ThreadsAssumption, ModesAssumption DEF CaptureInv, TypeInv, TypeOK, RecordOf, DeviceThreads
<1>2. data[r] < f /\ f \in Nat
  <2>1. data[Image] \in Nat /\ data[Depth] \in Nat  BY <1>1 DEF DeviceThreads
  <2>2. CASE p % 2 = 1
    <3>1. r = Image /\ 2 * data[Image] - 1 < p  BY <2>2 DEF RecordOf, ReadInOrder
    <3> QED  BY <1>1, <2>1, <2>2, <3>1
  <2>3. CASE p % 2 # 1
    <3>1. r = Depth /\ 2 * data[Depth] < p /\ p % 2 = 0
      BY <1>1, <2>3 DEF RecordOf, ReadInOrder
    <3> QED  BY <1>1, <2>1, <3>1
  <2> QED  BY <2>2, <2>3
<1>3. /\ p' = p + 1 /\ data' = [data EXCEPT ![r] = f]
      /\ device' = [t \in DeviceThreads |->
                      IF t \in {r} /\ device[t] = "waiting" THEN "notified" ELSE device[t]]
  BY DEF ReadNext, Notified
<1>4. 2 * data'[Image] - 1 < p' /\ 2 * data'[Depth] < p'
  <2>1. data[Image] \in Nat /\ data[Depth] \in Nat /\ Image \in DeviceThreads /\ Depth \in DeviceThreads
    BY <1>1 DEF DeviceThreads
  <2>2. CASE p % 2 = 1
    <3>1. data'[Image] = f /\ data'[Depth] = data[Depth]
      BY <1>1, <1>3, <2>1, <2>2 DEF RecordOf
    <3> QED  BY <1>1, <1>3, <2>1, <2>2, <3>1 DEF ReadInOrder
  <2>3. CASE p % 2 # 1
    <3>1. data'[Depth] = f /\ data'[Image] = data[Image] /\ p % 2 = 0
      BY <1>1, <1>3, <2>1, <2>3 DEF RecordOf
    <3> QED  BY <1>1, <1>3, <2>1, <3>1 DEF ReadInOrder
  <2> QED  BY <2>2, <2>3
<1>5. \A t \in DeviceThreads : data'[t] = IF t = r THEN f ELSE data[t]  BY <1>1, <1>3
<1>6. \A t \in DeviceThreads : /\ device'[t] = "fetched" => device[t] = "fetched"
                               /\ t # r => device'[t] = device[t]
  BY <1>3
<1>7. \A t \in DeviceThreads : Seen(t)' = Seen(t)  BY DEF Seen
<1> HIDE DEF p, r, f
<1>8. ASSUME NEW t \in DeviceThreads
      PROVE  /\ held'[t] <= data'[t]
             /\ \A x \in Seen(t) : /\ x <= data'[t]
                                   /\ device'[t] = "notified" => x < data'[t]
                                   /\ device'[t] = "fetched" => x < held'[t]
  <2>1. \A x \in Seen(t) : x \in Nat  BY SeenFrames, <1>1
  <2>2. data[t] \in Nat /\ held[t] \in Nat  BY <1>1
  <2>3. /\ held[t] <= data[t] /\ held'[t] = held[t]
        /\ \A x \in Seen(t) : /\ x <= data[t]
                              /\ device[t] = "notified" => x < data[t]
                              /\ device[t] = "fetched" => x < held[t]
    BY DEF ReadInOrder
  <2>4. CASE t = r
    <3>1. data'[t] = f /\ data[t] < f  BY <1>2, <1>5, <2>4
    <3>2. device'[t] = "fetched" => device[t] = "fetched"  BY <1>6, Zenon
    <3>3. held[t] <= f /\ \A x \in Seen(t) : x < f  BY <1>2, <2>1, <2>2, <2>3, <3>1
    <3> QED  BY <1>2, <2>1, <2>2, <2>3, <3>1, <3>2, <3>3
  <2>5. CASE t # r
    <3>1. data'[t] = data[t] /\ device'[t] = device[t]  BY <1>5, <1>6, <2>5, Zenon
    <3> QED  BY <2>3, <3>1
  <2> QED  BY <2>4, <2>5
<1> QED  BY <1>4, <1>7, <1>8 DEF ReadInOrder, p

(* A thread adds what it fetched behind everything it has added. *)
LEMMA AddsYounger ==
    ASSUME CaptureInv, ReadInOrder, NEW t \in AppThreads, DataCallback(t), mainAt # "done"
    PROVE  SyncP!Step(t) /\ ReadInOrder'
<1>1. /\ t \in DeviceThreads /\ device[t] = "fetched" /\ device' = [device EXCEPT ![t] = "busy"]
      /\ UNCHANGED <<position, data, held, mainAt>> /\ Image # Depth
  BY ThreadsAssumption DEF DataCallback, DeviceGoto, DeviceThreads, fileVars
<1>2. /\ held \in [DeviceThreads -> 0 .. Frames] /\ held[t] # 0 /\ Frames \in Nat
      /\ data \in [DeviceThreads -> 0 .. Frames] /\ held[t] <= data[t]
      /\ device \in [DeviceThreads -> {"busy", "waiting", "notified", "fetched"}]
  BY <1>1, ModesAssumption DEF CaptureInv, TypeInv, TypeOK, ReadInOrder
<1>3. held[t] \in 1 .. Frames /\ \A x \in Seen(t) : x < held[t]
  BY <1>1, <1>2 DEF ReadInOrder
<1>4. \/ t = Image /\ SyncP!Add0(t, held[t])
      \/ t = Depth /\ SyncP!Add1(t, held[t])
  BY SameSteps DEF DataCallback
<1>5. SyncP!Step(t)
  BY <1>1, <1>3, <1>4 DEF SyncP!Step, SyncP!Arrive, SyncP!Pairs!Younger, Seen
<1>6. \A u \in DeviceThreads : Seen(u)' = IF u = t THEN Seen(t) \union {held[t]} ELSE Seen(u)
  BY <1>1, <1>4 DEF SyncP!Add0, SyncP!Add1, Seen, DeviceThreads
<1>7. ASSUME NEW u \in DeviceThreads
      PROVE  /\ held'[u] <= data'[u]
             /\ \A x \in Seen(u)' : /\ x <= data'[u]
                                    /\ device'[u] = "notified" => x < data'[u]
                                    /\ device'[u] = "fetched" => x < held'[u]
  <2>1. CASE u = t
    <3>1. device'[u] = "busy"  BY <1>1, <1>2, <2>1
    <3> QED  BY <1>1, <1>2, <1>6, <2>1, <3>1 DEF ReadInOrder
  <2>2. CASE u # t
    BY <1>1, <1>2, <1>6, <2>2 DEF ReadInOrder
  <2> QED  BY <2>1, <2>2
<1>8. /\ mainAt' # "seeking" /\ 2 * data'[Image] - 1 < position' /\ 2 * data'[Depth] < position'
  BY <1>1 DEF ReadInOrder
<1> QED  BY <1>5, <1>7, <1>8 DEF ReadInOrder

(* Only the data threads add to what has been seen. *)
LEMMA SeenKept ==
    ASSUME NEW t \in AppThreads, Thread(t), ~DataCallback(t), Plain
    PROVE  UNCHANGED <<seen1, seen2>>
<1> USE DEF Sync!history
<1>1. UNCHANGED syncVars => UNCHANGED <<seen1, seen2>>  BY DEF syncVars
<1>2. CASE MainLoop
  <2>1. CASE Construct  BY <2>1 DEF Construct, Sync!AddCallback
  <2>2. CASE ProcessSchedule
    BY <1>1, <2>2 DEF ProcessSchedule, Plain, FollowPlain, FollowSchedule, FollowGraph,
       FollowBox, NoSeek
  <2>3. CASE EndTrigger  BY <1>1, <2>3 DEF EndTrigger, Sync!Finalize
  <2> QED
    BY <1>1, <1>2, <2>1, <2>2, <2>3 DEF MainLoop, SeekDepthFrame, Trigger, Timeout, Execute
<1>3. CASE DataThread(t)  BY <1>1, <1>3 DEF DataThread, WaitForData, Fetch
<1>4. CASE InSync(t)
  BY <1>4 DEF InSync, Sync!StartPublish, Sync!Front1, Sync!Front2, Sync!Match,
     Sync!PublishData1, Sync!PublishData2, Sync!PopFronts, Sync!FinalizePublish,
     Sync!Finalize1, Sync!Finalize2, Sync!Reset1, Sync!Reset2, Sync!ReturnFrom,
     Sync!LockMutex1, Sync!Deliver
<1>5. CASE SourceCallback(t)
  BY <1>1, <1>5 DEF SourceCallback, StoreFrame, IgnoreFrame, NotifyMain, Return, Sync!Call
<1> QED  BY <1>2, <1>3, <1>4, <1>5 DEF Thread

(* The device and the file, whoever takes a step. *)
LEMMA ReadStep ==
    ASSUME CaptureInv, ReadInOrder, Plain, NEW t \in AppThreads, Thread(t),
           ~DataCallback(t)
    PROVE  ReadInOrder'
<1>1. UNCHANGED <<seen1, seen2>>  BY SeenKept
<1>2. mainAt # "seeking"  BY DEF ReadInOrder
<1>3. CASE MainLoop
  <2>1. CASE Construct
    BY <1>1, <2>1, ReadKept DEF Construct, LoopGoto, fileVars, deviceVars
  <2>2. CASE ProcessSchedule
    <3>1. NoSeek /\ UNCHANGED <<fileVars, deviceVars>>
      BY <2>2 DEF ProcessSchedule, Plain, FollowPlain, FollowSchedule, FollowGraph, FollowBox
    <3> QED  BY <1>1, <3>1, ReadKept DEF NoSeek, LoopGoto, fileVars, deviceVars
  <2>3. CASE SeekDepthFrame  BY <1>2, <2>3 DEF SeekDepthFrame, LoopGoto
  <2>4. ASSUME NEW from \in {"trigger1", "trigger2"}, NEW to \in {"trigger2", "flush"},
               Trigger(from, to)
        PROVE  ReadInOrder'
    <3>1. mainAt' # "seeking" /\ UNCHANGED held  BY <2>4 DEF Trigger, LoopGoto
    <3>2. CASE ~AtEnd /\ ReadNext  BY <1>1, <3>1, <3>2, ReadMore
    <3>3. CASE UNCHANGED <<fileVars, device>>  BY <1>1, <3>1, <3>3, ReadKept DEF fileVars
    <3> QED  BY <2>4, <3>2, <3>3 DEF Trigger
  <2>5. CASE EndTrigger
    BY <1>1, <2>5, ReadKept DEF EndTrigger, LoopGoto, fileVars, deviceVars
  <2>6. CASE Timeout \/ Execute
    BY <1>1, <2>6, ReadKept DEF Timeout, Execute, LoopGoto, fileVars, deviceVars
  <2> QED  BY <1>3, <2>1, <2>2, <2>3, <2>4, <2>5, <2>6 DEF MainLoop
<1>4. CASE t \in DeviceThreads /\ DataThread(t)
  <2>1. \A u \in DeviceThreads : Seen(u)' = Seen(u)  BY <1>1 DEF Seen
  <2>2. /\ device \in [DeviceThreads -> {"busy", "waiting", "notified", "fetched"}]
        /\ held \in [DeviceThreads -> 0 .. Frames] /\ data \in [DeviceThreads -> 0 .. Frames]
        /\ Frames \in Nat
    BY ModesAssumption DEF CaptureInv, TypeInv, TypeOK
  <2>3. CASE WaitForData(t)
    <3>1. \A u \in DeviceThreads : device'[u] \in {"notified", "fetched"} => device'[u] = device[u]
      BY <1>4, <2>2, <2>3 DEF WaitForData, DeviceGoto
    <3> QED  BY <2>1, <2>3, <3>1 DEF WaitForData, ReadInOrder, fileVars
  <2>4. CASE Fetch(t)
    <3>1. /\ device[t] = "notified" /\ device'[t] = "fetched" /\ held'[t] = data[t]
          /\ \A u \in DeviceThreads \ {t} : device'[u] = device[u] /\ held'[u] = held[u]
          /\ UNCHANGED <<mainAt, position, data>>
      BY <1>4, <2>2, <2>4 DEF Fetch, DeviceGoto, fileVars
    <3>2. data[t] <= data[t]  BY <1>4, <2>2
    <3>3. ASSUME NEW u \in DeviceThreads
          PROVE  /\ held'[u] <= data'[u]
                 /\ \A x \in Seen(u) : /\ x <= data'[u]
                                       /\ device'[u] = "notified" => x < data'[u]
                                       /\ device'[u] = "fetched" => x < held'[u]
      <4>1. CASE u = t  BY <3>1, <3>2, <4>1 DEF ReadInOrder
      <4>2. CASE u # t  BY <3>1, <4>2 DEF ReadInOrder
      <4> QED  BY <4>1, <4>2
    <3> QED  BY <2>1, <3>1, <3>3 DEF ReadInOrder
  <2> QED  BY <1>4, <2>3, <2>4 DEF DataThread
<1>5. CASE InSync(t)
  BY <1>1, <1>2, <1>5, ReadKept DEF InSync, fileVars, deviceVars
<1>6. CASE SourceCallback(t)
  <2>1. mainAt' # "seeking"
    BY <1>2, <1>6 DEF SourceCallback, StoreFrame, IgnoreFrame, NotifyMain, LoopGoto
  <2> QED
    BY <1>1, <1>6, <2>1, ReadKept DEF SourceCallback, StoreFrame, IgnoreFrame, NotifyMain,
       fileVars, deviceVars
<1> QED  BY <1>3, <1>4, <1>5, <1>6 DEF Thread

(* What comes into the queue behind the frame is behind it for ever. *)
LEMMA FollowsQueue ==
    ASSUME CaptureInv, FrameFollows, NEW u \in AppThreads, SyncP!Step(u), UNCHANGED frameId
    PROVE  FrameFollows'
<1> DEFINE S == 1 .. Frames
<1>1. SyncP!BaseInv /\ SyncP!BaseInv'
  BY SyncConstants, SyncP!BaseStep DEF CaptureInv, SyncP!AnyStep
<1>2. queueT2' \in Seq(S)  BY <1>1 DEF SyncP!BaseInv, SyncP!TypeOK
<1>3. /\ seen2 \subseteq seen2'
      /\ \A j \in 1 .. Len(queueT2') :
            \/ \E i \in 1 .. Len(queueT2) : queueT2'[j] = queueT2[i]
            \/ \A x \in seen2 : x < queueT2'[j]
  BY <1>1, SyncConstants, SyncP!SecondQueueStep DEF SyncP!Pairs!Younger
<1> HIDE DEF S
<1>4. \A j \in 1 .. Len(queueT2') : queueT2'[j] \in S  BY <1>2, ElementOfSeq
<1>5. \A s \in S : 0 <= s /\ s \in Nat  BY ModesAssumption DEF S
<1>6. \A x \in seen2 : x \in Nat  BY <1>1, <1>5 DEF SyncP!BaseInv, SyncP!TypeOK, S
<1>7. frameId' = 0 \/ frameId' \in seen2'  BY <1>3 DEF FrameFollows
<1>8. \A j \in 1 .. Len(queueT2') : frameId <= queueT2'[j]
  BY <1>3, <1>4, <1>5, <1>6 DEF FrameFollows
<1> QED  BY <1>7, <1>8 DEF FrameFollows

(* The callback gets the oldest frame of the queue, which has arrived. *)
LEMMA FollowsStore ==
    ASSUME CaptureInv, SyncP!FreshInv, FrameFollows, NEW t \in AppThreads, StoreFrame(t)
    PROVE  FrameFollows' /\ frameId' >= frameId
<1>1. /\ frameId' = Head(queueT2) /\ UNCHANGED <<queueT2, seen2>> /\ pc[t] \in Sync!Delivering
  BY DEF StoreFrame, syncVars
<1>2. /\ Head(queueT2) = queueT2[1] /\ 1 \in 1 .. Len(queueT2) /\ queueT2[1] \in 1 .. Frames
      /\ queueT2 \in Seq(1 .. Frames) /\ Frames \in Nat
  BY <1>1, FrontIsFrame, ModesAssumption DEF CaptureInv
<1>3. queueT2[1] \in seen2 /\ \A i \in 1 .. Len(queueT2) : 1 < i => queueT2[1] < queueT2[i]
  BY <1>2 DEF SyncP!FreshInv, SyncP!Arrived, SyncP!QueuesFresh, SyncP!Ordered
<1>4. \A i \in 1 .. Len(queueT2) : queueT2[1] <= queueT2[i]
  <2> TAKE i \in 1 .. Len(queueT2)
  <2>1. Len(queueT2) \in Nat  BY <1>2, LenProperties
  <2>2. i = 1 \/ 1 < i  BY <2>1
  <2>3. queueT2[1] <= queueT2[1]  BY <1>2
  <2>4. 1 < i => queueT2[1] <= queueT2[i]
    <3>1. \A i2 \in 1 .. Len(queueT2) : queueT2[i2] \in 1 .. Frames
      <4> DEFINE S == 1 .. Frames
      <4>1. queueT2 \in Seq(S)  BY <1>2
      <4> HIDE DEF S
      <4>2. \A i2 \in 1 .. Len(queueT2) : queueT2[i2] \in S  BY <4>1, ElementOfSeq
      <4> QED  BY <4>2 DEF S
    <3> QED  BY <1>2, <1>3, <3>1
  <2> QED  BY <2>2, <2>3, <2>4
<1>5. frameId <= queueT2[1] /\ frameId \in Nat
  BY <1>2 DEF FrameFollows, CaptureInv, TypeInv, TypeOK
<1> QED  BY <1>1, <1>2, <1>3, <1>4, <1>5 DEF FrameFollows

(* Only the callback changes the frame. *)
LEMMA FrameKept ==
    ASSUME NEW t, Thread(t), ~StoreFrame(t)
    PROVE  UNCHANGED frameId
<1> USE DEF frameVars
<1>1. CASE MainLoop
  BY <1>1 DEF MainLoop, Construct, ProcessSchedule, SeekDepthFrame, Trigger, EndTrigger,
     Timeout, Execute
<1>2. CASE DataThread(t)  BY <1>2 DEF DataThread, WaitForData, Fetch, DataCallback
<1>3. CASE InSync(t)  BY <1>3 DEF InSync
<1>4. CASE SourceCallback(t)  BY <1>4 DEF SourceCallback, IgnoreFrame, NotifyMain
<1> QED  BY <1>1, <1>2, <1>3, <1>4 DEF Thread

(* One step of a file played without seeks. *)
LEMMA PlainThread ==
    ASSUME PlainInv, Plain, NEW t \in AppThreads, Thread(t)
    PROVE  /\ ReadInOrder' /\ SyncP!FreshInv' /\ FrameFollows'
           /\ UNCHANGED syncVars \/ \E u \in AppThreads : SyncP!Step(u)
           /\ frameId' >= frameId
<1> USE DEF PlainInv
<1>1. SyncP!BaseInv /\ SyncP!FreshInv /\ frameId \in Nat /\ frameId <= frameId
  BY ModesAssumption DEF CaptureInv, TypeInv, TypeOK
<1>2. ReadInOrder' /\ (UNCHANGED syncVars \/ \E u \in AppThreads : SyncP!Step(u))
  <2>1. CASE DataCallback(t) /\ mainAt # "done"  BY <2>1, AddsYounger
  <2>2. CASE DataCallback(t) /\ mainAt = "done"
    <3>1. /\ UNCHANGED syncVars /\ UNCHANGED <<position, data, held, mainAt>>
          /\ device' = [device EXCEPT ![t] = "busy"]
      BY <2>2 DEF DataCallback, DeviceGoto, fileVars
    <3>2. device \in [DeviceThreads -> {"busy", "waiting", "notified", "fetched"}]
      BY DEF CaptureInv, TypeInv, TypeOK
    <3>3. \A u \in DeviceThreads : device'[u] \in {"notified", "fetched"} => device'[u] = device[u]
      BY <3>1, <3>2
    <3>4. \A u \in DeviceThreads : Seen(u)' = Seen(u)  BY <3>1 DEF syncVars, Seen
    <3> QED  BY <3>1, <3>3, <3>4 DEF ReadInOrder
  <2>3. CASE ~DataCallback(t)  BY <1>1, <2>3, ReadStep, CallsOnSync
  <2> QED  BY <2>1, <2>2, <2>3
<1>3. SyncP!FreshInv'
  <2>1. [SyncP!Next]_SyncP!vars  BY <1>2, SameVars DEF SyncP!Next
  <2> QED  BY <1>1, <2>1, SyncConstants, SyncP!StreamStep
<1>4. FrameFollows' /\ frameId' >= frameId
  <2>1. CASE StoreFrame(t)  BY <1>1, <2>1, FollowsStore
  <2>2. CASE ~StoreFrame(t)
    <3>1. frameId' = frameId  BY <2>2, FrameKept
    <3>2. CASE UNCHANGED syncVars  BY <1>1, <3>1, <3>2 DEF syncVars, FrameFollows
    <3>3. CASE \E u \in AppThreads : SyncP!Step(u)  BY <1>1, <3>1, <3>3, FollowsQueue
    <3> QED  BY <1>1, <1>2, <3>1, <3>2, <3>3
  <2> QED  BY <2>1, <2>2
<1> QED  BY <1>2, <1>3, <1>4

LEMMA PlainStep ==
    ASSUME PlainInv, [Next]_vars
    PROVE  /\ PlainInv'
           /\ Plain => [SyncP!Next]_SyncP!vars
           /\ [Plain => frameId' >= frameId]_vars
<1>1. CaptureInv' /\ (Plain' <=> Plain)  BY CaptureStep, PlainKept DEF PlainInv
<1>2. ASSUME NEW t \in AppThreads, Thread(t), Plain
      PROVE  /\ ReadInOrder' /\ SyncP!FreshInv' /\ FrameFollows'
             /\ [SyncP!Next]_SyncP!vars /\ frameId' >= frameId
  BY <1>2, PlainThread, SameVars DEF SyncP!Next
<1>3. CASE UNCHANGED vars
  <2>1. UNCHANGED syncVars /\ UNCHANGED <<fileVars, deviceVars, mainAt, frameVars>>
    BY <1>3 DEF vars
  <2>2. UNCHANGED SyncP!vars  BY <2>1, SameVars
  <2>3. ReadInOrder => ReadInOrder'
    BY <2>1 DEF ReadInOrder, Seen, syncVars, fileVars, deviceVars
  <2>4. FrameFollows => FrameFollows'  BY <2>1 DEF FrameFollows, syncVars, frameVars
  <2>5. SyncP!FreshInv /\ SyncP!BaseInv => SyncP!FreshInv'
    BY <2>2, SyncConstants, SyncP!StreamStep
  <2> QED  BY <1>1, <1>3, <2>2, <2>3, <2>4, <2>5 DEF PlainInv, CaptureInv
<1> QED  BY <1>1, <1>2, <1>3 DEF Next, PlainInv

(* The application keeps what rgb_sync_ asks of its callers: without seeks, *)
(* whatever the data threads miss, every run of it is one of Synchronizer, *)
(* whose adders give each stream in increasing order.                      *)
THEOREM PlainUsesSync == Spec /\ Plain => Sync!Spec
<1>1. Init => Sync!Init  BY DEF Init
<1>2. PlainInv /\ [Next]_vars => PlainInv' /\ (Plain => [Sync!Next]_Sync!vars)
  <2>1. [SyncP!Next]_SyncP!vars => [Sync!Next]_Sync!vars
    BY SameSteps, SameVars DEF SyncP!Next, Sync!Next
  <2> QED  BY <2>1, PlainStep
<1>3. Plain /\ [Next]_vars => Plain'  BY PlainKept
<1> QED  BY <1>1, <1>2, <1>3, PlainInit, PTL DEF Spec, Sync!Spec

(* So the pairs its callback gets are a PairStream. *)
THEOREM PlainPairsInOrder == Spec /\ Plain => Sync!PairsInOrder
<1>1. SyncP!ConstantsAssumption  BY SyncConstants
<1>2. SyncP!Spec => SyncP!PairsInOrder  BY <1>1, SyncP!ImplementsPairStream, PTL
<1>3. Sync!Spec => SyncP!Spec
  <2>1. Sync!Init => SyncP!Init  BY DEF Sync!Init, SyncP!Init
  <2>2. [Sync!Next]_Sync!vars => [SyncP!Next]_SyncP!vars
    BY SameSteps, SameVars DEF SyncP!Next, Sync!Next
  <2> QED  BY <2>1, <2>2, PTL DEF Sync!Spec, SyncP!Spec
<1>4. SyncP!PairsInOrder => Sync!PairsInOrder
  <2>1. SyncP!Pairs!StreamInit => Sync!Pairs!StreamInit
    BY DEF Sync!Pairs!StreamInit, SyncP!Pairs!StreamInit
  <2>2. [SyncP!Pairs!StreamNext]_SyncP!Pairs!streamVars => [Sync!Pairs!StreamNext]_Sync!Pairs!streamVars
    BY DEF Sync!Pairs!StreamNext, SyncP!Pairs!StreamNext,
           Sync!Pairs!streamVars, SyncP!Pairs!streamVars,
           Sync!Pairs!HandOut, SyncP!Pairs!HandOut, Sync!Pairs!Arrive1, SyncP!Pairs!Arrive1,
           Sync!Pairs!Arrive2, SyncP!Pairs!Arrive2, Sync!Pairs!Younger, SyncP!Pairs!Younger
  <2> QED
    BY <2>1, <2>2, PTL DEF Sync!PairsInOrder, SyncP!PairsInOrder,
       Sync!Pairs!StreamSpec, SyncP!Pairs!StreamSpec
<1> QED  BY <1>2, <1>3, <1>4, PlainUsesSync, PTL

(* The frames of a file played without seeks come to the main loop in the  *)
(* order of the file, however late and on whatever threads.                *)
THEOREM FramesComeInOrder == Spec => FramesInOrder
<1>1. PlainInv /\ [Next]_vars => PlainInv' /\ [Plain => frameId' >= frameId]_vars
  BY PlainStep
<1> QED  BY <1>1, PlainInit, PTL DEF Spec, FramesInOrder

-----------------------------------------------------------------------------
(* The main thread calls rgb_sync_ for a seek only, and for its callback   *)
(* before it starts.                                                       *)
MainPlace ==
    /\ pc[Main] # "idle" => mainAt = "seeking" /\ pc[Main] \in {"reset", "reset2"}
    /\ mainAt = "construct" => callbackCounter = 0

LEMMA MainPlaceInit == Init => MainPlace
BY DEF Init, Sync!Init, MainPlace, AppThreads

(* The steps of a call leave the places of the other threads alone.        *)
LEMMA OtherPlaces ==
    ASSUME SyncP!BaseInv, NEW t \in AppThreads, InSync(t) \/ SourceCallback(t)
    PROVE  /\ \A u \in AppThreads \ {t} : pc'[u] = pc[u]
           /\ callbackCounter' = callbackCounter
           /\ pc[t] = "reset" => pc'[t] \in {"reset", "reset2"}
           /\ pc[t] = "reset2" => pc'[t] \in {"reset2", "idle"}
           /\ pc[t] = "idle" => pc'[t] = "idle"
<1>1. pc \in [AppThreads -> Sync!Places]
  BY DEF SyncP!BaseInv, SyncP!TypeOK, SyncP!Places, Sync!Places, SyncP!HoldsPublish,
     Sync!HoldsPublish, SyncP!Publishing, Sync!Publishing, SyncP!Finalizing, Sync!Finalizing
<1> USE <1>1 DEF Sync!Goto, Sync!callbacks, syncVars, Sync!Delivering
<1>2. CASE InSync(t)
  BY <1>2 DEF InSync, Sync!StartPublish, Sync!Front1, Sync!Front2, Sync!ReturnFrom,
     Sync!Match, Sync!Decide, Sync!PublishData1, Sync!PublishData2, Sync!LockMutex1, Sync!Deliver,
     Sync!PopFronts, Sync!Unlock, Sync!FinalizePublish, Sync!Finalize1, Sync!Finalize2,
     Sync!Reset1, Sync!Reset2
<1>3. CASE SourceCallback(t)
  BY <1>3 DEF SourceCallback, StoreFrame, IgnoreFrame, NotifyMain, Return, Sync!Call
<1> QED  BY <1>2, <1>3

(* So do the steps of a data thread.                                       *)
LEMMA DataPlaces ==
    ASSUME SyncP!BaseInv, NEW t \in DeviceThreads, DataThread(t)
    PROVE  /\ \A u \in AppThreads \ {t} : pc'[u] = pc[u]
           /\ callbackCounter' = callbackCounter
           /\ mainAt' = mainAt
<1>1. pc \in [AppThreads -> Sync!Places] /\ t \in AppThreads
  BY DEF AppThreads, SyncP!BaseInv, SyncP!TypeOK, SyncP!Places, Sync!Places, SyncP!HoldsPublish,
     Sync!HoldsPublish, SyncP!Publishing, Sync!Publishing, SyncP!Finalizing, Sync!Finalizing
<1> QED
  BY <1>1 DEF DataThread, WaitForData, Fetch, DataCallback, Sync!Add0, Sync!Add1,
     Sync!Goto, Sync!callbacks, syncVars

LEMMA MainPlaceStep ==
    ASSUME CaptureInv, MainPlace, NEW t \in AppThreads, Thread(t)
    PROVE  MainPlace'
<1>1. /\ pc \in [AppThreads -> SyncP!Places] /\ Main \in AppThreads /\ SyncP!BaseInv
      /\ \A h \in Helpers : h # Main /\ h \in AppThreads
  BY ThreadsAssumption DEF CaptureInv, SyncP!BaseInv, SyncP!TypeOK, AppThreads
<1> USE DEF MainPlace, LoopGoto
<1>2. CASE MainLoop
  <2>1. CASE Construct
    BY <2>1 DEF Construct, Sync!AddCallback, Sync!locks, Sync!queues, Sync!locals, Sync!history
  <2>2. CASE ProcessSchedule
    <3>1. \A f : SeekTo(f) => mainAt' = "seeking" /\ pc'[Main] = "reset"
      BY <1>1 DEF SeekTo, Sync!Reset, Sync!Goto
    <3>2. NoSeek \/ Leave => mainAt = "loop" /\ mainAt' \in {"trigger1", "done"} /\ pc' = pc
      BY DEF NoSeek, Leave, syncVars
    <3>3. \A f : SeekUnlessNext(f) =>
                    (mainAt' = "seeking" /\ pc'[Main] = "reset") \/ NoSeek
      BY <3>1 DEF SeekUnlessNext
    <3>4. \A k : StartEdge(k) => mainAt' = "seeking" /\ pc'[Main] = "reset"
      BY <3>1 DEF StartEdge
    <3>5. (mainAt' = "seeking" /\ pc'[Main] = "reset") \/ NoSeek \/ Leave
      BY <2>2, <3>1, <3>3, <3>4 DEF ProcessSchedule, FollowPlain, FollowSchedule, FollowGraph,
         NextEdge, FollowBox
    <3> QED  BY <3>2, <3>5
  <2>3. CASE SeekDepthFrame  BY <2>3 DEF SeekDepthFrame, syncVars
  <2>4. ASSUME NEW from, NEW to \in {"trigger2", "flush"}, from \in {"trigger1", "trigger2"},
               Trigger(from, to)
        PROVE  MainPlace'
    BY <2>4 DEF Trigger, syncVars
  <2>5. CASE EndTrigger
    BY <1>1, <2>5 DEF EndTrigger, Sync!Finalize, Sync!Goto, Sync!callbacks, syncVars
  <2>6. CASE Timeout \/ Execute  BY <2>6 DEF Timeout, Execute, syncVars
  <2> QED  BY <1>2, <2>1, <2>2, <2>3, <2>4, <2>5, <2>6 DEF MainLoop
<1>3. CASE InSync(t) \/ SourceCallback(t)
  <2>1. mainAt' = mainAt \/ (mainAt = "waiting" /\ mainAt' = "woken")
    BY <1>3 DEF InSync, SourceCallback, StoreFrame, IgnoreFrame, NotifyMain
  <2>2. /\ \A u \in AppThreads \ {t} : pc'[u] = pc[u]
        /\ callbackCounter' = callbackCounter
        /\ pc[t] = "reset" => pc'[t] \in {"reset", "reset2"}
        /\ pc[t] = "reset2" => pc'[t] \in {"reset2", "idle"}
        /\ pc[t] = "idle" => pc'[t] = "idle"
    BY <1>1, <1>3, OtherPlaces
  <2>3. CASE t = Main  BY <2>1, <2>2, <2>3
  <2>4. CASE t # Main  BY <1>1, <2>1, <2>2, <2>4
  <2> QED  BY <2>3, <2>4
<1>4. CASE t \in DeviceThreads /\ DataThread(t)
  <2>1. t # Main  BY <1>4, ThreadsAssumption
  <2> QED  BY <1>1, <1>4, <2>1, DataPlaces
<1> QED  BY <1>2, <1>3, <1>4 DEF Thread

(* Whoever could continue in rgb_sync_ may go on, or is the thread of a    *)
(* callback that the main loop keeps out.                                  *)
LEMMA SomeoneGoesOn ==
    ASSUME CaptureInv, MainPlace
    PROVE  SomeoneMayGoOn
<1>1. /\ Main \in AppThreads /\ SyncP!BaseInv /\ TypeOK
      /\ SyncP!NeverAllBlocked
  <2>1. SyncP!BaseInv  BY DEF CaptureInv
  <2> QED
    BY <2>1, SyncConstants, SyncP!SomeoneContinues DEF CaptureInv, TypeInv, AppThreads
<1>2. \A t : SyncP!MayContinue(t) <=> Sync!MayContinue(t)
  BY DEF SyncP!MayContinue, Sync!MayContinue
<1> SUFFICES ASSUME ~SomeoneMayGoOn PROVE FALSE
  OBVIOUS
<1>3. /\ ~LoopMayGoOn
      /\ \A t \in AppThreads : pc[t] # "undefined" /\ ~CallMayGoOn(t)
      /\ ~SeekDeadlock
      /\ ~(mainAt = "done" /\ \A t \in AppThreads : pc[t] = "idle")
      /\ ~(mainAt = "loop" /\ calls = MaxCalls)
  BY <1>1 DEF SomeoneMayGoOn, MayGoOn
<1>4. \A t \in AppThreads : pc[t] # "idle" =>
         ~DataMutexFree /\ \E u \in AppThreads : Sync!MayContinue(u) /\ InCallback(u)
  <2>1. ASSUME NEW t \in AppThreads, pc[t] # "idle"
        PROVE  \E u \in AppThreads : Sync!MayContinue(u)
    BY <1>1, <1>2, <1>3, <2>1 DEF SyncP!NeverAllBlocked
  <2> QED  BY <1>3, <2>1 DEF CallMayGoOn
<1>5. CASE mainAt \in {"waiting", "woken", "done"}
  BY <1>3, <1>4, <1>5 DEF LoopMayGoOn, DataMutexFree
<1>6. CASE mainAt \in {"trigger1", "trigger2", "flush"}
  BY <1>3, <1>6 DEF LoopMayGoOn
<1>7. CASE mainAt = "loop"
  <2>1. calls \in 0 .. MaxCalls /\ MaxCalls \in Nat
    BY <1>1, ModesAssumption DEF SyncP!BaseInv, SyncP!TypeOK
  <2> QED  BY <1>3, <1>7, <2>1 DEF LoopMayGoOn
<1>8. CASE mainAt = "construct"
  <2>1. publishMutex # NoThread  BY <1>3, <1>8 DEF LoopMayGoOn
  <2>2. PICK t \in AppThreads : pc[t] # "idle"
    <3>1. publishMutex \in AppThreads  BY <1>1, <2>1 DEF SyncP!BaseInv, SyncP!TypeOK
    <3>2. pc[publishMutex] \in SyncP!HoldsPublish
      BY <1>1, <1>3, <3>1 DEF SyncP!BaseInv, SyncP!LocksOwned
    <3> QED
      BY <3>1, <3>2 DEF SyncP!HoldsPublish, SyncP!Publishing, SyncP!Finalizing
  <2>3. PICK u \in AppThreads : InCallback(u)  BY <1>4, <2>2
  <2>4. callbackCounter = 0  BY <1>8 DEF MainPlace
  <2>5. cb = {}  BY <1>1, <2>4 DEF SyncP!BaseInv, SyncP!TypeOK
  <2>6. todo[u] = {}  BY <1>1, <2>5 DEF SyncP!BaseInv, SyncP!OnlyRegisteredCalled
  <2> QED  BY <2>3, <2>6 DEF InCallback
<1>9. CASE mainAt = "seeking"
  <2>1. pc[Main] \in {"reset", "reset2"}  BY <1>3, <1>9 DEF LoopMayGoOn, MainPlace
  <2>2. PICK u \in AppThreads : InCallback(u)  BY <1>1, <1>4, <2>1
  <2>3. mutex1 = u /\ mutex2 = u
    <3>1. pc[u] \in SyncP!HoldsMutex1 /\ pc[u] \in SyncP!HoldsMutex2
      BY <2>2 DEF InCallback, Sync!Delivering, SyncP!HoldsMutex1, SyncP!HoldsMutex2, SyncP!Delivering
    <3> QED  BY <1>1, <1>3, <2>2, <3>1 DEF SyncP!BaseInv, SyncP!LocksOwned
  <2> QED  BY <1>3, <1>9, <2>1, <2>2, <2>3 DEF SeekDeadlock, MainBlockedBy
<1> QED
  BY <1>1, <1>5, <1>6, <1>7, <1>8, <1>9 DEF TypeOK

(* There is one way only in which all threads wait for each other, the     *)
(* deadlock of a seek and a callback, for any file, plan and number of     *)
(* helpers: NoOtherDeadlock without ENABLED.                               *)
THEOREM OnlySeeksDeadlock == Spec => []SomeoneMayGoOn
<1>1. CaptureInv /\ MainPlace /\ [Next]_vars => MainPlace'
  <2> SUFFICES ASSUME CaptureInv, MainPlace, [Next]_vars PROVE MainPlace'
    OBVIOUS
  <2>1. CASE UNCHANGED vars  BY <2>1 DEF vars, syncVars, MainPlace
  <2> QED  BY <2>1, MainPlaceStep DEF Next
<1>2. CaptureInv /\ MainPlace => SomeoneMayGoOn  BY SomeoneGoesOn
<1> QED  BY <1>1, <1>2, MainPlaceInit, CaptureInvariant, PTL DEF Spec

-----------------------------------------------------------------------------
(* Without a miss each round of the main loop gets the frame it wants: the *)
(* one sought, or else the next of the file.  What is said of the streams  *)
(* while the main loop wants frame g, in a schedule or a graph that is not *)
(* over, holds from the seek on until it has g and goes on.                *)
Following ==
    /\ mode.kind = "schedule" \/ (mode.kind = "graph" /\ ~Ended)
    /\ ~missed /\ ~crossed
    /\ mainAt # "done" /\ (mainAt = "woken" => hasData)

(* A thread hands a pair to the callback, or pops it next.                 *)
Handing(t) == pc[t] \in Sync!Delivering /\ todo[t] # {}
Popping(t) == pc[t] \in Sync!Delivering /\ todo[t] = {}

Own(t) == IF t = Image THEN queueT1 ELSE queueT2
PopPending == \E t \in AppThreads : Popping(t)
FirstKept == IF PopPending THEN 2 ELSE 1

(* The main loop has frame g, so that what comes next is younger.          *)
Got == mainAt \in {"woken", "loop"}
Oldest(g) == IF Got THEN g + 1 ELSE g

(* How far the file has been read.                                         *)
ReadSoFar(g) ==
    /\ mainAt = "trigger1" => position \in (2 * g - 1) .. (2 * g + 1)
    /\ mainAt = "trigger2" => position \in (2 * g) .. (2 * g + 2)
    /\ mainAt \in {"flush", "waiting", "woken", "loop"} =>
          position \in (2 * g + 1) .. (2 * g + 3)
    /\ mainAt \in {"trigger2", "flush"} /\ ~updated => g = Frames
    /\ 2 * data[Image] - 1 < position /\ 2 * data[Depth] < position

(* A stream is in order from its queue over the thread to the generator,   *)
(* and but for a front that is to be popped it has only g and the next.    *)
StreamOf(t, g) ==
    /\ \A i \in 1 .. Len(Own(t)) :
         /\ Own(t)[i] <= data[t]
         /\ i >= FirstKept => Own(t)[i] >= Oldest(g)
         /\ \A j \in 1 .. Len(Own(t)) : i < j => Own(t)[i] < Own(t)[j]
         /\ device[t] = "fetched" => Own(t)[i] < held[t]
         /\ device[t] = "notified" => Own(t)[i] < data[t]
    /\ device[t] = "fetched" => Oldest(g) <= held[t] /\ held[t] <= data[t]
    /\ device[t] = "notified" => Oldest(g) <= data[t]

(* A thread that has added to its queue after the last reset decides by    *)
(* fronts that are there, and it publishes g only.                         *)
Publisher(t, g) ==
    Own(t) # <<>> =>
       /\ pc[t] = "front2" => queueT1 # <<>> /\ t1[t] = queueT1[1]
       /\ pc[t] = "match" => /\ queueT1 # <<>> /\ t1[t] = queueT1[1]
                             /\ queueT2 # <<>> /\ t2[t] = queueT2[1]
       /\ pc[t] \in {"publishData1", "publishData2"} =>
             /\ ~Got
             /\ Len(queueT1) >= 2 /\ queueT1[1] = g /\ queueT1[2] = g + 1
             /\ queueT2 # <<>> /\ queueT2[1] = g

HandsOut(t, g) ==
    Handing(t) =>
       /\ ~Got /\ queueT1[1] = g /\ queueT2[1] = g
       /\ t \in DeviceThreads => Len(queueT1) >= 2 /\ queueT1[2] = g + 1
       /\ t \in Helpers => mainAt = "waiting"

(* A helper comes at the end of the file only.                             *)
HelpersRest(g) ==
    /\ \A h \in Helpers : pc[h] # "idle" =>
         \/ mainAt = "waiting" /\ g = Frames
         \/ Got /\ g = Frames /\ Popping(h)
         \/ mainAt = "seeking" /\ pc[Main] = "reset" /\ Popping(h)
    /\ \A h, k \in Helpers : pc[h] # "idle" /\ pc[k] # "idle" => h = k

Streams(g) ==
    /\ ReadSoFar(g)
    /\ \A t \in DeviceThreads : StreamOf(t, g) /\ Publisher(t, g)
    /\ \A t \in AppThreads : HandsOut(t, g)

Round(g) ==
    /\ mainAt # "construct" /\ (mainAt = "seeking" => target = g)
    /\ HelpersRest(g)
    /\ stored # {} => mainAt = "waiting" /\ frameId = g
    /\ Got => frameId = g
    /\ mainAt # "seeking" => Streams(g)

(* What g is, by the plan. *)
Wanted(g) ==
    /\ mode.kind = "schedule" => index > 1 /\ g = mode.plan[index - 1]
    /\ mode.kind = "graph" =>
         /\ headFrame = FragmentHead(index)
         /\ \/ g \in FragmentHead(index) .. FrameJ(index)
            \/ g = FrameI(index) /\ (CutShort(index) \/ tailFrame = FrameJ(index))

(* And after which one, until it is stored.                                *)
Turn(g) == mode.kind = "graph" /\ stored = {} /\ ~Got => CalledFor(g)

(* Before the first entry of the plan there is nothing.                    *)
Unstarted ==
    /\ mainAt \in {"construct", "loop"} /\ index = 1 /\ frameId = 0
    /\ position = 1 /\ data = [t \in DeviceThreads |-> 0]
    /\ \A t \in DeviceThreads : device[t] \in {"busy", "waiting"}
    /\ queueT1 = <<>> /\ queueT2 = <<>> /\ stored = {}
    /\ \A t \in AppThreads : pc[t] = "idle"

FollowInv ==
    Following => Unstarted \/ \E g \in 1 .. Frames : Round(g) /\ Wanted(g) /\ Turn(g)

(* Where the threads may be at all, and whom the synchronizer calls back.  *)
RolesInv ==
    /\ \A t \in DeviceThreads : pc[t] \in {"idle", "publish", "undefined"} \union Sync!Publishing
    /\ \A h \in Helpers : pc[h] \in {"idle", "finalize"} \union Sync!Finalizing
    /\ pc[Main] \in {"idle", "reset", "reset2"}
    /\ pc[Main] # "idle" => mainAt = "seeking"
    /\ cb = IF mainAt = "construct" THEN {} ELSE {0}
    /\ callbackCounter = IF mainAt = "construct" THEN 0 ELSE 1
    /\ exit => mainAt = "done"
    /\ \A t \in stored : Handing(t)

(* The first statement of the main loop seeks, goes on or ends the loop.   *)
LEMMA ScheduleOutcome ==
    ASSUME CaptureInv, ProcessSchedule
    PROVE  /\ mainAt = "loop" /\ mode' = mode /\ index' >= index
           /\ UNCHANGED <<fileVars, deviceVars, updated, hasData, misses, missed, crossed,
                          frameId, stored>>
           /\ \/ \E f \in 1 .. Frames : SeekTo(f)
              \/ NoSeek \/ Leave
<1> DEFINE Goes == (\E f \in 1 .. Frames : SeekTo(f)) \/ NoSeek \/ Leave
<1>1. /\ index \in Nat \ {0} /\ Frames \in Nat /\ frameId \in 0 .. Frames /\ mode \in Modes
  BY ModesAssumption DEF CaptureInv, TypeInv, TypeOK
<1>2. \A f \in 1 .. Frames : SeekUnlessNext(f) => Goes  BY DEF SeekUnlessNext
<1>3. /\ mode.kind \in {"schedule", "graph"} => Len(mode.plan) \in Nat
      /\ \A k \in 1 .. Len(mode.plan) :
           /\ mode.kind = "schedule" => mode.plan[k] \in 1 .. Frames
           /\ mode.kind = "graph" => FrameI(k) \in 1 .. Frames /\ FragmentHead(k) \in 1 .. Frames
  BY <1>1, PlanFrames, ModesAssumption, LenProperties DEF CaptureInv
<1>4. \A f : SeekTo(f) => mainAt = "loop"  BY DEF SeekTo, LoopGoto
<1>5. NoSeek \/ Leave => mainAt = "loop"  BY DEF NoSeek, Leave, LoopGoto
<1> HIDE DEF Goes
<1>6. FollowPlain => Goes /\ UNCHANGED <<mode, index>>  BY DEF FollowPlain, planVars, Goes
<1>7. FollowSchedule => Goes /\ mode' = mode /\ index' \in {index, index + 1}
  <2> SUFFICES ASSUME FollowSchedule PROVE Goes /\ mode' = mode /\ index' \in {index, index + 1}
    OBVIOUS
  <2>1. ~Ended => index \in 1 .. Len(mode.plan)  BY <1>1, <1>3 DEF FollowSchedule, Ended
  <2>2. ~Ended => Goes  BY <1>2, <1>3, <2>1 DEF FollowSchedule
  <2>3. Ended => Goes  BY DEF FollowSchedule, Goes
  <2> QED  BY <2>2, <2>3 DEF FollowSchedule
<1>8. FollowGraph => Goes /\ mode' = mode /\ index' \in {index, index + 1}
  <2> SUFFICES ASSUME FollowGraph PROVE Goes /\ mode' = mode /\ index' \in {index, index + 1}
    OBVIOUS
  <2>1. ~Ended => index \in 1 .. Len(mode.plan)  BY <1>1, <1>3 DEF FollowGraph, Ended
  <2>2. index < Len(mode.plan) => index + 1 \in 1 .. Len(mode.plan)  BY <1>1, <1>3 DEF FollowGraph
  <2>3. \A k \in 1 .. Len(mode.plan) : StartEdge(k) \/ SeekUnlessNext(FrameI(k)) => Goes
    BY <1>2, <1>3 DEF FollowGraph, StartEdge, Goes
  <2>4. NextEdge => Goes /\ index' = index + 1  BY <2>2, <2>3 DEF NextEdge, Goes
  <2>5. NoSeek => Goes  BY DEF Goes
  <2> QED  BY <2>1, <2>3, <2>4, <2>5 DEF FollowGraph
<1>9. FollowBox => Goes /\ UNCHANGED <<mode, index>>
  <2>1. \A f \in (frameId + 1) .. (Frames - 1) : f + 1 \in 1 .. Frames  BY <1>1
  <2> QED  BY <2>1 DEF FollowBox, planVars, Goes
<1>10. Goes /\ mode' = mode /\ index' \in {index, index + 1}
  BY <1>6, <1>7, <1>8, <1>9 DEF ProcessSchedule
<1> QED  BY <1>1, <1>4, <1>5, <1>10 DEF ProcessSchedule, Goes

LEMMA RolesInit == Init => RolesInv
<1> SUFFICES ASSUME Init PROVE RolesInv
  OBVIOUS
<1>1. Main \in AppThreads /\ DeviceThreads \subseteq AppThreads /\ Helpers \subseteq AppThreads
  BY DEF AppThreads
<1> QED  BY <1>1 DEF Init, Sync!Init, RolesInv

(* Where the threads are, and that one is in a callback at a time.         *)
LEMMA PlaceFacts ==
    ASSUME CaptureInv
    PROVE  /\ pc \in [AppThreads -> Sync!Places] /\ todo \in [AppThreads -> SUBSET cb]
           /\ Main \in AppThreads /\ DeviceThreads \subseteq AppThreads /\ Helpers \subseteq AppThreads
           /\ \A t, u \in AppThreads :
                pc[t] \in Sync!HoldsPublish /\ pc[u] \in Sync!HoldsPublish => t = u
           /\ \A t \in AppThreads : pc[t] \in Sync!Delivering =>
                mutex1 = t /\ mutex2 = t /\ publishMutex = t
           /\ queueT1 \in Seq(1 .. Frames) /\ queueT2 \in Seq(1 .. Frames)
           /\ \A t \in AppThreads : pc[t] \in Sync!Delivering =>
                queueT1 # <<>> /\ queueT2 # <<>>
<1> USE DEF CaptureInv, SyncP!BaseInv, SyncP!TypeOK, SyncP!LocksOwned, SyncP!DeliveryDefined,
        SyncP!OnlyRegisteredCalled, SyncP!Places, Sync!Places, SyncP!HoldsPublish,
        Sync!HoldsPublish, SyncP!Publishing, Sync!Publishing, SyncP!Finalizing, Sync!Finalizing,
        SyncP!Delivering, Sync!Delivering, SyncP!HoldsMutex1, SyncP!HoldsMutex2
<1>1. pc \in [AppThreads -> Sync!Places]  OBVIOUS
<1>2. todo \in [AppThreads -> SUBSET cb]  OBVIOUS
<1>3. \A t, u \in AppThreads :
        pc[t] \in Sync!HoldsPublish /\ pc[u] \in Sync!HoldsPublish => t = u
  OBVIOUS
<1>4. \A t \in AppThreads : pc[t] \in Sync!Delivering =>
        mutex1 = t /\ mutex2 = t /\ publishMutex = t
  OBVIOUS
<1>5. queueT1 \in Seq(1 .. Frames) /\ queueT2 \in Seq(1 .. Frames)  OBVIOUS
<1>6. \A t \in AppThreads : pc[t] \in Sync!Delivering => queueT1 # <<>> /\ queueT2 # <<>>
  OBVIOUS
<1> QED  BY <1>1, <1>2, <1>3, <1>4, <1>5, <1>6 DEF AppThreads

(* What a step inside rgb_sync_ does to places and queues.  Until it       *)
(* matches, hands out or pops a thread only looks at the queues.           *)
Looks(t) ==
    /\ \A u \in AppThreads \ {t} : pc'[u] = pc[u] /\ t1'[u] = t1[u] /\ t2'[u] = t2[u]
    /\ pc[t] \notin Sync!Delivering /\ pc'[t] \notin Sync!Delivering
    /\ UNCHANGED <<queueT1, queueT2, todo>>
    /\ pc'[t] = "front2" => queueT1 # <<>> /\ t1'[t] = queueT1[1]
    /\ pc'[t] = "match" => /\ pc[t] = "front2" /\ t1'[t] = t1[t]
                           /\ queueT2 # <<>> /\ t2'[t] = queueT2[1]
    /\ pc'[t] = "publishData1" => FALSE
    /\ pc'[t] = "publishData2" => pc[t] = "publishData1"
    /\ pc[t] = "idle" => pc'[t] = "idle"
    /\ pc[t] \in {"reset", "reset2"} => pc[t] = "reset" /\ pc'[t] = "reset2" /\ mutex1 = NoThread

HandsOver(t) ==
    /\ pc[t] \in {"publishData2", "finalize2"} /\ mutex2 = NoThread
    /\ pc' = [pc EXCEPT ![t] = IF pc[t] = "publishData2" THEN "call" ELSE "finalCall"]
    /\ todo' = [todo EXCEPT ![t] = cb]
    /\ queueT1 # <<>> /\ queueT2 # <<>>
    /\ UNCHANGED <<queueT1, queueT2, t1, t2>>

LEMMA SyncKinds ==
    ASSUME CaptureInv, NEW t \in AppThreads, InSync(t)
    PROVE  /\ UNCHANGED appVars /\ UNCHANGED <<cb, callbackCounter>>
           /\ Looks(t) \/ Sync!Match(t) \/ HandsOver(t) \/ Sync!PopFronts(t) \/ Sync!Reset2(t)
<1>1. UNCHANGED appVars  BY DEF InSync, appVars
<1>2. pc \in [AppThreads -> Sync!Places] /\ todo \in [AppThreads -> SUBSET cb]
      /\ queueT1 \in Seq(1 .. Frames) /\ queueT2 \in Seq(1 .. Frames)
      /\ t1 \in [AppThreads -> (1 .. Frames) \union {0}]
      /\ t2 \in [AppThreads -> (1 .. Frames) \union {0}]
  BY PlaceFacts DEF CaptureInv, SyncP!BaseInv, SyncP!TypeOK
<1>3. queueT1 # <<>> => Head(queueT1) = queueT1[1]  BY <1>2
<1>4. queueT2 # <<>> => Head(queueT2) = queueT2[1]  BY <1>2
<1> USE DEF Sync!Goto, Sync!queues, Sync!locks, Sync!callbacks, Sync!locals, Sync!history,
        Sync!Delivering
<1>5. CASE Sync!StartPublish(t)  BY <1>1, <1>2, <1>5 DEF Sync!StartPublish, Looks
<1>6. CASE Sync!Front1(t)  BY <1>1, <1>2, <1>3, <1>6 DEF Sync!Front1, Sync!ReturnFrom, Looks
<1>7. CASE Sync!Front2(t)  BY <1>1, <1>2, <1>4, <1>7 DEF Sync!Front2, Sync!ReturnFrom, Looks
<1>8. CASE Sync!Match(t)  BY <1>1, <1>8 DEF Sync!Match, Sync!Decide
<1>9. CASE Sync!PublishData1(t)
  BY <1>1, <1>2, <1>9 DEF Sync!PublishData1, Sync!LockMutex1, Looks
<1>10. CASE Sync!PublishData2(t)
  <2>1. CASE Sync!Deliver(t, "publishData2", "call") /\ queueT1 # <<>> /\ queueT2 # <<>>
    BY <1>1, <1>2, <1>10, <2>1 DEF Sync!PublishData2, Sync!Deliver, HandsOver
  <2>2. CASE ~(queueT1 # <<>> /\ queueT2 # <<>>)
    BY <1>1, <1>2, <1>10, <2>2 DEF Sync!PublishData2, Looks
  <2> QED  BY <1>10, <2>1, <2>2 DEF Sync!PublishData2
<1>11. CASE Sync!PopFronts(t)  BY <1>1, <1>11 DEF Sync!PopFronts
<1>12. CASE Sync!FinalizePublish(t)  BY <1>1, <1>2, <1>12 DEF Sync!FinalizePublish, Looks
<1>13. CASE Sync!Finalize1(t)
  BY <1>1, <1>2, <1>13 DEF Sync!Finalize1, Sync!LockMutex1, Looks
<1>14. CASE Sync!Finalize2(t)
  <2>1. CASE Sync!Deliver(t, "finalize2", "finalCall") /\ queueT1 # <<>> /\ queueT2 # <<>>
    BY <1>1, <1>2, <1>14, <2>1 DEF Sync!Finalize2, Sync!Deliver, HandsOver
  <2>2. CASE ~(queueT1 # <<>> /\ queueT2 # <<>>)
    BY <1>1, <1>2, <1>14, <2>2 DEF Sync!Finalize2, Looks
  <2> QED  BY <1>14, <2>1, <2>2 DEF Sync!Finalize2
<1>15. CASE Sync!Reset1(t)
  BY <1>1, <1>2, <1>15 DEF Sync!Reset1, Sync!LockMutex1, Looks
<1>16. CASE Sync!Reset2(t)  BY <1>1, <1>16 DEF Sync!Reset2
<1> QED
  BY <1>5, <1>6, <1>7, <1>8, <1>9, <1>10, <1>11, <1>12, <1>13, <1>14, <1>15, <1>16 DEF InSync

(* The threads keep to their roles in rgb_sync_.                           *)
LEMMA PlacesOfRoles ==
    ASSUME CaptureInv, RolesInv, NEW t \in AppThreads, InSync(t)
    PROVE  /\ \A u \in AppThreads \ {t} : pc'[u] = pc[u]
           /\ \A u \in DeviceThreads : pc'[u] \in {"idle", "publish", "undefined"} \union Sync!Publishing
           /\ \A h \in Helpers : pc'[h] \in {"idle", "finalize"} \union Sync!Finalizing
           /\ pc'[Main] \in {"idle", "reset", "reset2"} /\ (pc[Main] = "idle" => pc'[Main] = "idle")
<1>1. /\ pc \in [AppThreads -> Sync!Places] /\ Main \in AppThreads
      /\ \A u \in DeviceThreads : u \in AppThreads /\ u # Main /\ u \notin Helpers
      /\ \A h \in Helpers : h \in AppThreads /\ h # Main
  BY PlaceFacts, ThreadsAssumption
<1>2. /\ \A u \in AppThreads \ {t} : pc'[u] = pc[u]
      /\ t \in DeviceThreads => pc'[t] \in {"idle", "publish", "undefined"} \union Sync!Publishing
      /\ t \in Helpers => pc'[t] \in {"idle", "finalize"} \union Sync!Finalizing
      /\ t = Main => pc'[t] \in {"idle", "reset", "reset2"} /\ pc[t] # "idle"
  <2> USE <1>1 DEF RolesInv, Sync!Goto, Sync!Publishing, Sync!Finalizing, Sync!Places, Sync!HoldsPublish, Sync!Delivering
  <2>1. CASE Sync!StartPublish(t)  BY <2>1 DEF Sync!StartPublish
  <2>2. CASE Sync!Front1(t)  BY <2>2 DEF Sync!Front1, Sync!ReturnFrom
  <2>3. CASE Sync!Front2(t)  BY <2>3 DEF Sync!Front2, Sync!ReturnFrom
  <2>4. CASE Sync!Match(t)  BY <2>4 DEF Sync!Match, Sync!Decide
  <2>5. CASE Sync!PublishData1(t)  BY <2>5 DEF Sync!PublishData1, Sync!LockMutex1
  <2>6. CASE Sync!PublishData2(t)  BY <2>6 DEF Sync!PublishData2, Sync!Deliver
  <2>7. CASE Sync!PopFronts(t)  BY <2>7 DEF Sync!PopFronts, Sync!Unlock
  <2>8. CASE Sync!FinalizePublish(t)  BY <2>8 DEF Sync!FinalizePublish
  <2>9. CASE Sync!Finalize1(t)  BY <2>9 DEF Sync!Finalize1, Sync!LockMutex1
  <2>10. CASE Sync!Finalize2(t)  BY <2>10 DEF Sync!Finalize2, Sync!Deliver
  <2>11. CASE Sync!Reset1(t)  BY <2>11 DEF Sync!Reset1, Sync!LockMutex1
  <2>12. CASE Sync!Reset2(t)  BY <2>12 DEF Sync!Reset2
  <2> QED
    BY <2>1, <2>2, <2>3, <2>4, <2>5, <2>6, <2>7, <2>8, <2>9, <2>10, <2>11, <2>12 DEF InSync
<1>3. pc'[Main] \in {"idle", "reset", "reset2"} /\ (pc[Main] = "idle" => pc'[Main] = "idle")
  BY <1>1, <1>2 DEF RolesInv
<1>4. ASSUME NEW u \in DeviceThreads
      PROVE  pc'[u] \in {"idle", "publish", "undefined"} \union Sync!Publishing
  <2>1. CASE u = t  BY <1>2, <2>1
  <2>2. CASE u # t  BY <1>1, <1>2, <2>2 DEF RolesInv
  <2> QED  BY <2>1, <2>2
<1>5. ASSUME NEW h \in Helpers
      PROVE  pc'[h] \in {"idle", "finalize"} \union Sync!Finalizing
  <2>1. CASE h = t  BY <1>2, <2>1
  <2>2. CASE h # t  BY <1>1, <1>2, <2>2 DEF RolesInv
  <2> QED  BY <2>1, <2>2
<1> QED  BY <1>2, <1>3, <1>4, <1>5

LEMMA RolesStep ==
    ASSUME CaptureInv, RolesInv, NEW t \in AppThreads, Thread(t)
    PROVE  RolesInv'
<1>1. /\ pc \in [AppThreads -> Sync!Places] /\ todo \in [AppThreads -> SUBSET cb]
      /\ Main \in AppThreads /\ Main \notin DeviceThreads /\ Main \notin Helpers
      /\ DeviceThreads \subseteq AppThreads /\ Helpers \subseteq AppThreads
      /\ \A u \in DeviceThreads : u \notin Helpers
  BY PlaceFacts, ThreadsAssumption
<1>2. stored \subseteq AppThreads  BY DEF CaptureInv, TypeInv, TypeOK
<1>3. CASE MainLoop
  <2> USE DEF LoopGoto
  <2>1. CASE Construct
    <3>1. UNCHANGED <<pc, todo, exit, stored>> /\ mainAt = "construct" /\ mainAt' = "loop"
      BY <2>1 DEF Construct, Sync!AddCallback, Sync!queues, Sync!locks, Sync!locals, frameVars
    <3>2. cb' = {0} /\ callbackCounter' = 1 /\ pc[Main] = "idle"
      BY <2>1, <3>1 DEF Construct, Sync!AddCallback, RolesInv
    <3> QED  BY <3>1, <3>2 DEF RolesInv, Handing
  <2>2. CASE ProcessSchedule
    <3>1. mainAt = "loop" /\ stored' = stored  BY <2>2, ScheduleOutcome
    <3>2. UNCHANGED <<cb, callbackCounter, todo>>
      BY <2>2, ScheduleOutcome DEF SeekTo, NoSeek, Leave, Sync!Reset, Sync!callbacks, Sync!locals,
         syncVars
    <3>3. CASE \E f \in 1 .. Frames : SeekTo(f)
      <4>1. /\ pc[Main] = "idle" /\ pc' = [pc EXCEPT ![Main] = "reset"]
            /\ mainAt' = "seeking" /\ exit' = exit
        BY <3>3 DEF SeekTo, Sync!Reset, Sync!Goto
      <4>2. \A u \in stored : Handing(u)'
        BY <1>1, <1>2, <3>2, <4>1 DEF RolesInv, Handing, Sync!Delivering
      <4> QED  BY <1>1, <3>1, <3>2, <4>1, <4>2 DEF RolesInv
    <3>4. CASE NoSeek \/ Leave
      <4>1. /\ pc' = pc /\ mainAt' \in {"trigger1", "done"}
            /\ (exit' = exit \/ mainAt' = "done")
        BY <3>4 DEF NoSeek, Leave, syncVars
      <4> QED  BY <3>1, <3>2, <4>1 DEF RolesInv, Handing
    <3> QED  BY <2>2, <3>3, <3>4, ScheduleOutcome
  <2>3. CASE EndTrigger
    <3>1. mainAt = "flush" /\ mainAt' = "waiting" /\ UNCHANGED <<cb, callbackCounter, todo, stored, exit>>
      BY <2>3 DEF EndTrigger, Sync!Finalize, Sync!callbacks, Sync!locals, syncVars, frameVars
    <3>2. pc' = pc \/ \E h \in Helpers : pc[h] = "idle" /\ pc' = [pc EXCEPT ![h] = "finalize"]
      BY <2>3 DEF EndTrigger, Sync!Finalize, Sync!Goto, syncVars
    <3>3. \A u \in stored : Handing(u)'
      BY <1>1, <1>2, <3>1, <3>2 DEF RolesInv, Handing, Sync!Delivering
    <3> QED  BY <1>1, <3>1, <3>2, <3>3 DEF RolesInv
  <2>4. CASE SeekDepthFrame
    BY <1>1, <2>4 DEF SeekDepthFrame, RolesInv, Handing, syncVars, frameVars
  <2>5. ASSUME NEW from \in {"trigger1", "trigger2"}, NEW to \in {"trigger2", "flush"},
               Trigger(from, to)
        PROVE  RolesInv'
    <3>1. /\ UNCHANGED <<pc, todo, cb, callbackCounter, stored, exit>>
          /\ mainAt \in {"trigger1", "trigger2"} /\ mainAt' \in {"trigger2", "flush"}
      BY <2>5 DEF Trigger, syncVars, frameVars
    <3> QED  BY <1>1, <3>1 DEF RolesInv, Handing
  <2>6. CASE Timeout
    BY <1>1, <2>6 DEF Timeout, RolesInv, Handing, syncVars, frameVars
  <2>7. CASE Execute
    BY <1>1, <2>7 DEF Execute, RolesInv, Handing, syncVars
  <2> QED  BY <1>3, <2>1, <2>2, <2>3, <2>4, <2>5, <2>6, <2>7 DEF MainLoop
<1>4. CASE t \in DeviceThreads /\ DataThread(t)
  <2>1. /\ pc' = pc \/ (pc[t] = "idle" /\ pc' = [pc EXCEPT ![t] = "publish"])
        /\ UNCHANGED <<todo, cb, callbackCounter, stored, exit, mainAt>>
    BY <1>4 DEF DataThread, WaitForData, Fetch, DataCallback, Sync!Add0, Sync!Add1, Sync!Goto,
       Sync!callbacks, Sync!locals, syncVars, frameVars
  <2>2. \A u \in stored : Handing(u)'
    BY <1>1, <1>2, <1>4, <2>1 DEF RolesInv, Handing, Sync!Delivering
  <2> QED  BY <1>1, <1>4, <2>1, <2>2 DEF RolesInv
<1>5. CASE InSync(t)
  <2>1. /\ UNCHANGED <<cb, callbackCounter, stored, exit, mainAt>>
        /\ Looks(t) \/ Sync!Match(t) \/ HandsOver(t) \/ Sync!PopFronts(t) \/ Sync!Reset2(t)
    BY <1>5, SyncKinds DEF appVars, frameVars
  <2>2. \A u \in stored : Handing(u)'
    <3> SUFFICES ASSUME NEW u \in stored PROVE Handing(u)'
      OBVIOUS
    <3>1. Handing(u) /\ u \in AppThreads  BY <1>2 DEF RolesInv
    <3>2. u # t => pc'[u] = pc[u]  BY <1>5, <3>1, PlacesOfRoles
    <3>3. u = t => HandsOver(t) \/ Sync!PopFronts(t) \/ Sync!Match(t) \/ Sync!Reset2(t)
      BY <2>1, <3>1 DEF Looks, Handing
    <3>4. u # t
      BY <1>1, <3>1, <3>3 DEF HandsOver, Sync!PopFronts, Sync!Match, Sync!Decide, Sync!Reset2, Sync!Goto, Handing, Sync!Delivering
    <3>5. todo'[u] = todo[u]
      BY <1>1, <2>1, <3>1, <3>4 DEF Looks, HandsOver, Sync!PopFronts, Sync!Match, Sync!Reset2,
         Sync!locals
    <3> QED  BY <3>1, <3>2, <3>4, <3>5 DEF Handing
  <2> QED  BY <1>1, <1>5, <2>1, <2>2, PlacesOfRoles DEF RolesInv
<1>6. CASE SourceCallback(t)
  <2>1. /\ UNCHANGED <<pc, cb, callbackCounter, exit>>
        /\ mainAt' = mainAt \/ (mainAt = "waiting" /\ mainAt' = "woken")
    BY <1>6 DEF SourceCallback, StoreFrame, IgnoreFrame, NotifyMain, Return, Sync!Call,
       Sync!callbacks, Sync!queues, LoopGoto, syncVars, frameVars
  <2>2. \A u \in stored' : Handing(u)'
    <3>1. CASE StoreFrame(t)
      <4>1. UNCHANGED <<pc, todo>> /\ stored' = stored \union {t} /\ Handing(t)
        BY <3>1 DEF StoreFrame, syncVars, Handing
      <4> QED  BY <4>1 DEF RolesInv, Handing
    <3>2. CASE IgnoreFrame(t) \/ NotifyMain(t)
      <4>1. \E s \in SUBSET cb : todo' = [todo EXCEPT ![t] = s]
        BY <1>1, <3>2 DEF IgnoreFrame, NotifyMain, Return, Sync!Call
      <4>2. stored' \subseteq stored \ {t}
        BY <3>2 DEF IgnoreFrame, NotifyMain, frameVars
      <4>3. \A u \in stored' : todo'[u] = todo[u]  BY <1>1, <1>2, <4>1, <4>2
      <4> QED  BY <2>1, <4>2, <4>3 DEF RolesInv, Handing
    <3> QED  BY <1>6, <3>1, <3>2 DEF SourceCallback
  <2> QED  BY <2>1, <2>2 DEF RolesInv
<1> QED  BY <1>3, <1>4, <1>5, <1>6 DEF Thread

-----------------------------------------------------------------------------
(* The steps of a round.  First the helpers.                               *)

LEMMA HelpersInSync ==
    ASSUME CaptureInv, RolesInv, NEW g \in 1 .. Frames, Round(g), NEW t \in AppThreads, InSync(t)
    PROVE  HelpersRest(g)'
<1>1. /\ \A u \in AppThreads \ {t} : pc'[u] = pc[u]
      /\ pc[t] = "idle" => pc'[t] = "idle"
      /\ pc[Main] = "idle" => pc'[Main] = "idle"
  BY OtherPlaces, PlacesOfRoles DEF CaptureInv
<1>2. /\ mainAt' = mainAt
      /\ Looks(t) \/ Sync!Match(t) \/ HandsOver(t) \/ Sync!PopFronts(t) \/ Sync!Reset2(t)
  BY SyncKinds DEF appVars
<1>3. /\ todo \in [AppThreads -> SUBSET cb] /\ pc \in [AppThreads -> Sync!Places]
      /\ Main \in AppThreads /\ \A h \in Helpers : h \in AppThreads /\ h # Main
      /\ \A u \in AppThreads : pc[u] \in Sync!Delivering => mutex1 = u /\ mutex2 = u /\ u # NoThread
  BY PlaceFacts, ThreadsAssumption
<1>4. HelpersRest(g)  BY DEF Round
<1>5. \A u \in AppThreads \ {t} : todo'[u] = todo[u]
  BY <1>2, <1>3 DEF Looks, HandsOver, Sync!PopFronts, Sync!Match, Sync!Reset2, Sync!locals
<1>6. \A h \in Helpers : Popping(h) => (Popping(h)' /\ h # t) \/ (h = t /\ pc'[h] = "idle")
  <2> SUFFICES ASSUME NEW h \in Helpers, Popping(h)
               PROVE  (Popping(h)' /\ h # t) \/ (h = t /\ pc'[h] = "idle")
    OBVIOUS
  <2>1. CASE h # t  BY <1>1, <1>3, <1>5, <2>1 DEF Popping
  <2>2. CASE h = t
    BY <1>2, <1>3, <2>2 DEF Looks, Sync!Match, Sync!Decide, HandsOver, Sync!PopFronts, Sync!Unlock,
       Sync!Reset2, Sync!Goto, Popping, Sync!Delivering
  <2> QED  BY <2>1, <2>2
<1>7. \A h \in Helpers : mainAt = "seeking" /\ pc[Main] = "reset" /\ pc'[Main] # "reset" => ~Popping(h)
  <2> SUFFICES ASSUME NEW h \in Helpers, mainAt = "seeking", pc[Main] = "reset",
                      pc'[Main] # "reset", Popping(h)
               PROVE  FALSE
    OBVIOUS
  <2>1. t = Main  BY <1>1, <1>3
  <2>2. mutex1 = NoThread
    BY <1>2, <1>3, <2>1 DEF Looks, Sync!Match, Sync!Decide, HandsOver, Sync!PopFronts, Sync!Unlock,
       Sync!Reset2, Sync!Goto, Sync!Delivering
  <2> QED  BY <1>3, <2>2 DEF Popping
<1>8. \A h \in Helpers : pc'[h] # "idle" => pc[h] # "idle"  BY <1>1, <1>3
<1> QED
  BY <1>2, <1>3, <1>4, <1>6, <1>7, <1>8 DEF HelpersRest, Got

(* The pair is handed to the one callback there is.                        *)
LEMMA OneCallback ==
    ASSUME CaptureInv, RolesInv, NEW t \in AppThreads, Return(t)
    PROVE  /\ todo' = [todo EXCEPT ![t] = {}] /\ pc' = pc
           /\ UNCHANGED <<queueT1, queueT2, t1, t2, mutex1, mutex2, publishMutex, cb, callbackCounter>>
<1>1. /\ todo \in [AppThreads -> SUBSET cb] /\ cb \subseteq {0}
  BY PlaceFacts DEF RolesInv
<1>2. PICK id \in todo[t] : Sync!Call(t, id)  BY DEF Return
<1>3. todo[t] \ {id} = {}  BY <1>1, <1>2
<1> QED
  BY <1>2, <1>3 DEF Sync!Call, Sync!queues, Sync!locks, Sync!callbacks

LEMMA HelpersAtNotice ==
    ASSUME CaptureInv, RolesInv, NEW g \in 1 .. Frames, Round(g), NEW t \in AppThreads, NotifyMain(t)
    PROVE  HelpersRest(g)' /\ mainAt = "waiting" /\ mainAt' = "woken" /\ Handing(t)
<1>1. /\ mainAt = "waiting" /\ t \in stored /\ Handing(t)
      /\ HelpersRest(g) /\ HandsOut(t, g)
  BY DEF Round, Streams, NotifyMain, RolesInv
<1>2. /\ todo' = [todo EXCEPT ![t] = {}] /\ pc' = pc /\ mainAt' = "woken"
  BY <1>1, OneCallback DEF NotifyMain, LoopGoto
<1>3. \A h \in Helpers : pc[h] # "idle" => g = Frames /\ h = t
  <2> SUFFICES ASSUME NEW h \in Helpers, pc[h] # "idle" PROVE g = Frames /\ h = t
    OBVIOUS
  <2>1. g = Frames  BY <1>1 DEF HelpersRest, Got
  <2>2. t \notin DeviceThreads
    <3>1. queueT1 \in Seq(1 .. Frames)  BY PlaceFacts
    <3>2. t \in DeviceThreads => Len(queueT1) >= 2 /\ queueT1[2] = g + 1
      BY <1>1 DEF HandsOut
    <3>3. Len(queueT1) >= 2 => queueT1[2] \in 1 .. Frames
      <4>1. Len(queueT1) >= 2 => 2 \in 1 .. Len(queueT1)  BY <3>1
      <4> QED  BY <3>1, <4>1, ElementOfSeq
    <3> QED  BY <2>1, <3>2, <3>3
  <2>3. t # Main  BY <1>1 DEF RolesInv, Handing, Sync!Delivering
  <2>4. t \in Helpers  BY <2>2, <2>3 DEF AppThreads
  <2>5. pc[t] # "idle"  BY <1>1 DEF Handing, Sync!Delivering
  <2> QED  BY <1>1, <2>1, <2>4, <2>5 DEF HelpersRest
<1>4. todo \in [AppThreads -> SUBSET cb]  BY PlaceFacts
<1>5. Popping(t)'  BY <1>1, <1>2, <1>4 DEF Popping, Handing
<1> QED  BY <1>1, <1>2, <1>3, <1>5 DEF HelpersRest, Got

(* While a mutex of the queues is free nobody hands out or pops.           *)
LEMMA NobodyDelivers ==
    ASSUME CaptureInv, mutex1 = NoThread \/ mutex2 = NoThread
    PROVE  /\ \A u \in AppThreads : pc[u] \notin Sync!Delivering
           /\ ~PopPending /\ FirstKept = 1
<1>1. \A u \in AppThreads : pc[u] \notin Sync!Delivering
  BY PlaceFacts, ThreadsAssumption
<1> QED  BY <1>1 DEF PopPending, FirstKept, Popping

LEMMA StreamKept ==
    ASSUME NEW g, NEW t, StreamOf(t, g), Own(t)' = Own(t), FirstKept' = FirstKept,
           Oldest(g)' = Oldest(g), data'[t] = data[t], device'[t] = device[t], held'[t] = held[t]
    PROVE  StreamOf(t, g)'
BY DEF StreamOf

(* A thread that only looks. *)
LEMMA LooksRound ==
    ASSUME CaptureInv, RolesInv, NEW g \in 1 .. Frames, Streams(g), NEW t \in AppThreads, Looks(t),
           UNCHANGED appVars
    PROVE  Streams(g)'
<1>1. \A u \in AppThreads : (Handing(u)' <=> Handing(u)) /\ (Popping(u)' <=> Popping(u))
  BY DEF Looks, Handing, Popping
<1>2. FirstKept' = FirstKept  BY <1>1 DEF FirstKept, PopPending
<1>3. UNCHANGED <<data, device, held, mainAt, position, updated, queueT1, queueT2>>
  BY DEF appVars, fileVars, deviceVars, loopVars, Looks
<1>4. Oldest(g)' = Oldest(g) /\ (Got' <=> Got)  BY <1>3 DEF Oldest, Got
<1>5. DeviceThreads \subseteq AppThreads  BY DEF AppThreads
<1>6. ASSUME NEW u \in DeviceThreads PROVE StreamOf(u, g)' /\ Publisher(u, g)'
  <2>1. Own(u)' = Own(u)  BY <1>3 DEF Own
  <2>2. StreamOf(u, g) /\ Publisher(u, g)  BY DEF Streams
  <2>3. StreamOf(u, g)'  BY <1>2, <1>3, <1>4, <2>1, <2>2, StreamKept
  <2>4. CASE u # t
    <3>1. pc'[u] = pc[u] /\ t1'[u] = t1[u] /\ t2'[u] = t2[u]  BY <1>5, <2>4 DEF Looks
    <3> QED  BY <1>3, <1>4, <2>1, <2>2, <2>3, <3>1 DEF Publisher
  <2>5. CASE u = t
    <3>1. /\ pc'[u] = "front2" => queueT1 # <<>> /\ t1'[u] = queueT1[1]
          /\ pc'[u] = "match" => /\ pc[u] = "front2" /\ t1'[u] = t1[u]
                                 /\ queueT2 # <<>> /\ t2'[u] = queueT2[1]
          /\ pc'[u] # "publishData1"
          /\ pc'[u] = "publishData2" => pc[u] = "publishData1"
      BY <2>5 DEF Looks
    <3> QED  BY <1>3, <1>4, <2>1, <2>2, <2>3, <3>1 DEF Publisher
  <2> QED  BY <2>4, <2>5
<1>7. ReadSoFar(g)'  BY <1>3 DEF Streams, ReadSoFar
<1>8. \A u \in AppThreads : HandsOut(u, g)'
  BY <1>1, <1>3, <1>4 DEF Streams, HandsOut
<1> QED  BY <1>6, <1>7, <1>8 DEF Streams

(* A pair is handed out: it is frame g of both streams.                    *)
LEMMA HandsOverRound ==
    ASSUME CaptureInv, RolesInv, NEW g \in 1 .. Frames, Round(g), mainAt # "seeking",
           NEW t \in AppThreads, HandsOver(t), UNCHANGED appVars
    PROVE  Streams(g)'
<1>1. /\ \A u \in AppThreads : pc[u] \notin Sync!Delivering
      /\ ~PopPending /\ FirstKept = 1
  BY NobodyDelivers DEF HandsOver
<1>2. /\ pc \in [AppThreads -> Sync!Places] /\ todo \in [AppThreads -> SUBSET cb]
      /\ DeviceThreads \subseteq AppThreads /\ cb = {0} /\ t # Main
  BY PlaceFacts DEF RolesInv, Round, HandsOver
<1>3. UNCHANGED <<data, device, held, mainAt, position, updated, queueT1, queueT2>>
  BY DEF appVars, fileVars, deviceVars, loopVars, HandsOver
<1>4. Oldest(g)' = Oldest(g) /\ (Got' <=> Got)  BY <1>3 DEF Oldest, Got
<1>5. Streams(g)  BY DEF Round
<1>6. \A u \in AppThreads \ {t} : pc'[u] = pc[u] /\ todo'[u] = todo[u]
  BY <1>2 DEF HandsOver
<1>7. pc'[t] \in Sync!Delivering /\ todo'[t] = {0}
  BY <1>2 DEF HandsOver, Sync!Delivering
<1>8. ~PopPending' /\ FirstKept' = FirstKept
  BY <1>1, <1>6, <1>7 DEF PopPending, Popping, FirstKept
<1>9. ASSUME NEW u \in DeviceThreads PROVE StreamOf(u, g)' /\ Publisher(u, g)'
  <2>1. Own(u)' = Own(u)  BY <1>3 DEF Own
  <2>2. StreamOf(u, g) /\ Publisher(u, g)  BY <1>5 DEF Streams
  <2>3. StreamOf(u, g)'  BY <1>3, <1>4, <1>8, <2>1, <2>2, StreamKept
  <2>4. CASE u # t
    <3>1. pc'[u] = pc[u] /\ UNCHANGED <<t1, t2>>  BY <1>2, <1>6, <2>4 DEF HandsOver
    <3> QED  BY <1>3, <1>4, <2>1, <2>2, <2>3, <3>1 DEF Publisher
  <2>5. CASE u = t  BY <1>7, <2>3, <2>5 DEF Publisher, Sync!Delivering
  <2> QED  BY <2>4, <2>5
<1>10. ReadSoFar(g)'  BY <1>3, <1>5 DEF Streams, ReadSoFar
<1>11. CASE pc[t] = "publishData2"
  <2>1. t \in DeviceThreads
    BY <1>2, <1>11 DEF RolesInv, AppThreads, Sync!Finalizing
  <2>2. Own(t) # <<>>  BY DEF HandsOver, Own
  <2>3. Publisher(t, g)  BY <1>5, <2>1 DEF Streams
  <2>4. HandsOut(t, g)'
    BY <1>3, <1>4, <1>11, <2>1, <2>2, <2>3, ThreadsAssumption DEF Publisher, HandsOut
  <2>5. \A u \in AppThreads \ {t} : HandsOut(u, g)'
    BY <1>1, <1>6 DEF HandsOut, Handing
  <2> QED  BY <1>9, <1>10, <2>4, <2>5 DEF Streams
<1>12. CASE pc[t] = "finalize2"
  <2>1. t \in Helpers /\ t \notin DeviceThreads
    BY <1>2, <1>12 DEF RolesInv, AppThreads, Sync!Publishing
  <2>2. mainAt = "waiting" /\ g = Frames
    <3>1. HelpersRest(g) /\ pc[t] # "idle" /\ ~Popping(t)
      BY <1>12 DEF Round, Popping, Sync!Delivering
    <3> QED  BY <2>1, <3>1 DEF HelpersRest, Round
  <2>3. queueT1 \in Seq(1 .. Frames) /\ queueT2 \in Seq(1 .. Frames)  BY PlaceFacts
  <2>4. 1 \in 1 .. Len(queueT1) /\ 1 \in 1 .. Len(queueT2)
    BY <2>3, EmptySeq, LenProperties DEF HandsOver
  <2>5. queueT1[1] \in 1 .. Frames /\ queueT2[1] \in 1 .. Frames
    BY <2>3, <2>4, ElementOfSeq
  <2>6. Image \in DeviceThreads /\ Depth \in DeviceThreads /\ Image # Depth
    BY ThreadsAssumption DEF DeviceThreads
  <2>7. Own(Image) = queueT1 /\ Own(Depth) = queueT2  BY <2>6 DEF Own
  <2>8. StreamOf(Image, g) /\ StreamOf(Depth, g)  BY <1>5, <2>6 DEF Streams
  <2>9. Oldest(g) = g /\ ~Got  BY <2>2 DEF Oldest, Got
  <2>10. 1 >= FirstKept  BY <1>1
  <2>11. queueT1[1] >= g /\ queueT2[1] >= g
    BY <2>4, <2>7, <2>8, <2>9, <2>10 DEF StreamOf
  <2>12. queueT1[1] = g /\ queueT2[1] = g
    BY <2>2, <2>5, <2>11, ModesAssumption
  <2>13. HandsOut(t, g)'  BY <1>3, <1>4, <2>1, <2>2, <2>9, <2>12 DEF HandsOut
  <2>14. \A u \in AppThreads \ {t} : HandsOut(u, g)'
    BY <1>1, <1>6 DEF HandsOut, Handing
  <2> QED  BY <1>9, <1>10, <2>13, <2>14 DEF Streams
<1> QED  BY <1>11, <1>12 DEF HandsOver

(* The round is on: the main loop has left the seek and is not over.       *)
Running == mainAt \in {"trigger1", "trigger2", "flush", "waiting", "woken", "loop"}

(* Nothing younger than the frame after g has been read.                   *)
LEMMA ReadBound ==
    ASSUME CaptureInv, NEW g \in 1 .. Frames, ReadSoFar(g), Running
    PROVE  \A t \in DeviceThreads : data[t] \in Nat /\ data[t] <= g + 1
<1>1. /\ Frames \in Nat /\ g \in Nat /\ position \in Nat
      /\ data[Image] \in Nat /\ data[Depth] \in Nat
  BY ModesAssumption DEF CaptureInv, TypeInv, TypeOK, DeviceThreads
<1>2. position <= 2 * g + 3  BY <1>1 DEF ReadSoFar, Running
<1>3. 2 * data[Image] - 1 < position /\ 2 * data[Depth] < position  BY DEF ReadSoFar
<1> QED  BY <1>1, <1>2, <1>3 DEF DeviceThreads

LEMMA QueueBound ==
    ASSUME CaptureInv, NEW g \in 1 .. Frames, Streams(g), Running, FirstKept = 1,
           NEW t \in DeviceThreads
    PROVE  /\ Own(t) \in Seq(1 .. Frames)
           /\ \A i \in 1 .. Len(Own(t)) : Own(t)[i] \in Oldest(g) .. (g + 1)
           /\ \A i, j \in 1 .. Len(Own(t)) : i < j => Own(t)[i] < Own(t)[j]
<1>1. Own(t) \in Seq(1 .. Frames)  BY PlaceFacts DEF Own
<1>2. \A i \in 1 .. Len(Own(t)) : Own(t)[i] \in 1 .. Frames  BY <1>1, ElementOfSeq
<1>3. data[t] \in Nat /\ data[t] <= g + 1  BY ReadBound DEF Streams
<1>4. StreamOf(t, g)  BY DEF Streams
<1>5. Len(Own(t)) \in Nat /\ g \in Nat /\ Oldest(g) \in Nat  BY <1>1 DEF Oldest
<1>6. ASSUME NEW i \in 1 .. Len(Own(t)) PROVE Own(t)[i] \in Oldest(g) .. (g + 1)
  <2>1. i >= FirstKept  BY <1>5
  <2>2. Own(t)[i] <= data[t] /\ Own(t)[i] >= Oldest(g)  BY <1>4, <2>1 DEF StreamOf
  <2> QED  BY <1>2, <1>3, <1>5, <2>2
<1>7. \A i, j \in 1 .. Len(Own(t)) : i < j => Own(t)[i] < Own(t)[j]
  BY <1>4 DEF StreamOf
<1> QED  BY <1>1, <1>6, <1>7

(* What is left of a queue when some of its fronts are gone.               *)
LEMMA StreamShortened ==
    ASSUME NEW g, NEW t, StreamOf(t, g), Len(Own(t)) \in Nat, NEW k \in 0 .. Len(Own(t)),
           Len(Own(t)') = Len(Own(t)) - k,
           \A i \in 1 .. (Len(Own(t)) - k) : Own(t)'[i] = Own(t)[i + k],
           \A i \in Nat : i >= FirstKept' => i + k >= FirstKept,
           Oldest(g)' = Oldest(g), data'[t] = data[t], device'[t] = device[t], held'[t] = held[t]
    PROVE  StreamOf(t, g)'
<1> DEFINE n == Len(Own(t))'
<1>1. n = Len(Own(t)) - k /\ n \in Nat  OBVIOUS
<1>2. ASSUME NEW i \in 1 .. n
      PROVE  /\ Own(t)'[i] <= data[t]
             /\ i >= FirstKept' => Own(t)'[i] >= Oldest(g)
             /\ device[t] = "fetched" => Own(t)'[i] < held[t]
             /\ device[t] = "notified" => Own(t)'[i] < data[t]
  <2>1. i + k \in 1 .. Len(Own(t)) /\ Own(t)'[i] = Own(t)[i + k] /\ i \in Nat  BY <1>1
  <2> QED  BY <2>1 DEF StreamOf
<1>3. ASSUME NEW i \in 1 .. n, NEW j \in 1 .. n, i < j
      PROVE  Own(t)'[i] < Own(t)'[j]
  <2>1. /\ i + k \in 1 .. Len(Own(t)) /\ Own(t)'[i] = Own(t)[i + k]
        /\ j + k \in 1 .. Len(Own(t)) /\ Own(t)'[j] = Own(t)[j + k]
        /\ i + k < j + k
    BY <1>1, <1>3
  <2> QED  BY <2>1 DEF StreamOf
<1> HIDE DEF n
<1>4. /\ device'[t] = "fetched" => Oldest(g)' <= held'[t] /\ held'[t] <= data'[t]
      /\ device'[t] = "notified" => Oldest(g)' <= data'[t]
  BY DEF StreamOf
<1> QED  BY <1>2, <1>3, <1>4 DEF StreamOf, n

(* The fronts are popped: what is left is younger than g. *)
LEMMA PopRound ==
    ASSUME CaptureInv, RolesInv, NEW g \in 1 .. Frames, Streams(g), NEW t \in AppThreads,
           Sync!PopFronts(t), UNCHANGED appVars
    PROVE  Streams(g)'
<1>1. /\ pc \in [AppThreads -> Sync!Places] /\ todo \in [AppThreads -> SUBSET cb]
      /\ DeviceThreads \subseteq AppThreads
      /\ \A v, u \in AppThreads :
           pc[v] \in Sync!HoldsPublish /\ pc[u] \in Sync!HoldsPublish => v = u
  BY PlaceFacts
<1>2. /\ pc[t] \in Sync!Delivering /\ pc' = [pc EXCEPT ![t] = "idle"] /\ todo[t] = {}
      /\ queueT1' = Tail(queueT1) /\ queueT2' = Tail(queueT2) /\ todo' = todo
  BY DEF Sync!PopFronts, Sync!Unlock, Sync!Goto, Sync!locals
<1>3. \A u \in AppThreads \ {t} : pc[u] \notin Sync!HoldsPublish
  BY <1>1, <1>2 DEF Sync!HoldsPublish, Sync!Publishing, Sync!Finalizing, Sync!Delivering
<1>4. \A u \in AppThreads : pc'[u] \notin Sync!HoldsPublish
  BY <1>1, <1>2, <1>3 DEF Sync!HoldsPublish, Sync!Publishing, Sync!Finalizing
<1>5. \A u \in AppThreads : pc'[u] \notin Sync!Delivering
  BY <1>4 DEF Sync!HoldsPublish, Sync!Publishing, Sync!Finalizing, Sync!Delivering
<1>6. PopPending /\ ~PopPending'  BY <1>2, <1>5 DEF PopPending, Popping
<1>7. FirstKept = 2 /\ FirstKept' = 1  BY <1>6 DEF FirstKept
<1>8. UNCHANGED <<data, device, held, mainAt, position, updated>>
  BY DEF appVars, fileVars, deviceVars, loopVars
<1>9. Oldest(g)' = Oldest(g) /\ (Got' <=> Got)  BY <1>8 DEF Oldest, Got
<1>10. ASSUME NEW u \in DeviceThreads PROVE StreamOf(u, g)' /\ Publisher(u, g)'
  <2>1. Own(u) \in Seq(1 .. Frames) /\ Own(u) # <<>>  BY <1>2, PlaceFacts DEF Own
  <2>2. Own(u)' = Tail(Own(u))  BY <1>2 DEF Own
  <2>3. /\ Len(Own(u)) \in Nat /\ 1 \in 0 .. Len(Own(u))
        /\ Len(Tail(Own(u))) = Len(Own(u)) - 1
        /\ \A i \in 1 .. (Len(Own(u)) - 1) : Tail(Own(u))[i] = Own(u)[i + 1]
    BY <2>1
  <2>4. \A i \in Nat : i >= FirstKept' => i + 1 >= FirstKept  BY <1>7
  <2>5. StreamOf(u, g)  BY DEF Streams
  <2>6. StreamOf(u, g)'  BY <1>8, <1>9, <2>2, <2>3, <2>4, <2>5, StreamShortened
  <2>7. Publisher(u, g)'
    BY <1>1, <1>4 DEF Publisher, Sync!HoldsPublish, Sync!Publishing
  <2> QED  BY <2>6, <2>7
<1>11. \A u \in AppThreads : HandsOut(u, g)'  BY <1>5 DEF HandsOut, Handing
<1>12. ReadSoFar(g)'  BY <1>8 DEF Streams, ReadSoFar
<1> QED  BY <1>10, <1>11, <1>12 DEF Streams

LEMMA TwoInARow ==
    ASSUME NEW g \in Nat, NEW lo \in {g, g + 1}, NEW a \in lo .. (g + 1), NEW b \in lo .. (g + 1),
           a < b
    PROVE  lo = g /\ a = g /\ b = g + 1
OBVIOUS

(* A queue of g and the next frame only is matched with g, and kept.       *)
LEMMA MatchDecides ==
    ASSUME NEW g \in 1 .. Frames, NEW lo \in {g, g + 1}, NEW s \in 1 .. Frames,
           NEW q \in Seq(1 .. Frames),
           \A i \in 1 .. Len(q) : q[i] \in lo .. (g + 1),
           \A i, j \in 1 .. Len(q) : i < j => q[i] < q[j],
           q # <<>>, q[1] <= s, Len(SyncP!Trimmed(q, s)) > 1
    PROVE  /\ lo = g /\ s = g
           /\ Len(SyncP!Matched(q, s)) >= 2
           /\ SyncP!Matched(q, s)[1] = g /\ SyncP!Matched(q, s)[2] = g + 1
<1> DEFINE kept == SyncP!Trimmed(q, s)
           n == Len(q)
<1>1. Frames \in Nat \ {0} /\ n \in Nat \ {0} /\ s \in Nat /\ g \in Nat
  BY ModesAssumption, LenProperties, EmptySeq
<1>2. SyncP!ConstantsAssumption  BY SyncConstants
<1>3. PICK f \in 1 .. n :
         /\ Len(kept) = n - f + 1
         /\ \A i \in 1 .. n - f + 1 : kept[i] = q[f + i - 1]
         /\ q[1] <= s => q[f] <= s
         /\ f < n => q[f + 1] > s
  BY <1>1, <1>2, SyncP!TrimmedParts
<1>4. f < n /\ kept[1] = q[f] /\ kept[2] = q[f + 1]
  <2>1. 1 \in 1 .. n - f + 1 /\ f + 1 - 1 = f /\ f + 2 - 1 = f + 1  BY <1>1, <1>3
  <2>2. n - f + 1 > 1 /\ 2 \in 1 .. n - f + 1  BY <1>1, <1>3
  <2> QED  BY <1>1, <1>3, <2>1, <2>2, SMTT(30)
<1>5. /\ f \in 1 .. n /\ f + 1 \in 1 .. n /\ f < f + 1 /\ 1 \in 1 .. n
  <2> HIDE DEF kept, n
  <2> QED  BY <1>1, <1>4
<1>6. /\ q[f] \in lo .. (g + 1) /\ q[f + 1] \in lo .. (g + 1) /\ q[f] < q[f + 1]
      /\ q[1] \in lo .. (g + 1)
  BY <1>5
<1>7. lo = g /\ q[f] = g /\ q[f + 1] = g + 1
  <2> HIDE DEF kept, n
  <2>1. g \in Nat /\ lo \in {g, g + 1}  BY <1>1
  <2> QED  BY <1>6, <2>1, TwoInARow, SMTT(30)
<1>8. s = g  BY <1>1, <1>3, <1>4, <1>6, <1>7
<1>9. ~SyncP!SecondIsCloser(kept, s)
  <2>1. /\ 4 * Frames \in Nat \ {0} /\ 2 * g \in 0 .. (4 * Frames - 1)
        /\ 2 * g + 1 \in 0 .. (4 * Frames - 1) /\ g + (g + 1) = 2 * g + 1
    BY <1>1
  <2>2. (2 * g) % (4 * Frames) = 2 * g  BY <1>2, <2>1, SyncP!SmallMod
  <2>3. (2 * g + 1) % (4 * Frames) = 2 * g + 1  BY <1>2, <2>1, SyncP!SmallMod
  <2>4. kept[1] + kept[2] = 2 * g + 1  BY <1>4, <1>7, <2>1
  <2> QED  BY <1>1, <1>8, <2>2, <2>3, <2>4 DEF SyncP!SecondIsCloser
<1>10. SyncP!Matched(q, s) = kept  BY <1>9 DEF SyncP!Matched
<1>11. Len(kept) >= 2  BY <1>1, <1>3, <1>4
<1> QED  BY <1>4, <1>7, <1>8, <1>10, <1>11

(* What matching leaves is the end of the queue. *)
LEMMA MatchLeaves ==
    ASSUME NEW q \in Seq(1 .. Frames), NEW s \in (1 .. Frames) \union {0}
    PROVE  \E k \in 0 .. Len(q) :
              /\ Len(SyncP!Matched(q, s)) = Len(q) - k
              /\ \A i \in 1 .. (Len(q) - k) : SyncP!Matched(q, s)[i] = q[i + k]
<1>1. s \in Nat  BY ModesAssumption
<1>2. SyncP!ConstantsAssumption  BY SyncConstants
<1> QED  BY <1>1, <1>2, SyncP!MatchedSuffix

LEMMA SameMatch ==
    ASSUME NEW q, NEW s
    PROVE  Sync!Trimmed(q, s) = SyncP!Trimmed(q, s) /\ Sync!Matched(q, s) = SyncP!Matched(q, s)
BY DEF Sync!Trimmed, SyncP!Trimmed, Sync!Matched, SyncP!Matched, Sync!LeastOf, SyncP!LeastOf,
       Sync!SecondIsCloser, SyncP!SecondIsCloser

(* A thread that matches drops fronts, and decides for g only. *)
LEMMA MatchRound ==
    ASSUME CaptureInv, RolesInv, NEW g \in 1 .. Frames, Streams(g), Running,
           NEW t \in AppThreads, Sync!Match(t), UNCHANGED appVars
    PROVE  Streams(g)'
<1>1. /\ pc \in [AppThreads -> Sync!Places] /\ todo \in [AppThreads -> SUBSET cb]
      /\ DeviceThreads \subseteq AppThreads
      /\ \A v, u \in AppThreads :
           pc[v] \in Sync!HoldsPublish /\ pc[u] \in Sync!HoldsPublish => v = u
      /\ queueT1 \in Seq(1 .. Frames) /\ queueT2 \in Seq(1 .. Frames)
  BY PlaceFacts
<1>2. /\ pc[t] = "match" /\ (mutex1 = NoThread \/ mutex2 = NoThread)
      /\ pc' = [pc EXCEPT ![t] = "idle"] \/ pc' = [pc EXCEPT ![t] = "publishData1"]
      /\ UNCHANGED <<todo, t1, t2>>
  BY DEF Sync!Match, Sync!Decide, Sync!Goto, Sync!locals
<1>3. t \in DeviceThreads
  BY <1>2 DEF RolesInv, AppThreads, Sync!Finalizing
<1>4. /\ \A u \in AppThreads : pc[u] \notin Sync!Delivering
      /\ FirstKept = 1
  BY <1>2, NobodyDelivers
<1>5. \A u \in AppThreads \ {t} : pc[u] \notin Sync!HoldsPublish /\ pc'[u] = pc[u]
  BY <1>1, <1>2 DEF Sync!HoldsPublish, Sync!Publishing
<1>6. \A u \in AppThreads : pc'[u] \notin Sync!Delivering
  BY <1>1, <1>2, <1>4 DEF Sync!Delivering
<1>7. FirstKept' = 1  BY <1>6 DEF FirstKept, PopPending, Popping
<1>8. UNCHANGED <<data, device, held, mainAt, position, updated>>
  BY DEF appVars, fileVars, deviceVars, loopVars
<1>9. Oldest(g)' = Oldest(g) /\ (Got' <=> Got)  BY <1>8 DEF Oldest, Got
<1>10. /\ t1[t] \in (1 .. Frames) \union {0} /\ t2[t] \in (1 .. Frames) \union {0}
  BY DEF CaptureInv, SyncP!BaseInv, SyncP!TypeOK
<1>11. \/ /\ t1[t] <= t2[t] /\ queueT2' = queueT2
          /\ queueT1' = SyncP!Matched(queueT1, t2[t])
          /\ pc'[t] = "publishData1" => Len(SyncP!Trimmed(queueT1, t2[t])) > 1
       \/ /\ t1[t] > t2[t] /\ queueT1' = queueT1
          /\ queueT2' = SyncP!Matched(queueT2, t1[t])
          /\ pc'[t] = "publishData1" => Len(SyncP!Trimmed(queueT2, t1[t])) > 1
  BY <1>1, SameMatch DEF Sync!Match, Sync!Decide, Sync!Goto
<1>12. ASSUME NEW u \in DeviceThreads
       PROVE  /\ StreamOf(u, g)'
              /\ Own(u)' # <<>> => Own(u) # <<>>
  <2>1. /\ Own(u) \in Seq(1 .. Frames)
        /\ \/ Own(u)' = Own(u)
           \/ \E s \in (1 .. Frames) \union {0} : Own(u)' = SyncP!Matched(Own(u), s)
    BY <1>1, <1>10, <1>11 DEF Own
  <2>2. Len(Own(u)) \in Nat  BY <2>1, LenProperties
  <2>3. PICK k \in 0 .. Len(Own(u)) :
           /\ Len(Own(u)') = Len(Own(u)) - k
           /\ \A i \in 1 .. (Len(Own(u)) - k) : Own(u)'[i] = Own(u)[i + k]
    <3>1. CASE Own(u)' = Own(u)
      <4>1. /\ 0 \in 0 .. Len(Own(u)) /\ Len(Own(u)) = Len(Own(u)) - 0
            /\ \A i \in 1 .. (Len(Own(u)) - 0) : i + 0 = i
        BY <2>2
      <4> QED  BY <3>1, <4>1
    <3>2. CASE \E s \in (1 .. Frames) \union {0} : Own(u)' = SyncP!Matched(Own(u), s)
      BY <2>1, <3>2, MatchLeaves
    <3> QED  BY <2>1, <3>1, <3>2
  <2>4. \A i \in Nat : i >= FirstKept' => i + k >= FirstKept  BY <1>4, <1>7, <2>2, <2>3
  <2>5. StreamOf(u, g)  BY DEF Streams
  <2>6. StreamOf(u, g)'  BY <1>8, <1>9, <2>2, <2>3, <2>4, <2>5, StreamShortened
  <2>7. Own(u)' # <<>> => Own(u) # <<>>
    <3> SUFFICES ASSUME Own(u) = <<>> PROVE Own(u)' = <<>>
      OBVIOUS
    <3>1. Len(Own(u)') = 0  BY <2>2, <2>3
    <3>2. Own(u)' \in Seq(1 .. Frames)
      <4>1. SyncP!TypeOK /\ SyncP!ConstantsAssumption
        BY SyncConstants DEF CaptureInv, SyncP!BaseInv
      <4>2. /\ SyncP!Matched(queueT1, t2[t]) \in Seq(1 .. Frames)
            /\ SyncP!Matched(queueT2, t1[t]) \in Seq(1 .. Frames)
        BY <4>1, SyncP!MatchedQueues
      <4> QED  BY <1>1, <1>11, <4>2 DEF Own
    <3> QED  BY <3>1, <3>2, EmptySeq
  <2> QED  BY <2>6, <2>7
<1>13. Publisher(t, g)'
  <2> SUFFICES ASSUME Own(t)' # <<>>, pc'[t] = "publishData1"
               PROVE  /\ ~Got
                      /\ Len(queueT1') >= 2 /\ queueT1'[1] = g /\ queueT1'[2] = g + 1
                      /\ queueT2' # <<>> /\ queueT2'[1] = g
    BY <1>1, <1>2, <1>9 DEF Publisher
  <2>1. Own(t) # <<>>  BY <1>3, <1>12
  <2>2. queueT1 # <<>> /\ t1[t] = queueT1[1] /\ queueT2 # <<>> /\ t2[t] = queueT2[1]
    BY <1>2, <1>3, <2>1 DEF Streams, Publisher
  <2>3. /\ Image \in DeviceThreads /\ Depth \in DeviceThreads
        /\ Own(Image) = queueT1 /\ Own(Depth) = queueT2
    BY ThreadsAssumption DEF DeviceThreads, Own
  <2>4. /\ \A i \in 1 .. Len(queueT1) : queueT1[i] \in Oldest(g) .. (g + 1)
        /\ \A i, j \in 1 .. Len(queueT1) : i < j => queueT1[i] < queueT1[j]
    BY <1>4, <2>3, QueueBound
  <2>5. /\ \A i \in 1 .. Len(queueT2) : queueT2[i] \in Oldest(g) .. (g + 1)
        /\ \A i, j \in 1 .. Len(queueT2) : i < j => queueT2[i] < queueT2[j]
    BY <1>4, <2>3, QueueBound
  <2>6. 1 \in 1 .. Len(queueT1) /\ 1 \in 1 .. Len(queueT2)
    BY <1>1, <2>2, LenProperties, EmptySeq
  <2>7. queueT1[1] \in 1 .. Frames /\ queueT2[1] \in 1 .. Frames
    BY <1>1, <2>6, ElementOfSeq
  <2>8. Oldest(g) \in {g, g + 1}  BY DEF Oldest
  <2>9. CASE t1[t] <= t2[t]
    <3>1. /\ queueT1' = SyncP!Matched(queueT1, queueT2[1]) /\ queueT2' = queueT2
          /\ Len(SyncP!Trimmed(queueT1, queueT2[1])) > 1 /\ queueT1[1] <= queueT2[1]
      BY <1>10, <1>11, <2>2, <2>7, <2>9
    <3>2. /\ Oldest(g) = g /\ queueT2[1] = g
          /\ Len(queueT1') >= 2 /\ queueT1'[1] = g /\ queueT1'[2] = g + 1
      <4> DEFINE q == queueT1
                 s == queueT2[1]
                 lo == Oldest(g)
      <4>1. /\ lo \in {g, g + 1} /\ s \in 1 .. Frames /\ q \in Seq(1 .. Frames)
            /\ \A i \in 1 .. Len(q) : q[i] \in lo .. (g + 1)
            /\ \A i, j \in 1 .. Len(q) : i < j => q[i] < q[j]
            /\ q # <<>> /\ q[1] <= s /\ Len(SyncP!Trimmed(q, s)) > 1
            /\ queueT1' = SyncP!Matched(q, s)
        BY <1>1, <2>2, <2>4, <2>7, <2>8, <3>1
      <4>2. s = queueT2[1] /\ lo = Oldest(g)  OBVIOUS
      <4> HIDE DEF q, s, lo
      <4>3. /\ lo = g /\ s = g
            /\ Len(SyncP!Matched(q, s)) >= 2
            /\ SyncP!Matched(q, s)[1] = g /\ SyncP!Matched(q, s)[2] = g + 1
        BY <4>1, MatchDecides
      <4> QED  BY <4>1, <4>2, <4>3
    <3>3. ~Got  BY <3>2 DEF Oldest
    <3> QED  BY <2>2, <3>1, <3>2, <3>3
  <2>10. CASE t1[t] > t2[t]
    <3>1. /\ queueT2[1] < queueT1[1] /\ queueT2[1] <= queueT1[1]
          /\ Len(SyncP!Trimmed(queueT2, queueT1[1])) > 1
      BY <1>10, <1>11, <2>2, <2>7, <2>10
    <3>2. Oldest(g) = g /\ queueT1[1] = g
      BY <1>1, <2>2, <2>5, <2>7, <2>8, <3>1, MatchDecides
    <3>3. queueT2[1] >= g  BY <2>5, <2>6, <3>2
    <3> QED  BY <2>7, <3>1, <3>2, <3>3
  <2> QED  BY <1>11, <2>9, <2>10
<1>14. \A u \in DeviceThreads : Publisher(u, g)'
  <2> SUFFICES ASSUME NEW u \in DeviceThreads, u # t PROVE Publisher(u, g)'
    BY <1>13
  <2>1. pc'[u] \notin Sync!HoldsPublish  BY <1>1, <1>5
  <2> QED  BY <2>1 DEF Publisher, Sync!HoldsPublish, Sync!Publishing
<1>15. \A u \in AppThreads : HandsOut(u, g)'  BY <1>6 DEF HandsOut, Handing
<1>16. ReadSoFar(g)'  BY <1>8 DEF Streams, ReadSoFar
<1> QED  BY <1>12, <1>14, <1>15, <1>16 DEF Streams

LEMMA SyncRound ==
    ASSUME CaptureInv, RolesInv, NEW g \in 1 .. Frames, Round(g), mainAt # "done",
           NEW t \in AppThreads, InSync(t)
    PROVE  Round(g)'
<1>1. /\ UNCHANGED appVars
      /\ Looks(t) \/ Sync!Match(t) \/ HandsOver(t) \/ Sync!PopFronts(t) \/ Sync!Reset2(t)
  BY SyncKinds
<1>2. HelpersRest(g)'  BY HelpersInSync
<1>3. UNCHANGED <<mainAt, target, stored, frameId>> /\ (Got' <=> Got)
  BY <1>1 DEF appVars, loopVars, frameVars, Got
<1>4. mainAt # "seeking" => Streams(g)'
  <2> SUFFICES ASSUME mainAt # "seeking" PROVE Streams(g)'
    OBVIOUS
  <2>1. Streams(g)  BY DEF Round
  <2>2. Running  BY DEF Round, Running, CaptureInv, TypeInv, TypeOK
  <2>3. ~Sync!Reset2(t)
    <3>1. pc \in [AppThreads -> Sync!Places]  BY PlaceFacts
    <3> QED
      BY <3>1 DEF Sync!Reset2, Sync!Goto, RolesInv, AppThreads, Sync!Publishing, Sync!Finalizing
  <2> QED
    BY <1>1, <2>1, <2>2, <2>3, LooksRound, MatchRound, HandsOverRound, PopRound
<1> QED  BY <1>2, <1>3, <1>4 DEF Round

(* A frame is added behind what is queued. *)
LEMMA AddRound ==
    ASSUME CaptureInv, RolesInv, NEW g \in 1 .. Frames, Streams(g), Running,
           NEW t \in DeviceThreads, DataCallback(t)
    PROVE  Streams(g)'
<1>1. /\ pc \in [AppThreads -> Sync!Places] /\ todo \in [AppThreads -> SUBSET cb]
      /\ DeviceThreads \subseteq AppThreads
      /\ queueT1 \in Seq(1 .. Frames) /\ queueT2 \in Seq(1 .. Frames)
  BY PlaceFacts
<1>2. /\ device \in [DeviceThreads -> {"busy", "waiting", "notified", "fetched"}]
      /\ held \in [DeviceThreads -> 0 .. Frames] /\ data \in [DeviceThreads -> 0 .. Frames]
      /\ Image # Depth /\ Image \in DeviceThreads /\ Depth \in DeviceThreads /\ Frames \in Nat
  BY ThreadsAssumption, ModesAssumption DEF CaptureInv, TypeInv, TypeOK, DeviceThreads
<1>3. /\ device[t] = "fetched" /\ device' = [device EXCEPT ![t] = "busy"]
      /\ UNCHANGED <<data, held, mainAt, position, updated>>
      /\ \/ t = Image /\ Sync!Add0(t, held[t])
         \/ t = Depth /\ Sync!Add1(t, held[t])
  BY DEF DataCallback, DeviceGoto, Running, fileVars, loopVars
<1>4. /\ mutex1 = NoThread \/ mutex2 = NoThread
      /\ pc[t] = "idle" /\ pc' = [pc EXCEPT ![t] = "publish"]
      /\ UNCHANGED <<todo, t1, t2>>
      /\ t = Image => queueT1' = Append(queueT1, held[t]) /\ queueT2' = queueT2
      /\ t = Depth => queueT2' = Append(queueT2, held[t]) /\ queueT1' = queueT1
  BY <1>2, <1>3 DEF Sync!Add0, Sync!Add1, Sync!Goto, Sync!locals
<1>5. /\ \A u \in AppThreads : pc[u] \notin Sync!Delivering
      /\ FirstKept = 1
  BY <1>4, NobodyDelivers
<1>6. \A u \in AppThreads : pc'[u] \notin Sync!Delivering
  BY <1>1, <1>4, <1>5 DEF Sync!Delivering
<1>7. FirstKept' = 1  BY <1>6 DEF FirstKept, PopPending, Popping
<1>8. Oldest(g)' = Oldest(g) /\ (Got' <=> Got)  BY <1>3 DEF Oldest, Got
<1>9. StreamOf(t, g)'
  <2> DEFINE n == Len(Own(t))
  <2>1. Own(t) \in Seq(1 .. Frames) /\ n \in Nat  BY <1>1 DEF Own
  <2>2. Own(t)' = Append(Own(t), held[t])  BY <1>2, <1>3, <1>4 DEF Own
  <2>3. /\ Len(Own(t)') = n + 1 /\ Own(t)'[n + 1] = held[t]
        /\ \A i \in 1 .. n : Own(t)'[i] = Own(t)[i]
    BY <2>1, <2>2
  <2>4. StreamOf(t, g) /\ device'[t] = "busy"  BY <1>2, <1>3 DEF Streams
  <2>5. held[t] \in Nat /\ data[t] \in Nat /\ Oldest(g) <= held[t] /\ held[t] <= data[t]
    BY <1>2, <1>3, <2>4 DEF StreamOf
  <2>6. \A i \in 1 .. n : /\ Own(t)[i] <= data[t] /\ (i >= FirstKept => Own(t)[i] >= Oldest(g))
                          /\ \A j \in 1 .. n : i < j => Own(t)[i] < Own(t)[j]
                          /\ Own(t)[i] < held[t]
    BY <1>3, <2>4 DEF StreamOf
  <2>7. \A i \in 1 .. (n + 1) : i = n + 1 \/ i \in 1 .. n  BY <2>1
  <2>8. Own(t)'[n + 1] >= Oldest(g)  BY <2>3, <2>5 DEF Oldest
  <2> HIDE DEF n
  <2>9. \A i \in 1 .. (n + 1) :
          /\ Own(t)'[i] <= data[t] /\ (i >= FirstKept' => Own(t)'[i] >= Oldest(g))
          /\ \A j \in 1 .. (n + 1) : i < j => Own(t)'[i] < Own(t)'[j]
    <3> SUFFICES ASSUME NEW i \in 1 .. (n + 1)
                 PROVE  /\ Own(t)'[i] <= data[t] /\ (i >= FirstKept' => Own(t)'[i] >= Oldest(g))
                        /\ \A j \in 1 .. (n + 1) : i < j => Own(t)'[i] < Own(t)'[j]
      OBVIOUS
    <3>1. CASE i = n + 1  BY <2>1, <2>3, <2>5, <2>8, <3>1
    <3>2. CASE i \in 1 .. n
      <4>1. \A j \in 1 .. (n + 1) : i < j => Own(t)'[i] < Own(t)'[j]
        BY <2>3, <2>6, <2>7, <3>2
      <4> QED  BY <1>5, <1>7, <2>3, <2>6, <3>2, <4>1
    <3> QED  BY <2>7, <3>1, <3>2
  <2> QED  BY <1>3, <1>8, <2>3, <2>4, <2>9 DEF StreamOf
<1>10. ASSUME NEW u \in DeviceThreads, u # t PROVE StreamOf(u, g)' /\ Publisher(u, g)'
  <2>1. Own(u)' = Own(u)  BY <1>2, <1>4, <1>10 DEF Own, DeviceThreads
  <2>2. StreamOf(u, g) /\ Publisher(u, g)  BY DEF Streams
  <2>3. device'[u] = device[u] /\ held'[u] = held[u] /\ data'[u] = data[u] /\ pc'[u] = pc[u]
    BY <1>1, <1>2, <1>3, <1>4, <1>10
  <2>4. StreamOf(u, g)'  BY <1>5, <1>7, <1>8, <2>1, <2>2, <2>3, StreamKept
  <2>5. /\ Len(queueT1) \in Nat /\ Len(queueT2) \in Nat
        /\ queueT1 # <<>> => queueT1' # <<>> /\ queueT1'[1] = queueT1[1]
        /\ Len(queueT1) >= 2 => Len(queueT1') >= 2 /\ queueT1'[1] = queueT1[1] /\ queueT1'[2] = queueT1[2]
        /\ queueT2 # <<>> => queueT2' # <<>> /\ queueT2'[1] = queueT2[1]
    <3>1. t = Image \/ t = Depth  BY DEF DeviceThreads
    <3>2. held[t] \in 0 .. Frames  BY <1>2
    <3>3. \A q \in Seq(1 .. Frames) :
            /\ Len(q) \in Nat
            /\ q # <<>> => Append(q, held[t]) # <<>> /\ Append(q, held[t])[1] = q[1]
            /\ Len(q) >= 2 => /\ Len(Append(q, held[t])) >= 2
                              /\ Append(q, held[t])[1] = q[1] /\ Append(q, held[t])[2] = q[2]
      BY <3>2
    <3>4. /\ queueT1' = queueT1 \/ queueT1' = Append(queueT1, held[t])
          /\ queueT2' = queueT2 \/ queueT2' = Append(queueT2, held[t])
      BY <1>4, <3>1
    <3> DEFINE Kept(q, r) == /\ Len(q) \in Nat
                             /\ q # <<>> => r # <<>> /\ r[1] = q[1]
                             /\ Len(q) >= 2 => Len(r) >= 2 /\ r[1] = q[1] /\ r[2] = q[2]
    <3>5. \A q \in Seq(1 .. Frames) : Kept(q, q) /\ Kept(q, Append(q, held[t]))
      BY <3>3
    <3> HIDE DEF Kept
    <3>6. Kept(queueT1, queueT1') /\ Kept(queueT2, queueT2')
      BY <1>1, <3>4, <3>5
    <3> QED  BY <3>6 DEF Kept
  <2>6. Publisher(u, g)'
    BY <1>4, <1>8, <2>1, <2>2, <2>3, <2>5 DEF Publisher
  <2> QED  BY <2>4, <2>6
<1>11. Publisher(t, g)'
  <2>1. pc'[t] = "publish"  BY <1>1, <1>4
  <2> QED  BY <2>1 DEF Publisher
<1>12. \A u \in AppThreads : HandsOut(u, g)'  BY <1>6 DEF HandsOut, Handing
<1>13. ReadSoFar(g)'  BY <1>3 DEF Streams, ReadSoFar
<1> QED  BY <1>9, <1>10, <1>11, <1>12, <1>13 DEF Streams

(* A thread that waits for new data, or fetches them. *)
LEMMA FetchRound ==
    ASSUME CaptureInv, NEW g \in 1 .. Frames, Streams(g), NEW t \in DeviceThreads,
           WaitForData(t) \/ Fetch(t)
    PROVE  Streams(g)'
<1>1. UNCHANGED <<syncVars, data, mainAt, position, updated>>
  BY DEF WaitForData, Fetch, fileVars, loopVars
<1>2. UNCHANGED <<queueT1, queueT2, pc, t1, t2, todo>>  BY <1>1 DEF syncVars
<1>3. /\ FirstKept' = FirstKept /\ Oldest(g)' = Oldest(g) /\ (Got' <=> Got)
      /\ \A u : Own(u)' = Own(u)
  BY <1>1, <1>2 DEF FirstKept, PopPending, Popping, Oldest, Got, Own
<1>4. /\ device \in [DeviceThreads -> {"busy", "waiting", "notified", "fetched"}]
      /\ held \in [DeviceThreads -> 0 .. Frames] /\ data \in [DeviceThreads -> 0 .. Frames]
      /\ Frames \in Nat
  BY ModesAssumption DEF CaptureInv, TypeInv, TypeOK
<1>5. ASSUME NEW u \in DeviceThreads PROVE StreamOf(u, g)'
  <2>1. StreamOf(u, g)  BY DEF Streams
  <2>2. CASE u # t
    <3>1. device'[u] = device[u] /\ held'[u] = held[u] /\ data'[u] = data[u]
      BY <1>1, <1>4, <2>2 DEF WaitForData, Fetch, DeviceGoto
    <3> QED  BY <1>3, <2>1, <3>1, StreamKept
  <2>3. CASE u = t /\ WaitForData(t)
    <3>1. device'[u] = "waiting" /\ held'[u] = held[u] /\ data'[u] = data[u]
      BY <1>1, <1>4, <2>3 DEF WaitForData, DeviceGoto
    <3> QED  BY <1>3, <2>1, <3>1 DEF StreamOf
  <2>4. CASE u = t /\ Fetch(t)
    <3>1. /\ device[u] = "notified" /\ device'[u] = "fetched"
          /\ held'[u] = data[u] /\ data'[u] = data[u] /\ data[u] <= data[u]
      BY <1>1, <1>4, <2>4 DEF Fetch, DeviceGoto
    <3> QED  BY <1>3, <2>1, <3>1 DEF StreamOf
  <2> QED  BY <2>2, <2>3, <2>4
<1>6. \A u \in DeviceThreads : Publisher(u, g)'
  BY <1>2, <1>3 DEF Streams, Publisher
<1>7. \A u \in AppThreads : HandsOut(u, g)'
  BY <1>1, <1>2, <1>3 DEF Streams, HandsOut, Handing
<1>8. ReadSoFar(g)'  BY <1>1 DEF Streams, ReadSoFar
<1> QED  BY <1>5, <1>6, <1>7, <1>8 DEF Streams

LEMMA DataRound ==
    ASSUME CaptureInv, RolesInv, NEW g \in 1 .. Frames, Round(g), mainAt # "done",
           NEW t \in DeviceThreads, DataThread(t)
    PROVE  Round(g)'
<1>1. /\ UNCHANGED <<todo, mainAt, target, stored, frameId>>
      /\ pc' = pc \/ (pc[t] = "idle" /\ pc' = [pc EXCEPT ![t] = "publish"])
  BY DEF DataThread, WaitForData, Fetch, DataCallback, Sync!Add0, Sync!Add1, Sync!Goto,
         Sync!locals, syncVars, loopVars, frameVars
<1>2. /\ pc \in [AppThreads -> Sync!Places] /\ DeviceThreads \subseteq AppThreads
      /\ Main \in AppThreads /\ t # Main /\ \A h \in Helpers : h \in AppThreads /\ h # t
  BY PlaceFacts, ThreadsAssumption
<1>3. /\ \A h \in Helpers : pc'[h] = pc[h]
      /\ pc'[Main] = pc[Main]
  BY <1>1, <1>2
<1>4. HelpersRest(g)'
  <2>1. \A h \in Helpers : Popping(h) => Popping(h)'  BY <1>1, <1>3 DEF Popping
  <2> QED  BY <1>1, <1>3, <2>1 DEF Round, HelpersRest, Got
<1>5. mainAt # "seeking" => Streams(g)'
  <2> SUFFICES ASSUME mainAt # "seeking" PROVE Streams(g)'
    OBVIOUS
  <2>1. Streams(g)  BY DEF Round
  <2>2. Running  BY DEF Round, Running, CaptureInv, TypeInv, TypeOK
  <2> QED  BY <2>1, <2>2, AddRound, FetchRound DEF DataThread
<1> QED  BY <1>1, <1>4, <1>5 DEF Round, Got

(* The frame is stored for the main loop.                                  *)
LEMMA StoreRound ==
    ASSUME CaptureInv, NEW g \in 1 .. Frames, Round(g), mainAt # "done",
           NEW t \in AppThreads, StoreFrame(t)
    PROVE  Round(g)'
<1>1. /\ Handing(t) /\ mainAt \in {"waiting", "woken"} /\ frameId' = Head(queueT2)
      /\ UNCHANGED <<syncVars, position, data, device, held, mainAt, target, updated>>
  BY DEF StoreFrame, Handing, DataMutexFree, fileVars, deviceVars, loopVars
<1>2. Streams(g) /\ HandsOut(t, g)  BY <1>1 DEF Round, Streams
<1>3. mainAt = "waiting" /\ queueT2[1] = g  BY <1>1, <1>2 DEF HandsOut, Got
<1>4. Head(queueT2) = queueT2[1]
  <2>1. SyncP!BaseInv  BY DEF CaptureInv
  <2> QED  BY <1>1, <2>1, FrontIsFrame DEF Handing
<1>5. frameId' = g  BY <1>1, <1>3, <1>4
<1>6. UNCHANGED <<queueT1, queueT2, pc, t1, t2, todo>>  BY <1>1 DEF syncVars
<1>7. /\ FirstKept' = FirstKept /\ Oldest(g)' = Oldest(g) /\ (Got' <=> Got)
      /\ \A u : Own(u)' = Own(u)
  BY <1>1, <1>6 DEF FirstKept, PopPending, Popping, Oldest, Got, Own
<1>8. \A u \in DeviceThreads : StreamOf(u, g)' /\ Publisher(u, g)'
  <2> SUFFICES ASSUME NEW u \in DeviceThreads PROVE StreamOf(u, g)' /\ Publisher(u, g)'
    OBVIOUS
  <2>1. StreamOf(u, g) /\ Publisher(u, g)  BY <1>2 DEF Streams
  <2>2. StreamOf(u, g)'  BY <1>1, <1>7, <2>1, StreamKept
  <2>3. Publisher(u, g)'  BY <1>6, <1>7, <2>1 DEF Publisher
  <2> QED  BY <2>2, <2>3
<1>9. \A u \in AppThreads : HandsOut(u, g)'
  BY <1>1, <1>2, <1>6, <1>7 DEF Streams, HandsOut, Handing
<1>10. ReadSoFar(g)'  BY <1>1, <1>2 DEF Streams, ReadSoFar
<1>11. HelpersRest(g)'
  BY <1>1, <1>6, <1>7 DEF Round, HelpersRest, Popping
<1> QED  BY <1>1, <1>3, <1>5, <1>7, <1>8, <1>9, <1>10, <1>11 DEF Round, Streams, Got

(* The main loop is woken with g, which is still to be popped.             *)
LEMMA NoticeRound ==
    ASSUME CaptureInv, RolesInv, NEW g \in 1 .. Frames, Round(g), NEW t \in AppThreads,
           NotifyMain(t)
    PROVE  Round(g)'
<1>1. HelpersRest(g)' /\ mainAt = "waiting" /\ mainAt' = "woken" /\ Handing(t)
  BY HelpersAtNotice
<1>2. /\ todo' = [todo EXCEPT ![t] = {}] /\ pc' = pc /\ UNCHANGED <<queueT1, queueT2, t1, t2>>
  BY OneCallback DEF NotifyMain
<1>3. UNCHANGED <<position, data, device, held, target, updated, frameId>> /\ stored' = stored \ {t}
  BY DEF NotifyMain, fileVars, deviceVars
<1>4. /\ pc \in [AppThreads -> Sync!Places] /\ todo \in [AppThreads -> SUBSET cb]
      /\ DeviceThreads \subseteq AppThreads
      /\ \A v, u \in AppThreads :
           pc[v] \in Sync!HoldsPublish /\ pc[u] \in Sync!HoldsPublish => v = u
      /\ queueT1 \in Seq(1 .. Frames) /\ queueT2 \in Seq(1 .. Frames)
      /\ queueT1 # <<>> /\ queueT2 # <<>>
  BY <1>1, PlaceFacts DEF Handing
<1>5. \A u \in AppThreads \ {t} : pc[u] \notin Sync!HoldsPublish /\ pc[u] \notin Sync!Delivering
  BY <1>1, <1>4 DEF Handing, Sync!HoldsPublish, Sync!Publishing, Sync!Finalizing, Sync!Delivering
<1>6. Streams(g) /\ HandsOut(t, g) /\ frameId = g
  BY <1>1 DEF Round, Streams, NotifyMain
<1>7. queueT1[1] = g /\ queueT2[1] = g  BY <1>1, <1>6 DEF HandsOut
<1>8. stored' = {}
  <2>1. \A u \in stored : u \in AppThreads /\ pc[u] \in Sync!Delivering
    BY DEF RolesInv, Handing, CaptureInv, TypeInv, TypeOK
  <2> QED  BY <1>3, <1>5, <2>1
<1>9. Popping(t)' /\ todo'[t] = {}  BY <1>1, <1>2, <1>4 DEF Popping, Handing
<1>10. FirstKept' = 2  BY <1>9 DEF FirstKept, PopPending
<1>11. /\ Oldest(g) = g /\ Oldest(g)' = g + 1 /\ Got'
  BY <1>1 DEF Oldest, Got
<1>12. ASSUME NEW u \in DeviceThreads PROVE StreamOf(u, g)'
  <2>1. /\ Own(u) \in Seq(1 .. Frames) /\ Own(u) # <<>> /\ Own(u)[1] = g /\ Own(u)' = Own(u)
    BY <1>2, <1>4, <1>7 DEF Own
  <2>2. /\ Len(Own(u)) \in Nat /\ 1 \in 1 .. Len(Own(u)) /\ g \in Nat
        /\ \A i \in 1 .. Len(Own(u)) : Own(u)[i] \in Nat
    <3>1. \A i \in 1 .. Len(Own(u)) : Own(u)[i] \in 1 .. Frames  BY <2>1, ElementOfSeq
    <3> QED  BY <2>1, <3>1, LenProperties, EmptySeq
  <2>3. StreamOf(u, g)  BY <1>6 DEF Streams
  <2>4. /\ data[u] \in Nat /\ held[u] \in Nat
    BY ModesAssumption DEF CaptureInv, TypeInv, TypeOK
  <2>5. \A i \in 1 .. Len(Own(u)) : i >= 2 => Own(u)[i] >= g + 1
    <3> SUFFICES ASSUME NEW i \in 1 .. Len(Own(u)), i >= 2 PROVE Own(u)[i] >= g + 1
      OBVIOUS
    <3>1. 1 < i  BY <2>2
    <3>2. Own(u)[1] < Own(u)[i]  BY <2>2, <2>3, <3>1 DEF StreamOf
    <3> QED  BY <2>1, <2>2, <3>2
  <2>6. device[u] = "fetched" => g + 1 <= held[u] /\ held[u] <= data[u]
    BY <2>1, <2>2, <2>3, <2>4 DEF StreamOf
  <2>7. device[u] = "notified" => g + 1 <= data[u]
    BY <2>1, <2>2, <2>3, <2>4 DEF StreamOf
  <2> QED  BY <1>3, <1>10, <1>11, <2>1, <2>3, <2>5, <2>6, <2>7 DEF StreamOf
<1>13. \A u \in DeviceThreads : Publisher(u, g)'
  <2> SUFFICES ASSUME NEW u \in DeviceThreads PROVE Publisher(u, g)'
    OBVIOUS
  <2>1. pc'[u] \notin {"front2", "match", "publishData1", "publishData2"}
    BY <1>1, <1>2, <1>4, <1>5 DEF Handing, Sync!Delivering, Sync!HoldsPublish, Sync!Publishing
  <2> QED  BY <2>1 DEF Publisher
<1>14. \A u \in AppThreads : HandsOut(u, g)'
  BY <1>2, <1>5, <1>9 DEF HandsOut, Handing
<1>15. ReadSoFar(g)'  BY <1>1, <1>3, <1>6 DEF Streams, ReadSoFar
<1>16. frameId' = g  BY <1>3, <1>6
<1> QED  BY <1>1, <1>8, <1>12, <1>13, <1>14, <1>15, <1>16 DEF Round, Streams

LEMMA CallbackRound ==
    ASSUME CaptureInv, RolesInv, NEW g \in 1 .. Frames, Round(g), mainAt # "done",
           NEW t \in AppThreads, SourceCallback(t)
    PROVE  Round(g)'
<1>1. ~IgnoreFrame(t)  BY DEF IgnoreFrame, RolesInv
<1> QED  BY <1>1, StoreRound, NoticeRound DEF SourceCallback

(* The player goes to g, with nothing left in rgb_sync_ from before.       *)
LEMMA SeekRound ==
    ASSUME CaptureInv, RolesInv, NEW g \in 1 .. Frames, Round(g), SeekDepthFrame, ~crossed'
    PROVE  Round(g)'
<1>1. /\ mainAt = "seeking" /\ mainAt' = "trigger1" /\ pc[Main] = "idle" /\ target = g
      /\ UNCHANGED <<syncVars, held, frameId, stored, target>>
      /\ position' = 2 * g + 1 /\ data' = [t \in DeviceThreads |-> g] /\ Notified(DeviceThreads)
  BY DEF SeekDepthFrame, LoopGoto, Round, frameVars
<1>2. /\ queueT1 = <<>> /\ queueT2 = <<>>
      /\ \A t \in DeviceThreads : device[t] # "fetched"
  BY DEF SeekDepthFrame
<1>3. UNCHANGED <<queueT1, queueT2, pc, t1, t2, todo>>  BY <1>1 DEF syncVars
<1>4. g \in Nat  OBVIOUS
<1>5. \A h \in Helpers : pc[h] = "idle"  BY <1>1 DEF Round, HelpersRest, Got
<1>6. HelpersRest(g)'  BY <1>3, <1>5 DEF HelpersRest
<1>7. \A u \in AppThreads : ~Handing(u)'
  BY <1>2, <1>3, PlaceFacts DEF Handing
<1>8. ReadSoFar(g)'
  <2>1. /\ data'[Image] = g /\ data'[Depth] = g  BY <1>1 DEF DeviceThreads
  <2> QED  BY <1>1, <1>4, <2>1 DEF ReadSoFar
<1>9. ASSUME NEW u \in DeviceThreads PROVE StreamOf(u, g)' /\ Publisher(u, g)'
  <2>1. Own(u)' = <<>>  BY <1>2, <1>3 DEF Own
  <2>2. /\ device'[u] # "fetched" /\ data'[u] = g
    BY <1>1, <1>2 DEF Notified
  <2>3. Oldest(g)' = g  BY <1>1 DEF Oldest, Got
  <2>4. \A i \in 1 .. Len(Own(u))' : FALSE  BY <2>1
  <2>5. StreamOf(u, g)'  BY <1>4, <2>2, <2>3, <2>4 DEF StreamOf
  <2> QED  BY <2>1, <2>5 DEF Publisher
<1>10. stored' = {}  BY <1>1 DEF Round
<1> QED  BY <1>1, <1>6, <1>7, <1>8, <1>9, <1>10 DEF Round, Streams, HandsOut, Got

(* One record more of the file is read, if there is one.                   *)
LEMMA TriggerRound ==
    ASSUME CaptureInv, RolesInv, NEW g \in 1 .. Frames, Round(g),
           NEW from \in {"trigger1", "trigger2"}, NEW to \in {"trigger2", "flush"},
           from = "trigger1" <=> to = "trigger2", Trigger(from, to)
    PROVE  Round(g)'
<1> DEFINE p == position
           r == RecordOf(p)
           f == (p + 1) \div 2
<1>1. /\ mainAt = from /\ mainAt' = to
      /\ UNCHANGED <<syncVars, held, frameId, stored, target>>
  BY DEF Trigger, LoopGoto, frameVars
<1>2. UNCHANGED <<queueT1, queueT2, pc, t1, t2, todo>>  BY <1>1 DEF syncVars
<1>3. /\ ~Got /\ ~Got' /\ Oldest(g) = g /\ Oldest(g)' = g
  BY <1>1 DEF Got, Oldest
<1>4. FirstKept' = FirstKept /\ \A u : Own(u)' = Own(u)
  BY <1>2 DEF FirstKept, PopPending, Popping, Own
<1>5. Streams(g) /\ HelpersRest(g) /\ stored = {}  BY <1>1 DEF Round
<1>6. \A h \in Helpers : pc[h] = "idle"  BY <1>1, <1>3, <1>5 DEF HelpersRest
<1>7. HelpersRest(g)'  BY <1>2, <1>6 DEF HelpersRest
<1>8. /\ p \in 1 .. (2 * Frames + 1) /\ Frames \in Nat /\ g \in Nat /\ p \in Nat
      /\ data \in [DeviceThreads -> 0 .. Frames] /\ held \in [DeviceThreads -> 0 .. Frames]
      /\ Image # Depth /\ r \in DeviceThreads
      /\ Image \in DeviceThreads /\ Depth \in DeviceThreads
  BY ThreadsAssumption, ModesAssumption DEF CaptureInv, TypeInv, TypeOK, RecordOf, DeviceThreads
<1>9. /\ from = "trigger1" => p \in (2 * g - 1) .. (2 * g + 1) /\ to = "trigger2"
      /\ from = "trigger2" => p \in (2 * g) .. (2 * g + 2) /\ to = "flush"
      /\ 2 * data[Image] - 1 < p /\ 2 * data[Depth] < p
  BY <1>1, <1>5 DEF Streams, ReadSoFar
<1>10. \A u \in AppThreads : HandsOut(u, g)'
  BY <1>1, <1>2, <1>3, <1>5 DEF Streams, HandsOut, Handing
<1>11. \A u \in DeviceThreads : Publisher(u, g)'
  BY <1>2, <1>3, <1>4, <1>5 DEF Streams, Publisher
<1>12. CASE AtEnd /\ UNCHANGED <<fileVars, device>>
  <2>1. p = 2 * Frames + 1 /\ UNCHANGED <<position, data, device, held>>
    BY <1>1, <1>8, <1>12 DEF AtEnd, fileVars
  <2>2. ~updated' => g = Frames
    BY <1>1, <1>5, <1>8, <1>9, <2>1 DEF Trigger, Streams, ReadSoFar
  <2>3. ReadSoFar(g)'
    BY <1>1, <1>8, <1>9, <2>1, <2>2 DEF ReadSoFar
  <2>4. \A u \in DeviceThreads : StreamOf(u, g)'
    BY <1>3, <1>4, <1>5, <2>1, StreamKept DEF Streams
  <2> QED
    BY <1>1, <1>3, <1>5, <1>7, <1>10, <1>11, <2>3, <2>4 DEF Round, Streams
<1>13. CASE ~AtEnd /\ ReadNext
  <2>1. /\ position' = p + 1 /\ data' = [data EXCEPT ![r] = f]
        /\ device' = [t \in DeviceThreads |->
                        IF t \in {r} /\ device[t] = "waiting" THEN "notified" ELSE device[t]]
    BY <1>13 DEF ReadNext, Notified
  <2>2. updated'  BY <1>13 DEF Trigger
  <2>3. /\ f \in Nat /\ data[r] < f /\ g <= f
        /\ 2 * data'[Image] - 1 < p + 1 /\ 2 * data'[Depth] < p + 1
    <3>1. data[Image] \in Nat /\ data[Depth] \in Nat  BY <1>8
    <3>2. CASE p % 2 = 1
      <4>1. r = Image /\ data'[Image] = f /\ data'[Depth] = data[Depth]
        BY <1>8, <2>1, <3>2 DEF RecordOf
      <4>2. 2 * f = p + 1 /\ f \in Nat  BY <1>8, <3>2
      <4> QED  BY <1>8, <1>9, <3>1, <4>1, <4>2
    <3>3. CASE p % 2 # 1
      <4>1. r = Depth /\ data'[Depth] = f /\ data'[Image] = data[Image]
        BY <1>8, <2>1, <3>3 DEF RecordOf
      <4>2. 2 * f = p /\ f \in Nat  BY <1>8, <3>3
      <4> QED  BY <1>8, <1>9, <3>1, <4>1, <4>2
    <3> QED  BY <3>2, <3>3
  <2>4. ReadSoFar(g)'
    <3>1. /\ from = "trigger1" => position' \in (2 * g) .. (2 * g + 2)
          /\ from = "trigger2" => position' \in (2 * g + 1) .. (2 * g + 3)
      BY <1>8, <1>9, <2>1
    <3> QED  BY <1>1, <1>9, <2>1, <2>2, <2>3, <3>1 DEF ReadSoFar
  <2>5. \A u \in DeviceThreads : StreamOf(u, g)'
    <3> SUFFICES ASSUME NEW u \in DeviceThreads PROVE StreamOf(u, g)'
      OBVIOUS
    <3>1. StreamOf(u, g)  BY <1>5 DEF Streams
    <3>2. CASE u # r
      <4>1. data'[u] = data[u] /\ device'[u] = device[u] /\ held'[u] = held[u]
        BY <1>1, <1>8, <2>1, <3>2
      <4> QED  BY <1>3, <1>4, <3>1, <4>1, StreamKept
    <3>3. CASE u = r
      <4>1. /\ data'[u] = f /\ held'[u] = held[u]
            /\ device'[u] = "fetched" => device[u] = "fetched"
        BY <1>1, <1>8, <2>1, <3>3
      <4>2. data[u] \in Nat /\ held[u] \in Nat /\ data[u] < f  BY <1>8, <2>3, <3>3
      <4>3. \A i \in 1 .. Len(Own(u)) : Own(u)[i] \in Nat
        <5>1. Own(u) \in Seq(1 .. Frames)  BY PlaceFacts DEF Own
        <5>2. \A i \in 1 .. Len(Own(u)) : Own(u)[i] \in 1 .. Frames  BY <5>1, ElementOfSeq
        <5> QED  BY <5>2
      <4> HIDE DEF f
      <4>4. \A i \in 1 .. Len(Own(u)) : Own(u)[i] < f /\ Own(u)[i] <= f
        BY <2>3, <3>1, <4>2, <4>3 DEF StreamOf
      <4>5. device[u] = "fetched" => g <= held[u] /\ held[u] <= f
        BY <1>3, <2>3, <3>1, <4>2 DEF StreamOf
      <4> QED  BY <1>3, <1>4, <2>3, <3>1, <4>1, <4>4, <4>5 DEF StreamOf
    <3> QED  BY <3>2, <3>3
  <2> QED
    BY <1>1, <1>3, <1>5, <1>7, <1>10, <1>11, <2>4, <2>5 DEF Round, Streams
<1> QED  BY <1>12, <1>13 DEF Trigger

LEMMA EndTriggerRound ==
    ASSUME CaptureInv, RolesInv, NEW g \in 1 .. Frames, Round(g), EndTrigger
    PROVE  Round(g)'
<1>1. /\ mainAt = "flush" /\ mainAt' = "waiting"
      /\ UNCHANGED <<position, data, device, held, frameId, stored, target, updated>>
  BY DEF EndTrigger, LoopGoto, fileVars, deviceVars, loopVars, frameVars
<1>2. /\ UNCHANGED <<queueT1, queueT2, t1, t2, todo>>
      /\ \/ pc' = pc
         \/ ~updated /\ \E h \in Helpers : pc[h] = "idle" /\ pc' = [pc EXCEPT ![h] = "finalize"]
  BY DEF EndTrigger, Sync!Finalize, Sync!Goto, Sync!queues, Sync!locals, syncVars
<1>3. Streams(g) /\ HelpersRest(g) /\ stored = {}  BY <1>1 DEF Round
<1>4. \A h \in Helpers : pc[h] = "idle"  BY <1>1, <1>3 DEF HelpersRest, Got
<1>5. /\ pc \in [AppThreads -> Sync!Places]
      /\ DeviceThreads \subseteq AppThreads /\ Helpers \subseteq AppThreads
      /\ \A h \in Helpers : h \notin DeviceThreads
  BY PlaceFacts, ThreadsAssumption
<1>6. /\ \A u \in AppThreads \ Helpers : pc'[u] = pc[u]
      /\ \A h \in Helpers : pc'[h] \in {"idle", "finalize"}
      /\ \A h, k \in Helpers : pc'[h] # "idle" /\ pc'[k] # "idle" => h = k
      /\ \A h \in Helpers : pc'[h] # "idle" => ~updated
  BY <1>2, <1>4, <1>5
<1>7. ~updated => g = Frames  BY <1>1, <1>3 DEF Streams, ReadSoFar
<1>8. HelpersRest(g)'  BY <1>1, <1>6, <1>7 DEF HelpersRest
<1>9. \A u \in AppThreads : (Handing(u)' <=> Handing(u)) /\ (Popping(u)' <=> Popping(u))
  BY <1>2, <1>4, <1>6 DEF Handing, Popping, Sync!Delivering
<1>10. /\ FirstKept' = FirstKept /\ Oldest(g)' = Oldest(g) /\ ~Got /\ ~Got'
       /\ \A u : Own(u)' = Own(u)
  BY <1>1, <1>2, <1>9 DEF FirstKept, PopPending, Oldest, Got, Own
<1>11. ASSUME NEW u \in DeviceThreads PROVE StreamOf(u, g)' /\ Publisher(u, g)'
  <2>1. StreamOf(u, g) /\ Publisher(u, g)  BY <1>3 DEF Streams
  <2>2. StreamOf(u, g)'  BY <1>1, <1>10, <2>1, StreamKept
  <2>3. pc'[u] = pc[u]  BY <1>5, <1>6
  <2>4. Publisher(u, g)'  BY <1>2, <1>10, <2>1, <2>3 DEF Publisher
  <2> QED  BY <2>2, <2>4
<1>12. \A u \in AppThreads : HandsOut(u, g)'
  BY <1>1, <1>2, <1>3, <1>9, <1>10 DEF Streams, HandsOut
<1>13. ReadSoFar(g)'  BY <1>1, <1>3 DEF Streams, ReadSoFar
<1> QED  BY <1>1, <1>3, <1>8, <1>10, <1>11, <1>12, <1>13 DEF Round, Streams

LEMMA ExecuteRound ==
    ASSUME CaptureInv, NEW g \in 1 .. Frames, Round(g), Execute, mainAt' # "done"
    PROVE  Round(g)'
<1>1. /\ mainAt = "woken" /\ mainAt' = "loop"
      /\ UNCHANGED <<syncVars, position, data, device, held, frameId, stored, target, updated>>
  BY DEF Execute, LoopGoto, fileVars, deviceVars
<1>2. UNCHANGED <<queueT1, queueT2, pc, t1, t2, todo>>  BY <1>1 DEF syncVars
<1>3. Streams(g) /\ HelpersRest(g) /\ stored = {} /\ frameId = g  BY <1>1 DEF Round, Got
<1>4. /\ FirstKept' = FirstKept /\ Oldest(g)' = Oldest(g) /\ Got /\ Got'
      /\ \A u : Own(u)' = Own(u)
  BY <1>1, <1>2 DEF FirstKept, PopPending, Popping, Oldest, Got, Own
<1>5. HelpersRest(g)'  BY <1>1, <1>2, <1>3, <1>4 DEF HelpersRest, Popping
<1>6. \A u \in DeviceThreads : StreamOf(u, g)'
  BY <1>1, <1>3, <1>4, StreamKept DEF Streams
<1>7. \A u \in DeviceThreads : Publisher(u, g)'
  BY <1>2, <1>3, <1>4 DEF Streams, Publisher
<1>8. \A u \in AppThreads : HandsOut(u, g)'
  BY <1>1, <1>2, <1>3, <1>4 DEF Streams, HandsOut, Handing
<1>9. ReadSoFar(g)'  BY <1>1, <1>3 DEF Streams, ReadSoFar
<1> QED  BY <1>1, <1>3, <1>4, <1>5, <1>6, <1>7, <1>8, <1>9 DEF Round, Streams

(* From the frame it has the main loop goes to the one it seeks, or on to  *)
(* the next.                                                               *)
LEMMA SoughtRound ==
    ASSUME CaptureInv, NEW g \in 1 .. Frames, Round(g) \/ Unstarted, mainAt = "loop",
           NEW f \in 1 .. Frames, SeekTo(f), UNCHANGED <<frameId, stored>>
    PROVE  Round(f)'
<1>1. /\ mainAt' = "seeking" /\ target' = f
      /\ pc[Main] = "idle" /\ pc' = [pc EXCEPT ![Main] = "reset"] /\ todo' = todo
  BY DEF SeekTo, LoopGoto, Sync!Reset, Sync!Goto, Sync!locals
<1>2. /\ pc \in [AppThreads -> Sync!Places] /\ Main \in AppThreads
      /\ \A h \in Helpers : h \in AppThreads /\ h # Main
  BY PlaceFacts, ThreadsAssumption
<1>3. stored = {}  BY DEF Round, Unstarted
<1>4. /\ \A h \in Helpers : pc'[h] = pc[h]
      /\ pc'[Main] = "reset"
  BY <1>1, <1>2
<1>5. /\ \A h \in Helpers : pc[h] # "idle" => Popping(h)
      /\ \A h, k \in Helpers : pc[h] # "idle" /\ pc[k] # "idle" => h = k
  BY <1>2 DEF Round, HelpersRest, Unstarted
<1>6. \A h \in Helpers : Popping(h)' <=> Popping(h)  BY <1>1, <1>4 DEF Popping
<1>7. HelpersRest(f)'  BY <1>1, <1>4, <1>5, <1>6 DEF HelpersRest
<1> QED  BY <1>1, <1>3, <1>7 DEF Round, Got

LEMMA NextRound ==
    ASSUME CaptureInv, NEW g \in 1 .. Frames, Round(g), mainAt = "loop", NoSeek, g + 1 \in 1 .. Frames,
           UNCHANGED <<fileVars, deviceVars, updated, frameId, stored>>
    PROVE  Round(g + 1)'
<1>1. /\ mainAt' = "trigger1"
      /\ UNCHANGED <<syncVars, position, data, device, held, target>>
  BY DEF NoSeek, LoopGoto, fileVars, deviceVars
<1>2. UNCHANGED <<queueT1, queueT2, pc, t1, t2, todo>>  BY <1>1 DEF syncVars
<1>3. Streams(g) /\ HelpersRest(g) /\ stored = {} /\ Got  BY DEF Round, Got
<1>4. g \in Nat /\ Frames \in Nat /\ g # Frames  BY ModesAssumption
<1>5. \A h \in Helpers : pc[h] = "idle"  BY <1>3, <1>4 DEF HelpersRest, Got
<1>6. HelpersRest(g + 1)'  BY <1>2, <1>5 DEF HelpersRest
<1>7. /\ FirstKept' = FirstKept /\ Oldest(g + 1)' = g + 1 /\ Oldest(g) = g + 1 /\ ~Got'
      /\ \A u : Own(u)' = Own(u)
  BY <1>1, <1>2, <1>3 DEF FirstKept, PopPending, Popping, Oldest, Got, Own
<1>8. ASSUME NEW u \in DeviceThreads PROVE StreamOf(u, g + 1)' /\ Publisher(u, g + 1)'
  <2>1. StreamOf(u, g) /\ Publisher(u, g)  BY <1>3 DEF Streams
  <2>2. StreamOf(u, g + 1)'  BY <1>1, <1>7, <2>1 DEF StreamOf
  <2>3. Publisher(u, g + 1)'  BY <1>2, <1>3, <1>7, <2>1 DEF Publisher
  <2> QED  BY <2>2, <2>3
<1>9. \A u \in AppThreads : HandsOut(u, g + 1)'
  BY <1>2, <1>3 DEF Streams, HandsOut, Handing
<1>10. ReadSoFar(g + 1)'
  <2>1. /\ position \in (2 * g + 1) .. (2 * g + 3)
        /\ 2 * data[Image] - 1 < position /\ 2 * data[Depth] < position
    BY <1>3 DEF Streams, ReadSoFar
  <2>2. position \in (2 * (g + 1) - 1) .. (2 * (g + 1) + 1)  BY <1>4, <2>1
  <2> QED  BY <1>1, <2>1, <2>2 DEF ReadSoFar
<1> QED  BY <1>1, <1>3, <1>6, <1>7, <1>8, <1>9, <1>10 DEF Round, Streams

LEMMA FirstRound ==
    ASSUME CaptureInv, Unstarted, mainAt = "loop", NoSeek,
           UNCHANGED <<fileVars, deviceVars, updated, frameId, stored>>
    PROVE  Round(1)'
<1>1. /\ mainAt' = "trigger1"
      /\ UNCHANGED <<syncVars, position, data, device, held, target>>
  BY DEF NoSeek, LoopGoto, fileVars, deviceVars
<1>2. UNCHANGED <<queueT1, queueT2, pc, t1, t2, todo>>  BY <1>1 DEF syncVars
<1>3. /\ Helpers \subseteq AppThreads /\ DeviceThreads \subseteq AppThreads
      /\ Image \in DeviceThreads /\ Depth \in DeviceThreads
  BY DEF AppThreads, DeviceThreads
<1>4. HelpersRest(1)'  BY <1>2, <1>3 DEF HelpersRest, Unstarted
<1>5. \A u \in AppThreads : ~Handing(u)'
  BY <1>2 DEF Handing, Unstarted, Sync!Delivering
<1>6. ASSUME NEW u \in DeviceThreads PROVE StreamOf(u, 1)' /\ Publisher(u, 1)'
  <2>1. Own(u)' = <<>>  BY <1>2 DEF Own, Unstarted
  <2>2. device'[u] \in {"busy", "waiting"}  BY <1>1 DEF Unstarted
  <2>3. \A i \in 1 .. Len(Own(u))' : FALSE  BY <2>1
  <2> QED  BY <2>1, <2>2, <2>3 DEF StreamOf, Publisher
<1>7. ReadSoFar(1)'  BY <1>1, <1>3 DEF ReadSoFar, Unstarted
<1>8. stored' = {}  BY DEF Unstarted
<1> QED  BY <1>1, <1>4, <1>5, <1>6, <1>7, <1>8 DEF Round, Streams, HandsOut, Got

-----------------------------------------------------------------------------
(* What the plan wants next.                                               *)
LEMMA WantedNext ==
    ASSUME mode' = mode, NEW g, NEW k, index' = k
    PROVE  Wanted(g)' <=>
             /\ mode.kind = "schedule" => k > 1 /\ g = mode.plan[k - 1]
             /\ mode.kind = "graph" =>
                  /\ headFrame' = FragmentHead(k)
                  /\ \/ g \in FragmentHead(k) .. FrameJ(k)
                     \/ g = FrameI(k) /\ (CutShort(k) \/ tailFrame' = FrameJ(k))
<1>1. FrameI(index)' = FrameI(k) /\ FrameJ(index)' = FrameJ(k)  BY DEF FrameI, FrameJ
<1>2. FragmentHead(index)' = FragmentHead(k)  BY DEF FragmentHead, FrameJ
<1>3. CutShort(index)' <=> CutShort(k)
  BY DEF CutShort, PassedFirst, FragmentHead, FrameI, FrameJ
<1> QED  BY <1>1, <1>2, <1>3 DEF Wanted

(* And what it wants it after.                                             *)
LEMMA CalledNext ==
    ASSUME mode' = mode, frameId' = frameId, NEW f, NEW k, index' = k
    PROVE  CalledFor(f)' <=>
             \/ f = FragmentHead(k) /\ frameId = LeftWith(k - 1) /\ ~SameFragment(k)
             \/ f = frameId + 1 /\ f \in FragmentHead(k) .. FrameJ(k)
             \/ /\ f = FrameI(k)
                /\ frameId = FrameJ(k) \/ (SameFragment(k) /\ frameId = LeftWith(k - 1))
<1>1. FrameI(index)' = FrameI(k) /\ FrameJ(index)' = FrameJ(k)  BY DEF FrameI, FrameJ
<1>2. FragmentHead(index)' = FragmentHead(k)  BY DEF FragmentHead, FrameJ
<1>3. LeftWith(index - 1)' = LeftWith(k - 1)  BY DEF LeftWith, FrameI
<1>4. SameFragment(index)' <=> SameFragment(k)  BY DEF SameFragment, FrameJ
<1> QED  BY <1>1, <1>2, <1>3, <1>4 DEF CalledFor

(* Being there, the main loop goes on in the file or seeks.                *)
LEMMA GoesToFrame ==
    ASSUME CaptureInv, NEW g \in 1 .. Frames, mainAt = "loop",
           Round(g) \/ (Unstarted /\ g = 1), NEW f \in 1 .. Frames,
           \/ SeekTo(f)
           \/ NoSeek /\ frameId + 1 = f,
           UNCHANGED <<fileVars, deviceVars, updated, frameId, stored>>
    PROVE  Round(f)'
<1>1. CASE SeekTo(f)  BY <1>1, SoughtRound
<1>2. CASE NoSeek /\ frameId + 1 = f /\ Round(g)
  <2>1. f = g + 1  BY <1>2 DEF Round, Got
  <2>2. Round(g + 1)'  BY <1>2, <2>1, NextRound
  <2> QED  BY <2>1, <2>2
<1>3. CASE NoSeek /\ frameId + 1 = f /\ Unstarted
  <2>1. f = 1  BY <1>3 DEF Unstarted
  <2>2. Round(1)'  BY <1>3, FirstRound
  <2> QED  BY <2>1, <2>2
<1> QED  BY <1>1, <1>2, <1>3

LEMMA ScheduleRound ==
    ASSUME CaptureInv, RolesInv, FollowInv, Following, Following', ProcessSchedule,
           mode.kind = "schedule"
    PROVE  FollowInv'
<1>1. /\ mainAt = "loop" /\ mode' = mode
      /\ UNCHANGED <<fileVars, deviceVars, updated, frameId, stored>>
  BY ScheduleOutcome
<1>2. PICK g \in 1 .. Frames : Round(g) \/ (Unstarted /\ g = 1)
  <2>1. 1 \in 1 .. Frames  BY ModesAssumption
  <2> QED  BY <2>1 DEF FollowInv
<1>3. FollowSchedule
  BY DEF ProcessSchedule, FollowPlain, FollowGraph, FollowBox
<1>4. index \in Nat \ {0} /\ mode \in Modes  BY DEF CaptureInv, TypeInv, TypeOK
<1>5. ~Ended
  <2>1. Leave => mainAt' = "done"  BY DEF Leave, LoopGoto
  <2> QED  BY <1>3, <2>1 DEF FollowSchedule, Following
<1>6. SeekUnlessNext(mode.plan[index]) /\ index' = index + 1
  BY <1>3, <1>5 DEF FollowSchedule
<1>7. mode.plan[index] \in 1 .. Frames
  <2>1. Len(mode.plan) \in Nat  BY <1>4, ModesAssumption, LenProperties
  <2>2. index \in 1 .. Len(mode.plan)  BY <1>4, <1>5, <2>1 DEF Ended
  <2> QED  BY <2>2, PlanFrames DEF CaptureInv
<1>8. PICK f \in 1 .. Frames : f = mode.plan[index]  BY <1>7
<1>9. Round(f)'
  <2>1. SeekTo(f) \/ (NoSeek /\ frameId + 1 = f)  BY <1>6, <1>8 DEF SeekUnlessNext
  <2> QED  BY <1>1, <1>2, <2>1, GoesToFrame
<1>10. Wanted(f)'
  <2>1. PICK k : k = index + 1  OBVIOUS
  <2>2. k > 1 /\ k - 1 = index /\ index' = k  BY <1>4, <1>6, <2>1
  <2> QED  BY <1>1, <1>8, <2>2, WantedNext
<1>11. Turn(f)'  BY <1>1 DEF Turn
<1> QED  BY <1>9, <1>10, <1>11 DEF FollowInv

LEMMA GraphRound ==
    ASSUME CaptureInv, RolesInv, FollowInv, Following, Following', ProcessSchedule,
           mode.kind = "graph"
    PROVE  FollowInv'
<1>1. /\ mainAt = "loop" /\ mode' = mode
      /\ UNCHANGED <<fileVars, deviceVars, updated, frameId, stored>>
  BY ScheduleOutcome
<1>2. FollowGraph /\ ~Ended
  BY DEF ProcessSchedule, FollowPlain, FollowSchedule, FollowBox, Following
<1>3. /\ index \in Nat \ {0} /\ mode \in Modes /\ Frames \in Nat /\ Rate \in Nat \ {0}
      /\ Len(mode.plan) \in Nat
  <2>1. /\ index \in Nat \ {0} /\ mode \in Modes /\ Frames \in Nat /\ Rate \in Nat \ {0}
    BY ModesAssumption DEF CaptureInv, TypeInv, TypeOK
  <2> QED  BY <2>1, ModesAssumption, LenProperties
<1>4. index \in 1 .. Len(mode.plan)  BY <1>2, <1>3 DEF Ended
<1>5. \A k \in 1 .. Len(mode.plan) :
        /\ FrameI(k) \in 1 .. Frames /\ FragmentHead(k) \in 1 .. Frames
        /\ FrameJ(k) \in 1 .. Frames /\ FragmentHead(k) \in FragmentHead(k) .. FrameJ(k)
  <2> SUFFICES ASSUME NEW k \in 1 .. Len(mode.plan)
               PROVE  /\ FrameI(k) \in 1 .. Frames /\ FragmentHead(k) \in 1 .. Frames
                      /\ FrameJ(k) \in 1 .. Frames /\ FragmentHead(k) \in FragmentHead(k) .. FrameJ(k)
    OBVIOUS
  <2>1. FrameI(k) \in 1 .. Frames /\ FragmentHead(k) \in 1 .. Frames
    BY PlanFrames DEF CaptureInv
  <2>2. mode.plan[k] \in (1 .. Frames) \X (Rate .. Frames)
    BY <1>3, ModesAssumption, ElementOfSeq
  <2>3. FrameJ(k) \in Rate .. Frames  BY <2>2 DEF FrameJ
  <2> QED  BY <1>3, <2>1, <2>3 DEF FragmentHead
(* Wherever it goes for entry k, the main loop goes to a frame wanted then. *)
<1> DEFINE Goes(f) == SeekTo(f) \/ (NoSeek /\ frameId + 1 = f)
<1>6. ASSUME NEW f \in 1 .. Frames, Goes(f), Wanted(f)', CalledFor(f)'
      PROVE  FollowInv'
  <2>1. PICK g \in 1 .. Frames : Round(g) \/ (Unstarted /\ g = 1)
    <3>1. 1 \in 1 .. Frames  BY ModesAssumption
    <3> QED  BY <3>1 DEF FollowInv
  <2>2. Round(f)'  BY <1>1, <1>6, <2>1, GoesToFrame
  <2> QED  BY <1>6, <2>2 DEF FollowInv, Turn
<1>7. \A f : SeekUnlessNext(f) => Goes(f)  BY DEF SeekUnlessNext
<1> HIDE DEF Goes
<1>8. CASE frameId = 0 /\ StartEdge(index) /\ UNCHANGED <<index, tailFrame>>
  <2>1. PICK f \in 1 .. Frames : f = FragmentHead(index)  BY <1>4, <1>5
  <2>2. Goes(f) /\ headFrame' = FragmentHead(index)  BY <1>8, <2>1 DEF StartEdge, Goes
  <2>3. PICK k : k = index  OBVIOUS
  <2>4. f \in FragmentHead(k) .. FrameJ(k) /\ headFrame' = FragmentHead(k) /\ index' = k
    BY <1>4, <1>5, <1>8, <2>1, <2>2, <2>3
  <2>5. Wanted(f)'  BY <1>1, <2>4, WantedNext
  <2>6. index = 1  BY <1>1, <1>8 DEF FollowInv, Unstarted, Round, Got
  <2>7. LeftWith(k - 1) = 0 /\ ~SameFragment(k)  BY <2>3, <2>6 DEF LeftWith, SameFragment
  <2>8. CalledFor(f)'  BY <1>1, <1>8, <2>1, <2>3, <2>4, <2>7, CalledNext
  <2> QED  BY <1>6, <2>2, <2>5, <2>8
<1>9. frameId # 0 => \E g \in 1 .. Frames : Round(g) /\ Wanted(g) /\ frameId = g
  BY <1>1 DEF FollowInv, Unstarted, Round, Got
<1>10. ASSUME NEW g \in 1 .. Frames, Round(g), Wanted(g), frameId = g
       PROVE  FollowInv'
  <2>1. /\ headFrame = FragmentHead(index)
        /\ \/ g \in FragmentHead(index) .. FrameJ(index)
           \/ g = FrameI(index) /\ (CutShort(index) \/ tailFrame = FrameJ(index))
    BY <1>10 DEF Wanted
  <2>2. CASE /\ frameId = FrameJ(index) /\ tailFrame' = frameId
             /\ SeekUnlessNext(FrameI(index)) /\ UNCHANGED <<index, headFrame>>
    <3>1. PICK f \in 1 .. Frames : f = FrameI(index)  BY <1>4, <1>5
    <3>2. Goes(f)  BY <1>7, <2>2, <3>1
    <3>3. PICK k : k = index  OBVIOUS
    <3>4. /\ f = FrameI(k) /\ tailFrame' = FrameJ(k) /\ headFrame' = FragmentHead(k) /\ index' = k
      BY <2>1, <2>2, <3>1, <3>3
    <3>5. Wanted(f)'  BY <1>1, <3>4, WantedNext
    <3>6. CalledFor(f)'  BY <1>1, <2>2, <3>3, <3>4, CalledNext
    <3> QED  BY <1>6, <3>2, <3>5, <3>6
  <2>3. CASE frameId # FrameJ(index) /\ frameId = FrameI(index) /\ NextEdge
    <3>1. index' = index + 1 /\ tailFrame' = tailFrame  BY <2>3 DEF NextEdge
    <3>2. index < Len(mode.plan) /\ index + 1 \in 1 .. Len(mode.plan)
      <4>1. Leave => mainAt' = "done"  BY DEF Leave, LoopGoto
      <4> QED  BY <1>3, <2>3, <4>1 DEF NextEdge, Following
    <3>3. PICK k \in 1 .. Len(mode.plan) : k = index + 1  BY <3>2
    <3>6. LeftWith(k - 1) = frameId /\ (SameFragment(k) <=> FrameJ(k) = FrameJ(index))
      BY <1>3, <2>3, <3>3 DEF LeftWith, SameFragment
    <3>4. CASE FrameJ(k) = FrameJ(index) /\ SeekUnlessNext(FrameI(k)) /\ UNCHANGED headFrame
      <4>1. PICK f \in 1 .. Frames : f = FrameI(k)  BY <1>5
      <4>2. Goes(f)  BY <1>7, <3>4, <4>1
      <4>3. CutShort(k) \/ tailFrame = FrameJ(k)
        <5>1. CASE g \in FragmentHead(index) .. FrameJ(index)
          <6>1. PassedFirst(index)
            <7>1. FrameJ(index) \in Nat /\ FragmentHead(index) \in Nat  BY <1>4, <1>5
            <7> QED  BY <1>10, <2>3, <5>1, <7>1 DEF PassedFirst
          <6>2. index \in 1 .. k  BY <1>3, <3>3
          <6> QED  BY <3>4, <6>1, <6>2 DEF CutShort
        <5>2. CASE CutShort(index)
          <6>1. 1 .. index \subseteq 1 .. k  BY <1>3, <3>3
          <6> QED  BY <3>4, <5>2, <6>1 DEF CutShort
        <5>3. CASE tailFrame = FrameJ(index)  BY <3>4, <5>3
        <5> QED  BY <2>1, <5>1, <5>2, <5>3
      <4>4. headFrame' = FragmentHead(k)  BY <2>1, <3>4 DEF FragmentHead
      <4>5. Wanted(f)'  BY <1>1, <3>1, <3>3, <4>1, <4>3, <4>4, WantedNext
      <4>6. CalledFor(f)'  BY <1>1, <3>1, <3>3, <3>4, <3>6, <4>1, CalledNext
      <4> QED  BY <1>6, <4>2, <4>5, <4>6
    <3>5. CASE FrameJ(k) # FrameJ(index) /\ StartEdge(k)
      <4>1. PICK f \in 1 .. Frames : f = FragmentHead(k)  BY <1>5
      <4>2. Goes(f) /\ headFrame' = FragmentHead(k)  BY <3>5, <4>1 DEF StartEdge, Goes
      <4>3. Wanted(f)'  BY <1>1, <1>5, <3>1, <3>3, <4>1, <4>2, WantedNext
      <4>4. CalledFor(f)'  BY <1>1, <3>1, <3>3, <3>5, <3>6, <4>1, CalledNext
      <4> QED  BY <1>6, <4>2, <4>3, <4>4
    <3> QED  BY <1>3, <2>3, <3>2, <3>3, <3>4, <3>5 DEF NextEdge
  <2>4. CASE /\ frameId \notin {0, FrameI(index), FrameJ(index)} /\ NoSeek
             /\ UNCHANGED <<index, headFrame, tailFrame>>
    <3>1. g \in FragmentHead(index) .. FrameJ(index) /\ g # FrameJ(index)
      BY <1>10, <2>1, <2>4
    <3>2. PICK f : f = g + 1  OBVIOUS
    <3>3. f \in 1 .. Frames /\ f \in FragmentHead(index) .. FrameJ(index)
      <4>1. FrameJ(index) \in 1 .. Frames /\ FragmentHead(index) \in 1 .. Frames  BY <1>4, <1>5
      <4> QED  BY <1>3, <3>1, <3>2, <4>1
    <3>4. Goes(f)  BY <1>10, <2>4, <3>2 DEF Goes
    <3>5. PICK k : k = index  OBVIOUS
    <3>6. headFrame' = FragmentHead(k) /\ index' = k /\ f \in FragmentHead(k) .. FrameJ(k)
      BY <2>1, <2>4, <3>3, <3>5
    <3>7. Wanted(f)'  BY <1>1, <3>6, WantedNext
    <3>8. CalledFor(f)'  BY <1>1, <1>10, <3>2, <3>6, CalledNext
    <3> QED  BY <1>6, <3>3, <3>4, <3>7, <3>8
  <2>5. frameId # 0  BY <1>10
  <2> QED  BY <1>2, <2>2, <2>3, <2>4, <2>5 DEF FollowGraph
<1> QED  BY <1>2, <1>8, <1>9, <1>10 DEF FollowGraph

-----------------------------------------------------------------------------
(* A run that is still followed was followed before.                       *)
LEMMA FollowedBefore ==
    ASSUME CaptureInv, NEW t \in AppThreads, Thread(t), Following'
    PROVE  Following
<1>1. CASE ProcessSchedule
  <2>1. mainAt = "loop" /\ mode' = mode /\ index' >= index /\ UNCHANGED <<missed, crossed>>
    BY <1>1, ScheduleOutcome
  <2>2. index \in Nat /\ index' \in Nat
    BY <1>1, TypeSchedule DEF CaptureInv, TypeInv, TypeOK
  <2>3. mode \in Modes  BY DEF CaptureInv, TypeInv, TypeOK
  <2>4. mode.kind = "graph" => Len(mode.plan) \in Nat  BY <2>3, ModesAssumption, LenProperties
  <2> QED  BY <2>1, <2>2, <2>4 DEF Following, Ended
<1>2. CASE ~ProcessSchedule
  <2>1. mode' = mode /\ (Ended' <=> Ended)  BY <1>2, OthersKeepPlan DEF planVars, Ended
  <2>2. /\ missed => missed'
        /\ crossed => crossed'
        /\ mainAt = "done" => mainAt' = "done"
        /\ mainAt = "woken" /\ ~hasData => missed' \/ (mainAt' = "woken" /\ ~hasData')
    <3>1. CASE Construct  BY <3>1 DEF Construct, LoopGoto, loopVars
    <3>2. CASE SeekDepthFrame  BY <3>2 DEF SeekDepthFrame, LoopGoto
    <3>3. ASSUME NEW from \in {"trigger1", "trigger2"}, NEW to, Trigger(from, to)
          PROVE  UNCHANGED <<missed, crossed>> /\ mainAt \in {"trigger1", "trigger2"}
      BY <3>3 DEF Trigger, LoopGoto
    <3>4. CASE EndTrigger  BY <3>4 DEF EndTrigger, LoopGoto, loopVars
    <3>5. CASE Timeout  BY <3>5 DEF Timeout, LoopGoto
    <3>6. CASE Execute  BY <3>6 DEF Execute, LoopGoto
    <3>7. CASE DataThread(t)
      BY <3>7 DEF DataThread, WaitForData, Fetch, DataCallback, loopVars
    <3>8. CASE InSync(t)  BY <3>8 DEF InSync, loopVars
    <3>9. CASE SourceCallback(t)
      BY <3>9 DEF SourceCallback, StoreFrame, IgnoreFrame, NotifyMain, LoopGoto, loopVars
    <3> QED
      BY <1>2, <3>1, <3>2, <3>3, <3>4, <3>5, <3>6, <3>7, <3>8, <3>9 DEF Thread, MainLoop
  <2> QED  BY <2>1, <2>2 DEF Following
<1> QED  BY <1>1, <1>2

(* Before the first entry nothing happens but that threads get ready.      *)
LEMMA UnstartedStep ==
    ASSUME CaptureInv, Unstarted, NEW t \in AppThreads, Thread(t), ~ProcessSchedule
    PROVE  Unstarted'
<1>1. index' = index  BY OthersKeepPlan DEF planVars
<1>2. pc[t] = "idle" /\ mainAt \in {"construct", "loop"}  BY DEF Unstarted
<1>3. device \in [DeviceThreads -> {"busy", "waiting", "notified", "fetched"}]
  BY DEF CaptureInv, TypeInv, TypeOK
<1>4. CASE MainLoop
  <2>1. Construct
    BY <1>2, <1>4 DEF MainLoop, SeekDepthFrame, Trigger, EndTrigger, Timeout, Execute, LoopGoto
  <2> QED
    BY <1>1, <2>1 DEF Construct, LoopGoto, Sync!AddCallback, Sync!queues, Unstarted, fileVars,
       deviceVars, frameVars
<1>5. CASE t \in DeviceThreads /\ DataThread(t)
  <2>1. WaitForData(t)
    BY <1>5 DEF DataThread, Fetch, DataCallback, DeviceGoto, Unstarted
  <2>2. /\ \A u \in DeviceThreads : device'[u] \in {"busy", "waiting"}
        /\ UNCHANGED <<queueT1, queueT2, pc, position, data, mainAt, frameId, stored>>
    BY <1>3, <1>5, <2>1 DEF WaitForData, DeviceGoto, Unstarted, syncVars, fileVars, frameVars
  <2> QED  BY <1>1, <2>2 DEF Unstarted
<1>6. CASE InSync(t)
  <2>1. /\ UNCHANGED appVars
        /\ Looks(t) \/ Sync!Match(t) \/ HandsOver(t) \/ Sync!PopFronts(t) \/ Sync!Reset2(t)
    BY <1>6, SyncKinds
  <2>2. Looks(t)
    BY <1>2, <2>1 DEF Sync!Match, Sync!Decide, HandsOver, Sync!PopFronts, Sync!Unlock, Sync!Reset2, Sync!Goto,
       Sync!Delivering
  <2>3. UNCHANGED <<position, data, device, mainAt, frameId, stored>>
    BY <2>1 DEF appVars, fileVars, deviceVars, frameVars
  <2>4. \A u \in AppThreads : pc'[u] = "idle"  BY <1>2, <2>2 DEF Looks, Unstarted
  <2> QED  BY <1>1, <2>2, <2>3, <2>4 DEF Unstarted, Looks
<1>7. CASE SourceCallback(t)
  BY <1>2, <1>7 DEF SourceCallback, StoreFrame, IgnoreFrame, NotifyMain, Unstarted, Sync!Delivering
<1> QED  BY <1>4, <1>5, <1>6, <1>7 DEF Thread

(* The turn of g stays until it is stored, and does not come again before  *)
(* the main loop has gone on.                                              *)
LEMMA TurnStep ==
    ASSUME CaptureInv, RolesInv, NEW g \in 1 .. Frames, Round(g), Turn(g), NEW t \in AppThreads,
           Thread(t), ~ProcessSchedule, mainAt' # "done", mainAt' = "woken" => hasData'
    PROVE  Turn(g)'
<1>1. CASE StoreFrame(t)  BY <1>1 DEF StoreFrame, Turn
<1>2. CASE NotifyMain(t)  BY <1>2, HelpersAtNotice DEF Turn, Got
<1>3. CASE ~StoreFrame(t) /\ ~NotifyMain(t)
  <2>1. stored' = stored /\ frameId' = frameId /\ (Got => Got')
    <3> USE DEF frameVars, Got
    <3>1. CASE Construct  BY <3>1 DEF Construct, LoopGoto
    <3>2. CASE SeekDepthFrame  BY <3>2 DEF SeekDepthFrame, LoopGoto
    <3>3. ASSUME NEW from \in {"trigger1", "trigger2"}, NEW to, Trigger(from, to)
          PROVE  UNCHANGED frameVars /\ mainAt \in {"trigger1", "trigger2"}
      BY <3>3 DEF Trigger, LoopGoto
    <3>4. CASE EndTrigger  BY <3>4 DEF EndTrigger, LoopGoto
    <3>5. CASE Timeout  BY <3>5 DEF Timeout, LoopGoto
    <3>6. CASE Execute  BY <3>6 DEF Execute, LoopGoto
    <3>7. CASE DataThread(t)  BY <3>7 DEF DataThread, WaitForData, Fetch, DataCallback
    <3>8. CASE InSync(t)  BY <3>8 DEF InSync
    <3>9. CASE IgnoreFrame(t)  BY <3>9 DEF IgnoreFrame
    <3> QED
      BY <1>3, <3>1, <3>2, <3>3, <3>4, <3>5, <3>6, <3>7, <3>8, <3>9
      DEF Thread, MainLoop, SourceCallback
  <2>2. PICK k : k = index  OBVIOUS
  <2>3. mode' = mode /\ index' = k  BY <2>2, OthersKeepPlan DEF planVars
  <2>4. CalledFor(g) => CalledFor(g)'  BY <2>1, <2>2, <2>3, CalledNext DEF CalledFor
  <2> QED  BY <2>1, <2>3, <2>4 DEF Turn
<1> QED  BY <1>1, <1>2, <1>3

(* One step of a run that is followed.                                     *)
LEMMA FollowStep ==
    ASSUME CaptureInv, RolesInv, FollowInv, NEW t \in AppThreads, Thread(t)
    PROVE  FollowInv'
<1> SUFFICES ASSUME Following' PROVE FollowInv'
  BY DEF FollowInv
<1>1. Following  BY FollowedBefore
<1>2. CASE ProcessSchedule
  BY <1>1, <1>2, ScheduleRound, GraphRound DEF Following
<1>3. CASE ~ProcessSchedule /\ Unstarted
  BY <1>3, UnstartedStep DEF FollowInv
<1>4. ASSUME NEW g \in 1 .. Frames, Round(g), Wanted(g), Turn(g), ~ProcessSchedule
      PROVE  FollowInv'
  <2>1. Wanted(g)'
    <3>1. PICK k : k = index  OBVIOUS
    <3>2. mode' = mode /\ index' = k /\ UNCHANGED <<headFrame, tailFrame>>
      BY <1>4, <3>1, OthersKeepPlan DEF planVars
    <3> QED  BY <1>4, <3>1, <3>2, WantedNext DEF Wanted
  <2>2. mainAt # "done" /\ mainAt' # "done" /\ ~crossed' /\ (mainAt' = "woken" => hasData')
    BY <1>1 DEF Following
  <2>3. Round(g)'
    <3>1. CASE MainLoop
      <4>1. ~Construct  BY <1>4 DEF Construct, LoopGoto, Round
      <4>2. ~Timeout  BY <2>2 DEF Timeout, LoopGoto
      <4>3. Trigger("trigger1", "trigger2") => Round(g)'  BY <1>4, TriggerRound
      <4>4. Trigger("trigger2", "flush") => Round(g)'  BY <1>4, TriggerRound
      <4> QED
        BY <1>4, <2>2, <3>1, <4>1, <4>2, <4>3, <4>4, SeekRound, EndTriggerRound, ExecuteRound
        DEF MainLoop
    <3>2. CASE t \in DeviceThreads /\ DataThread(t)  BY <1>4, <2>2, <3>2, DataRound
    <3>3. CASE InSync(t)  BY <1>4, <2>2, <3>3, SyncRound
    <3>4. CASE SourceCallback(t)  BY <1>4, <2>2, <3>4, CallbackRound
    <3> QED  BY <3>1, <3>2, <3>3, <3>4 DEF Thread
  <2>4. Turn(g)'  BY <1>4, <2>2, TurnStep
  <2> QED  BY <2>1, <2>3, <2>4 DEF FollowInv
<1> QED  BY <1>1, <1>2, <1>3, <1>4 DEF FollowInv

PlannedInv == CaptureInv /\ RolesInv /\ FollowInv /\ HeadInv

LEMMA PlannedInit == Init => PlannedInv
<1> SUFFICES ASSUME Init PROVE PlannedInv
  OBVIOUS
<1>1. Unstarted  BY DEF Init, Sync!Init, Unstarted
<1> QED  BY <1>1, CaptureInit, RolesInit, HeadInit DEF PlannedInv, FollowInv

LEMMA PlannedStep == PlannedInv /\ [Next]_vars => PlannedInv'
<1> SUFFICES ASSUME PlannedInv, [Next]_vars PROVE PlannedInv'
  OBVIOUS
<1> USE DEF PlannedInv
<1>1. CaptureInv'  BY CaptureStep
<1>2. ASSUME NEW t \in AppThreads, Thread(t)
      PROVE  RolesInv' /\ FollowInv' /\ HeadInv'
  <2>1. HeadInv'
    <3>1. CASE ProcessSchedule  BY <3>1, ScheduleKeepsHead
    <3>2. CASE ~ProcessSchedule
      BY <1>2, <3>2, OthersKeepPlan DEF planVars, HeadInv, Ended, FragmentHead, FrameJ
    <3> QED  BY <3>1, <3>2
  <2> QED  BY <1>2, <2>1, RolesStep, FollowStep
<1>3. CASE UNCHANGED vars
  <2>1. UNCHANGED <<queueT1, queueT2, cb, callbackCounter, pc, t1, t2, todo, position, data,
                    device, held, mode, index, headFrame, tailFrame, target, updated, hasData,
                    missed, crossed, mainAt, exit, frameId, stored>>
    BY <1>3 DEF vars, syncVars, fileVars, deviceVars, planVars, loopVars, frameVars
  <2>2. RolesInv'  BY <2>1 DEF RolesInv, Handing
  <2>3. HeadInv'  BY <2>1 DEF HeadInv, Ended, FragmentHead, FrameJ
  <2>4. (Following' <=> Following) /\ (Unstarted' <=> Unstarted)
    BY <2>1 DEF Following, Unstarted, Ended
  <2>5. ASSUME NEW g
        PROVE  (Round(g) => Round(g)') /\ (Wanted(g) => Wanted(g)') /\ (Turn(g) => Turn(g)')
    <3>1. /\ FirstKept' = FirstKept /\ Oldest(g)' = Oldest(g) /\ (Got' <=> Got)
          /\ \A u : Own(u)' = Own(u)
      BY <2>1 DEF FirstKept, PopPending, Popping, Oldest, Got, Own
    <3>2. \A u : (Handing(u)' <=> Handing(u)) /\ (Popping(u)' <=> Popping(u))
      BY <2>1 DEF Handing, Popping
    <3>3. Streams(g) => Streams(g)'
      BY <2>1, <3>1, <3>2, StreamKept DEF Streams, ReadSoFar, Publisher, HandsOut
    <3>4. HelpersRest(g) => HelpersRest(g)'  BY <2>1, <3>1, <3>2 DEF HelpersRest
    <3>5. Round(g) => Round(g)'  BY <2>1, <3>1, <3>3, <3>4 DEF Round
    <3>6. PICK k : k = index  OBVIOUS
    <3>7. Wanted(g) => Wanted(g)'  BY <2>1, <3>6, WantedNext DEF Wanted
    <3>8. CalledFor(g) => CalledFor(g)'  BY <2>1, <3>6, CalledNext DEF CalledFor
    <3>9. Turn(g) => Turn(g)'  BY <2>1, <3>1, <3>8 DEF Turn
    <3> QED  BY <3>5, <3>7, <3>9
  <2>6. FollowInv'
    <3>1. CASE \E g \in 1 .. Frames : Round(g) /\ Wanted(g) /\ Turn(g)
      BY <2>5, <3>1 DEF FollowInv
    <3> QED  BY <2>4, <3>1 DEF FollowInv
  <2> QED  BY <1>1, <2>2, <2>3, <2>6
<1> QED  BY <1>1, <1>2, <1>3 DEF Next

(* A new entry is taken by the main loop only, with the frame of the entry *)
(* before as the current one.                                              *)
LEMMA TakesEntry ==
    ASSUME PlannedInv, [Next]_vars, index' # index
    PROVE  ProcessSchedule /\ mainAt = "loop" /\ index \in Nat /\ mode \in Modes
<1>1. PICK t \in AppThreads : Thread(t)
  <2>1. UNCHANGED vars => index' = index  BY DEF vars, planVars
  <2> QED  BY <2>1 DEF Next
<1>2. ProcessSchedule  BY <1>1, OthersKeepPlan DEF planVars
<1> QED  BY <1>2, ScheduleOutcome DEF PlannedInv, CaptureInv, TypeInv, TypeOK

(* Whatever threads put the frames together and however late they are, a   *)
(* schedule is worked off entry by entry, each with its own frame: for any *)
(* file and any schedule, as long as no wait times out and no frame crosses *)
(* a seek.                                                                 *)
THEOREM EntriesTakenInOrder == Spec => ScheduleFollowed
<1>1. PlannedInv /\ [Next]_vars =>
        [index' # index /\ mode.kind = "schedule" /\ ~missed /\ ~crossed /\ index > 1
            => frameId = mode.plan[index - 1]]_vars
  <2> SUFFICES ASSUME PlannedInv, [Next]_vars, index' # index, mode.kind = "schedule",
                      ~missed, ~crossed, index > 1
               PROVE  frameId = mode.plan[index - 1]
    OBVIOUS
  <2>1. mainAt = "loop"  BY TakesEntry
  <2>2. Following  BY <2>1 DEF Following
  <2>3. ~Unstarted
    <3>1. index \in Nat  BY TakesEntry
    <3> QED  BY <3>1 DEF Unstarted
  <2>4. PICK g \in 1 .. Frames : Round(g) /\ Wanted(g)
    BY <2>2, <2>3 DEF PlannedInv, FollowInv
  <2> QED  BY <2>1, <2>4 DEF Round, Got, Wanted
<1> QED  BY <1>1, PlannedInit, PlannedStep, PTL DEF Spec, ScheduleFollowed

(* An edge of the graph is left with the head and the tail its             *)
(* transformation is made of: the head of its own fragment, and the last   *)
(* frame of the fragment, unless a wait timed out, a frame crossed a seek  *)
(* or an edge of the fragment was cut short.                               *)
THEOREM EdgesLeftProcessed == Spec => EdgesProcessed
<1>1. PlannedInv /\ [Next]_vars =>
        [index' # index /\ mode.kind = "graph" =>
            /\ headFrame \in {0, FragmentHead(index)}
            /\ ~missed /\ ~crossed /\ ~CutShort(index)
                  => headFrame # 0 /\ tailFrame = FrameJ(index)]_vars
  <2> SUFFICES ASSUME PlannedInv, [Next]_vars, index' # index, mode.kind = "graph"
               PROVE  /\ headFrame \in {0, FragmentHead(index)}
                      /\ ~missed /\ ~crossed /\ ~CutShort(index)
                            => headFrame # 0 /\ tailFrame = FrameJ(index)
    OBVIOUS
  <2>1. ProcessSchedule /\ mainAt = "loop" /\ index \in Nat \ {0} /\ mode \in Modes
    BY TakesEntry DEF PlannedInv, HeadInv
  <2>2. headFrame \in {0, FragmentHead(index)}
    BY <2>1, ScheduleKeepsHead DEF PlannedInv
  <2>3. /\ ~Ended /\ frameId # 0 /\ frameId # FrameJ(index) /\ frameId = FrameI(index)
    BY <2>1 DEF ProcessSchedule, FollowPlain, FollowSchedule, FollowBox, FollowGraph
  <2>4. ASSUME ~missed, ~crossed, ~CutShort(index)
        PROVE  headFrame # 0 /\ tailFrame = FrameJ(index)
    <3>1. Following  BY <2>1, <2>3, <2>4 DEF Following
    <3>2. PICK g \in 1 .. Frames : Round(g) /\ Wanted(g)
      BY <2>3, <3>1 DEF PlannedInv, FollowInv, Unstarted
    <3>3. frameId = g  BY <2>1, <3>2 DEF Round, Got
    <3>4. Len(mode.plan) \in Nat  BY <2>1, ModesAssumption, LenProperties
    <3>5. index \in 1 .. Len(mode.plan)  BY <2>1, <2>3, <3>4 DEF Ended
    <3>6. FragmentHead(index) \in 1 .. Frames  BY <3>5, PlanFrames DEF PlannedInv, CaptureInv
    <3>7. FrameJ(index) \in Nat /\ Frames \in Nat
      <4>1. mode.plan[index] \in (1 .. Frames) \X (Rate .. Frames)
        BY <2>1, <3>5, ModesAssumption, ElementOfSeq
      <4>2. FrameJ(index) \in Rate .. Frames  BY <4>1 DEF FrameJ
      <4> QED  BY <4>2, ModesAssumption
    <3>8. headFrame = FragmentHead(index)  BY <3>2 DEF Wanted
    <3>9. CASE g \in FragmentHead(index) .. FrameJ(index)
      <4>1. PassedFirst(index)  BY <2>3, <3>3, <3>6, <3>7, <3>9 DEF PassedFirst
      <4> QED  BY <2>1, <2>4, <4>1 DEF CutShort
    <3>10. CASE tailFrame = FrameJ(index)  BY <3>6, <3>8, <3>10
    <3> QED  BY <2>4, <3>2, <3>9, <3>10 DEF Wanted
  <2> QED  BY <2>2, <2>4
<1> QED  BY <1>1, PlannedInit, PlannedStep, PTL DEF Spec, EdgesProcessed

(* A frame is stored by the callback only.                                 *)
LEMMA StoredByCallback ==
    ASSUME [Next]_vars, stored' \ stored # {}
    PROVE  \E t \in AppThreads : StoreFrame(t)
<1>1. UNCHANGED vars => stored' = stored  BY DEF vars, frameVars
<1>2. PICK t \in AppThreads : Thread(t)  BY <1>1 DEF Next
<1>3. ~ProcessSchedule  BY DEF ProcessSchedule
<1>4. ~MainLoop
  <2> USE DEF frameVars
  <2>1. \A from, to : ~Trigger(from, to)  BY DEF Trigger
  <2>2. ~Construct /\ ~SeekDepthFrame  BY DEF Construct, SeekDepthFrame
  <2>3. ~EndTrigger /\ ~Timeout /\ ~Execute  BY DEF EndTrigger, Timeout, Execute
  <2> QED  BY <1>3, <2>1, <2>2, <2>3 DEF MainLoop
<1>5. ~DataThread(t)  BY DEF DataThread, WaitForData, Fetch, DataCallback, frameVars
<1>6. ~InSync(t) /\ ~IgnoreFrame(t)  BY DEF InSync, IgnoreFrame, frameVars
<1>7. ~NotifyMain(t)  BY DEF NotifyMain
<1> QED  BY <1>2, <1>4, <1>5, <1>6, <1>7 DEF Thread, SourceCallback

(* The frames that make up an edge come to the main loop in turn, whatever *)
(* threads put them together: none is skipped or comes again and none is   *)
(* of the edge before, for any file and any graph, as long as no wait has  *)
(* timed out and no frame crossed a seek.                                  *)
THEOREM EdgeGoesInTurn == Spec => EdgeFramesInTurn
<1>1. PlannedInv /\ [Next]_vars =>
        [stored' \ stored # {} /\ mode.kind = "graph" /\ ~Ended
           /\ ~missed /\ ~crossed /\ mainAt = "waiting" => CalledFor(frameId')]_vars
  <2> SUFFICES ASSUME PlannedInv, [Next]_vars, stored' \ stored # {}, mode.kind = "graph", ~Ended,
                      ~missed, ~crossed, mainAt = "waiting"
               PROVE  CalledFor(frameId')
    OBVIOUS
  <2> USE DEF PlannedInv
  <2>1. PICK t \in AppThreads : StoreFrame(t)  BY StoredByCallback
  <2>2. PICK g \in 1 .. Frames : Round(g) /\ Wanted(g) /\ Turn(g)
    BY DEF FollowInv, Following, Unstarted
  <2>3. frameId' = g
    <3>1. Round(g)'  BY <2>1, <2>2, StoreRound
    <3> QED  BY <3>1 DEF Round
  <2>4. stored = {}
    <3>1. \A u \in stored : u \in AppThreads /\ pc[u] \in Sync!HoldsPublish
      BY DEF RolesInv, Handing, CaptureInv, TypeInv, TypeOK, Sync!HoldsPublish, Sync!Publishing,
         Sync!Finalizing, Sync!Delivering
    <3>2. pc[t] \in Sync!HoldsPublish /\ t \notin stored
      BY <2>1 DEF StoreFrame, Sync!HoldsPublish, Sync!Publishing, Sync!Finalizing,
         Sync!Delivering
    <3> QED  BY <2>1, <3>1, <3>2, PlaceFacts
  <2> QED  BY <2>2, <2>3, <2>4 DEF Turn, Got
<1> QED  BY <1>1, PlannedInit, PlannedStep, PTL DEF Spec, EdgeFramesInTurn

-----------------------------------------------------------------------------
(* How far the end of a file played without seeks is off: the frames no    *)
(* pair has been made of yet, and the pair the callback has; the misses    *)
(* that are left; and the steps to the main loop's next decision.          *)
FramesAhead == {f \in 1 .. Frames : \A p \in delivered : p[2] < f}
CallbackBusy == \E t \in AppThreads : todo[t] # {}
PairsLeft == Cardinality(FramesAhead) + (IF CallbackBusy THEN 1 ELSE 0)

MissesLeft == IF mainAt = "woken" /\ hasData THEN MaxMisses + 1 ELSE MaxMisses - misses

LoopSteps ==
    CASE mainAt = "construct" -> 7
      [] mainAt = "loop"      -> 6
      [] mainAt = "trigger1"  -> 5
      [] mainAt = "trigger2"  -> 4
      [] mainAt = "flush"     -> 3
      [] mainAt = "waiting"   -> 2
      [] mainAt = "woken"     -> 1
      [] OTHER                -> 0

Nearer ==
    \/ PairsLeft' < PairsLeft
    \/ PairsLeft' = PairsLeft /\ MissesLeft' < MissesLeft
    \/ PairsLeft' = PairsLeft /\ MissesLeft' = MissesLeft /\ LoopSteps' < LoopSteps
AsNear == PairsLeft' = PairsLeft /\ MissesLeft' = MissesLeft /\ LoopSteps' = LoopSteps

(* Each step of the main loop brings the end nearer, and no step of another *)
(* thread takes it further away: the misses start again only after one of  *)
(* finitely many pairs.                                                    *)
EndComesNearer ==
    /\ [](Plain => PairsLeft \in 0 .. Frames + 1 /\ MissesLeft \in 0 .. MaxMisses + 1)
    /\ [][Plain => (Nearer \/ AsNear) /\ (MainLoop => Nearer)]_vars

LEMMA LeftInRange ==
    ASSUME CaptureInv
    PROVE  /\ IsFiniteSet(FramesAhead) /\ Cardinality(FramesAhead) \in 0 .. Frames
           /\ PairsLeft \in 0 .. Frames + 1 /\ MissesLeft \in 0 .. MaxMisses + 1
           /\ LoopSteps \in 0 .. 7
<1>1. Frames \in Nat /\ MaxMisses \in Nat  BY ModesAssumption
<1>2. IsFiniteSet(1 .. Frames) /\ Cardinality(1 .. Frames) = Frames
  <2>1. IsFiniteSet(1 .. Frames)
        /\ Cardinality(1 .. Frames) = IF 1 > Frames THEN 0 ELSE Frames - 1 + 1
    BY <1>1, FS_Interval
  <2> QED  BY <1>1, <2>1
<1>3. FramesAhead \in SUBSET (1 .. Frames)  BY DEF FramesAhead
<1>4. IsFiniteSet(FramesAhead) /\ Cardinality(FramesAhead) <= Frames  BY <1>2, <1>3, FS_Subset
<1>5. Cardinality(FramesAhead) \in Nat  BY <1>4, FS_CardinalityType
<1>6. PairsLeft \in 0 .. Frames + 1  BY <1>1, <1>4, <1>5 DEF PairsLeft
<1>7. MissesLeft \in 0 .. MaxMisses + 1
  BY <1>1 DEF MissesLeft, CaptureInv, TypeInv, TypeOK
<1>8. LoopSteps \in 0 .. 7  BY DEF LoopSteps
<1> QED  BY <1>1, <1>4, <1>5, <1>6, <1>7, <1>8

(* Only who is in a callback has one to call.                              *)
LEMMA BusyDelivers ==
    ASSUME CaptureInv, NEW t \in AppThreads, todo[t] # {}
    PROVE  /\ pc[t] \in Sync!Delivering
           /\ \A u \in AppThreads \ {t} : todo[u] = {}
<1>1. \A u \in AppThreads : todo[u] # {} => pc[u] \in Sync!Delivering
  BY DEF CaptureInv, SyncP!BaseInv, SyncP!DeliveryDefined, SyncP!Delivering, Sync!Delivering
<1>2. \A u \in AppThreads : pc[u] \in Sync!Delivering => mutex1 = u  BY PlaceFacts
<1> QED  BY <1>1, <1>2

(* Handing out a pair leaves fewer frames, and one callback to return.     *)
LEMMA HandOutLeaves ==
    ASSUME CaptureInv, SyncP!FreshInv, NEW t \in AppThreads, mutex2 = NoThread,
           queueT1 # <<>>, queueT2 # <<>>,
           delivered' = delivered \union {<<Head(queueT1), Head(queueT2)>>}
    PROVE  PairsLeft' \in Int /\ PairsLeft' <= PairsLeft
<1> DEFINE f == Head(queueT2)
<1>1. /\ queueT1 \in Seq(1 .. Frames) /\ queueT2 \in Seq(1 .. Frames)
      /\ Frames \in Nat /\ t \in AppThreads /\ todo \in [AppThreads -> SUBSET cb]
  BY PlaceFacts, ModesAssumption
<1>2. f \in 1 .. Frames /\ f = queueT2[1] /\ 1 \in 1 .. Len(queueT2)
  BY <1>1, HeadTailProperties, EmptySeq, LenProperties
<1>3. SyncP!YoungerQueues(delivered)
  <2>1. SyncP!BaseInv /\ SyncP!NobodyDelivers
    BY SyncConstants, SyncP!AloneWithQueues DEF CaptureInv
  <2> QED  BY <2>1, SyncConstants, SyncP!FreshFacts
<1>4. f \in FramesAhead  BY <1>2, <1>3 DEF SyncP!YoungerQueues, FramesAhead
<1>5. FramesAhead' \subseteq FramesAhead \ {f}
  <2> DEFINE pair == <<Head(queueT1), f>>
  <2>1. pair \in delivered' /\ pair[2] = f /\ delivered \subseteq delivered'  OBVIOUS
  <2> HIDE DEF pair
  <2>2. \A g \in FramesAhead' : g \in FramesAhead /\ pair[2] < g  BY <2>1 DEF FramesAhead
  <2> QED  BY <1>2, <2>1, <2>2
<1>6. IsFiniteSet(FramesAhead) /\ Cardinality(FramesAhead) \in Nat  BY LeftInRange
<1>7. IsFiniteSet(FramesAhead \ {f}) /\ Cardinality(FramesAhead \ {f}) = Cardinality(FramesAhead) - 1
  BY <1>4, <1>6, FS_RemoveElement
<1>8. Cardinality(FramesAhead') <= Cardinality(FramesAhead) - 1
  BY <1>5, <1>7, FS_Subset
<1>9. Cardinality(FramesAhead)' = Cardinality(FramesAhead') /\ Cardinality(FramesAhead') \in Nat
  BY <1>5, <1>7, FS_Subset, FS_CardinalityType
<1> QED  BY <1>6, <1>8, <1>9 DEF PairsLeft

(* The callback's return is one pair less.                                 *)
LEMMA ReturnLeaves ==
    ASSUME CaptureInv, RolesInv, NEW t \in AppThreads, Return(t)
    PROVE  PairsLeft' = PairsLeft - 1
<1>1. /\ todo' = [todo EXCEPT ![t] = {}] /\ todo[t] # {} /\ delivered' = delivered
  BY OneCallback DEF Return, Sync!Call, Sync!history
<1>2. \A u \in AppThreads \ {t} : todo[u] = {}  BY <1>1, BusyDelivers
<1>3. CallbackBusy /\ ~CallbackBusy'
  <2>1. todo \in [AppThreads -> SUBSET cb]  BY PlaceFacts
  <2> QED  BY <1>1, <1>2, <2>1 DEF CallbackBusy
<1>4. FramesAhead' = FramesAhead  BY <1>1 DEF FramesAhead
<1>5. Cardinality(FramesAhead) \in Nat  BY LeftInRange
<1>6. Cardinality(FramesAhead)' = Cardinality(FramesAhead)  BY <1>4
<1> QED  BY <1>3, <1>5, <1>6 DEF PairsLeft

LEMMA PairsKept == ASSUME UNCHANGED <<delivered, todo>> PROVE PairsLeft' = PairsLeft
<1>1. FramesAhead' = FramesAhead  BY DEF FramesAhead
<1>2. CallbackBusy' <=> CallbackBusy  BY DEF CallbackBusy
<1>3. Cardinality(FramesAhead)' = Cardinality(FramesAhead)  BY <1>1
<1> QED  BY <1>2, <1>3 DEF PairsLeft

(* Inside rgb_sync_ pairs are handed out only where both mutexes are got.  *)
LEMMA SyncLeaves ==
    ASSUME CaptureInv, SyncP!FreshInv, NEW t \in AppThreads, InSync(t)
    PROVE  PairsLeft' \in Int /\ PairsLeft' <= PairsLeft
<1>1. PairsLeft \in Int  BY LeftInRange
<1>2. CASE UNCHANGED <<delivered, todo>>  BY <1>1, <1>2, PairsKept
<1>3. CASE ~UNCHANGED <<delivered, todo>>
  <2> USE DEF Sync!locals, Sync!history
  <2>1. Sync!PublishData2(t) \/ Sync!Finalize2(t)
    <3>1. ~Sync!StartPublish(t) /\ ~Sync!FinalizePublish(t)
      BY <1>3 DEF Sync!StartPublish, Sync!FinalizePublish
    <3>2. ~Sync!Front1(t) /\ ~Sync!Front2(t)
      BY <1>3 DEF Sync!Front1, Sync!Front2, Sync!ReturnFrom
    <3>3. ~Sync!Match(t) /\ ~Sync!PopFronts(t)  BY <1>3 DEF Sync!Match, Sync!PopFronts
    <3>4. ~Sync!PublishData1(t) /\ ~Sync!Finalize1(t)
      BY <1>3 DEF Sync!PublishData1, Sync!Finalize1, Sync!LockMutex1
    <3>5. ~Sync!Reset1(t) /\ ~Sync!Reset2(t)
      BY <1>3 DEF Sync!Reset1, Sync!Reset2, Sync!LockMutex1
    <3> QED  BY <3>1, <3>2, <3>3, <3>4, <3>5 DEF InSync
  <2>2. /\ mutex2 = NoThread /\ queueT1 # <<>> /\ queueT2 # <<>>
        /\ delivered' = delivered \union {<<Head(queueT1), Head(queueT2)>>}
    BY <1>3, <2>1 DEF Sync!PublishData2, Sync!Finalize2, Sync!Deliver
  <2> QED  BY <2>2, HandOutLeaves
<1> QED  BY <1>2, <1>3

(* The main loop counts down, and starts again only after a miss less.     *)
LEMMA LoopComesNearer ==
    ASSUME CaptureInv, Plain, ReadInOrder, MainLoop
    PROVE  Nearer
<1>1. UNCHANGED <<delivered, todo>>
  <2>1. CASE Construct
    BY <2>1 DEF Construct, Sync!AddCallback, Sync!locals, Sync!history
  <2>2. CASE ProcessSchedule
    BY <2>2 DEF ProcessSchedule, Plain, FollowPlain, FollowSchedule, FollowGraph, FollowBox,
       NoSeek, syncVars
  <2>3. CASE EndTrigger
    BY <2>3 DEF EndTrigger, Sync!Finalize, Sync!locals, syncVars
  <2>4. CASE SeekDepthFrame \/ Timeout \/ Execute \/ \E from, to : Trigger(from, to)
    BY <2>4 DEF SeekDepthFrame, Timeout, Execute, Trigger, syncVars
  <2> QED  BY <2>1, <2>2, <2>3, <2>4 DEF MainLoop
<1>2. PairsLeft' = PairsLeft  BY <1>1, PairsKept
<1>3. MaxMisses \in Nat /\ misses \in 0 .. MaxMisses /\ hasData \in BOOLEAN
  BY ModesAssumption DEF CaptureInv, TypeInv, TypeOK
<1>4. CASE Execute
  <2>1. mainAt = "woken" /\ mainAt' # "woken" /\ misses' = IF hasData THEN 0 ELSE misses + 1
    BY <1>4 DEF Execute, LoopGoto
  <2>2. MissesLeft' = MaxMisses - misses'  BY <2>1 DEF MissesLeft
  <2>3. CASE hasData
    <3>1. MissesLeft = MaxMisses + 1 /\ misses' = 0  BY <2>1, <2>3 DEF MissesLeft
    <3> QED  BY <1>2, <1>3, <2>2, <3>1 DEF Nearer
  <2>4. CASE ~hasData
    <3>1. MissesLeft = MaxMisses - misses /\ misses' = misses + 1  BY <2>1, <2>4 DEF MissesLeft
    <3> QED  BY <1>2, <1>3, <2>2, <3>1 DEF Nearer
  <2> QED  BY <2>3, <2>4
<1>5. CASE ~Execute
  <2>1. /\ mainAt # "woken" /\ misses' = misses
        /\ mainAt' = "woken" => ~hasData'
        /\ LoopSteps' < LoopSteps
    <3>1. CASE Construct  BY <3>1 DEF Construct, LoopGoto, loopVars, LoopSteps
    <3>2. CASE ProcessSchedule
      BY <3>2 DEF ProcessSchedule, Plain, FollowPlain, FollowSchedule, FollowGraph, FollowBox,
         NoSeek, LoopGoto, LoopSteps
    <3>3. CASE SeekDepthFrame  BY <3>3 DEF SeekDepthFrame, LoopGoto, ReadInOrder
    <3>4. CASE Trigger("trigger1", "trigger2")  BY <3>4 DEF Trigger, LoopGoto, LoopSteps
    <3>5. CASE Trigger("trigger2", "flush")  BY <3>5 DEF Trigger, LoopGoto, LoopSteps
    <3>6. CASE EndTrigger  BY <3>6 DEF EndTrigger, LoopGoto, loopVars, LoopSteps
    <3>7. CASE Timeout  BY <3>7 DEF Timeout, LoopGoto, LoopSteps
    <3> QED  BY <1>5, <3>1, <3>2, <3>3, <3>4, <3>5, <3>6, <3>7 DEF MainLoop
  <2>2. MissesLeft' = MissesLeft  BY <2>1 DEF MissesLeft
  <2> QED  BY <1>2, <2>1, <2>2 DEF Nearer
<1> QED  BY <1>4, <1>5

(* Nobody else takes the end further away.                                 *)
LEMMA OthersKeepNear ==
    ASSUME CaptureInv, RolesInv, SyncP!FreshInv, NEW t \in AppThreads,
           (t \in DeviceThreads /\ DataThread(t)) \/ InSync(t) \/ SourceCallback(t)
    PROVE  Nearer \/ AsNear
<1>1. PairsLeft \in Int  BY LeftInRange
<1>2. ASSUME PairsLeft' \in Int, PairsLeft' <= PairsLeft, UNCHANGED <<mainAt, hasData, misses>>
      PROVE  Nearer \/ AsNear
  <2>1. MissesLeft' = MissesLeft /\ LoopSteps' = LoopSteps  BY <1>2 DEF MissesLeft, LoopSteps
  <2> QED  BY <1>1, <1>2, <2>1 DEF Nearer, AsNear
<1>3. CASE DataThread(t)
  <2>1. UNCHANGED <<delivered, todo, mainAt, hasData, misses>>
    BY <1>3 DEF DataThread, WaitForData, Fetch, DataCallback, Sync!Add0, Sync!Add1, Sync!locals,
       syncVars, loopVars
  <2> QED  BY <1>1, <1>2, <2>1, PairsKept
<1>4. CASE InSync(t)
  <2>1. UNCHANGED <<mainAt, hasData, misses>>  BY <1>4 DEF InSync, loopVars
  <2> QED  BY <1>2, <1>4, <2>1, SyncLeaves
<1>5. CASE StoreFrame(t)
  <2>1. UNCHANGED <<delivered, todo, mainAt, hasData, misses>>
    BY <1>5 DEF StoreFrame, syncVars, loopVars
  <2> QED  BY <1>1, <1>2, <2>1, PairsKept
<1>6. CASE IgnoreFrame(t) \/ NotifyMain(t)
  <2>1. Return(t)  BY <1>6 DEF IgnoreFrame, NotifyMain
  <2>2. PairsLeft' = PairsLeft - 1  BY <2>1, ReturnLeaves
  <2> QED  BY <1>1, <2>2 DEF Nearer
<1> QED  BY <1>3, <1>4, <1>5, <1>6 DEF SourceCallback

(* Without seeks the main loop has only so many steps to take, whatever    *)
(* comes late or not at all; with OnlySeeksDeadlock and                    *)
(* CallsInCaptureBounded what MainLoopEnds says but for fairness, for any  *)
(* file and any number of misses and helpers.                              *)
THEOREM LoopIsBounded == Spec => EndComesNearer
<1>1. CaptureInv => PairsLeft \in 0 .. Frames + 1 /\ MissesLeft \in 0 .. MaxMisses + 1
  BY LeftInRange
<1>2. PlainInv /\ PlannedInv /\ [Next]_vars
        => [Plain => (Nearer \/ AsNear) /\ (MainLoop => Nearer)]_vars
  <2> SUFFICES ASSUME PlainInv, PlannedInv, [Next]_vars, ~UNCHANGED vars, Plain
               PROVE  (Nearer \/ AsNear) /\ (MainLoop => Nearer)
    OBVIOUS
  <2>1. PICK t \in AppThreads : Thread(t)  BY DEF Next
  <2>2. CaptureInv /\ RolesInv /\ SyncP!FreshInv /\ ReadInOrder  BY DEF PlainInv, PlannedInv
  <2>3. MainLoop => Nearer  BY <2>2, LoopComesNearer
  <2>4. CASE ~MainLoop  BY <2>1, <2>2, <2>4, OthersKeepNear DEF Thread
  <2> QED  BY <2>3, <2>4
<1>3. Spec => []PlainInv  BY PlainInit, PlainStep, PTL DEF Spec
<1>4. Spec => []PlannedInv  BY PlannedInit, PlannedStep, PTL DEF Spec
<1> QED  BY <1>1, <1>2, <1>3, <1>4, CaptureInvariant, PTL DEF Spec, EndComesNearer
=============================================================================
