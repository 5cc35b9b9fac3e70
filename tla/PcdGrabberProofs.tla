-------------------------- MODULE PcdGrabberProofs --------------------------
(***************************************************************************)
(* Theorems about the grabber and its trigger, for every list of files and *)
(* any number of clouds and rewinds: a stopped trigger is silent, a rewind *)
(* takes effect, the clouds are played in the order of the list, the       *)
(* reader never stays at one of them, and the destructor's join ends.      *)
(***************************************************************************)
EXTENDS PcdGrabber, SequenceTheorems, TLAPS

(* A streamed cloud is published and the next one read while the timer     *)
(* thread is in its callbacks, hence with condition_mutex_ held.           *)
TriggerUnderMutex == streaming /\ step # "idle" => timer = "calling"

StopInv == CallsOnlyWhileRunning /\ TriggerUnderMutex

-----------------------------------------------------------------------------
LEMMA StopInit == Init => StopInv
BY DEF Init, TriggerInit, StopInv, CallsOnlyWhileRunning, TriggerUnderMutex

(* start(), stop() and the destructor wait for the mutex; the callbacks    *)
(* begin where running_ was tested and end with the trigger's last step.   *)
LEMMA StopStep == StopInv /\ [Next]_vars => StopInv'
<1> SUFFICES ASSUME StopInv, [Next]_vars
             PROVE  StopInv'
  OBVIOUS
<1> USE DEF StopInv, CallsOnlyWhileRunning, TriggerUnderMutex, CallerVars, config,
        readerVars, history, triggerVars, MutexFree, NotifyAll, TimerGoto
<1>1. CASE TimerRuns
  BY <1>1 DEF TimerRuns, BeginCallbacks, BeginTrigger, CheckQuit, WaitForStart, Timeout, LeaveWait
<1>2. CASE Publish
  BY <1>2 DEF Publish
<1>3. CASE ReadAhead
  BY <1>3 DEF ReadAhead, EndTrigger, EndCallbacks
<1>4. CASE Advance
  BY <1>4 DEF Advance, EndTrigger, EndCallbacks
<1>5. CASE Spurious
  BY <1>5 DEF Spurious, SpuriousWakeup
<1>6. CASE StartStream
  BY <1>6 DEF StartStream, Start
<1>7. CASE StopStream
  BY <1>7 DEF StopStream, Stop
<1>8. CASE StartManual
  BY <1>8 DEF StartManual, BeginTrigger
<1>9. CASE Rewind
  BY <1>9 DEF Rewind
<1>10. CASE DestroyGrabber
  BY <1>10 DEF DestroyGrabber, Destroy
<1>11. CASE UNCHANGED vars
  BY <1>11 DEF vars
<1> QED
  BY <1>1, <1>2, <1>3, <1>4, <1>5, <1>6, <1>7, <1>8, <1>9, <1>10, <1>11 DEF Next, TriggerRuns

-----------------------------------------------------------------------------
(* No archive is open, or one of the list. *)
Places == {NoTar} \union [file : 1 .. Len(pcdFiles), entry : Nat]

(* The file whose clouds are being read is on the list, and so is the one  *)
(* pcd_iterator_ names until it is advanced, whatever rewind() did to it.  *)
OnList ==
    /\ pcdFiles \in Playlists
    /\ streaming \in BOOLEAN /\ repeat \in BOOLEAN
    /\ tar \in Places
    /\ step = "advance" => fileRead \in 1 .. Len(pcdFiles) /\ iterator \in 1 .. Len(pcdFiles)

TypeInv == TypeOK /\ OnList

LEMMA PlaylistType ==
    ASSUME OnList
    PROVE  Len(pcdFiles) \in Nat
BY PlaylistAssumption, LenProperties DEF OnList

LEMMA TypeInit == Init => TypeInv
<1> SUFFICES ASSUME Init PROVE TypeInv
  OBVIOUS
<1>1. OnList
  BY DEF Init, OnList, Places
<1>2. Len(pcdFiles) \in Nat
  BY <1>1, PlaylistType
<1>3. tar \in [file : 0 .. Len(pcdFiles), entry : Nat]
      /\ next \in Nat \X Nat /\ iterator \in 1 .. (Len(pcdFiles) + 1)
  BY <1>2 DEF Init, NoTar, NoCloud
<1>4. published \in Seq(Nat \X Nat) /\ rewinds \in 0 .. MaxRewinds
  BY PlaylistAssumption DEF Init
<1>5. running \in BOOLEAN /\ quit \in BOOLEAN /\ timer \in TimerPlaces
  BY DEF Init, TriggerInit, TimerPlaces
<1> QED
  BY <1>1, <1>3, <1>4, <1>5 DEF Init, TypeInv, TypeOK

LEMMA NextEntryType ==
    ASSUME NEW f, NEW e \in Nat
    PROVE  NextEntry(f, e) \in {e, e + 1} /\ NextEntry(f, e) \in Nat
BY DEF NextEntry

(* A reading step leaves a place in an archive of the list, or none. *)
LEMMA ReadEntryType ==
    ASSUME NEW f \in 1 .. Len(pcdFiles), NEW e \in Nat, OnList, ReadEntry(f, e)
    PROVE  tar' \in Places /\ valid' \in BOOLEAN /\ next' \in Nat \X Nat
<1>1. Len(pcdFiles) \in Nat
  BY PlaylistType
<1>2. f \in Nat /\ f \in 0 .. Len(pcdFiles) /\ e + 1 \in Nat /\ 0 \in 0 .. Len(pcdFiles)
  BY <1>1
<1>3. IsCloud(f, e) \in BOOLEAN
  BY DEF IsCloud
<1>4. tar' = [file |-> f, entry |-> e + 1] \/ tar' = NoTar
  BY DEF ReadEntry
<1>5. tar' \in Places
  BY <1>2, <1>4 DEF Places
<1>6. valid' \in BOOLEAN
  BY <1>3 DEF ReadEntry
<1>7. next' \in Nat \X Nat
  BY <1>2 DEF ReadEntry
<1> QED
  BY <1>5, <1>6, <1>7

LEMMA ReadAheadType ==
    ASSUME TypeInv, ReadAhead
    PROVE  /\ tar' \in Places /\ valid' \in BOOLEAN /\ next' \in Nat \X Nat
           /\ UNCHANGED <<config, iterator>>
           /\ step' = "idle" \/ (step' = "advance" /\ fileRead' = iterator
                                   /\ iterator \in 1 .. Len(pcdFiles))
<1>1. Len(pcdFiles) \in Nat /\ OnList /\ tar \in Places /\ iterator \in 1 .. (Len(pcdFiles) + 1)
      /\ valid \in BOOLEAN /\ next \in Nat \X Nat
  BY PlaylistType DEF TypeInv, TypeOK, OnList
<1>2. CASE ReadFile /\ step' = "advance" /\ fileRead' = iterator
  <2>1. iterator \in 1 .. Len(pcdFiles) /\ 1 \in Nat
    BY <1>1, <1>2 DEF ReadFile
  <2>2. tar' \in Places /\ valid' \in BOOLEAN /\ next' \in Nat \X Nat
    <3>1. CASE valid' = TRUE /\ next' = <<iterator, 1>> /\ UNCHANGED tar
      BY <1>1, <2>1, <3>1
    <3>2. CASE ReadEntry(iterator, 1)
      BY <1>1, <2>1, <3>2, ReadEntryType
    <3>3. CASE valid' = FALSE /\ UNCHANGED <<tar, next>>
      BY <1>1, <3>3
    <3> QED
      BY <1>2, <3>1, <3>2, <3>3 DEF ReadFile
  <2> QED
    BY <1>2, <2>1, <2>2 DEF ReadAhead
<1>3. CASE (ReadTar \/ ReadNothing) /\ EndTrigger
  <2>1. CASE ReadTar /\ ReadEntry(tar.file, NextEntry(tar.file, tar.entry))
    <3>1. tar.file \in 1 .. Len(pcdFiles) /\ tar.entry \in Nat
      BY <1>1, <2>1 DEF ReadTar, Places
    <3>2. NextEntry(tar.file, tar.entry) \in Nat  BY <3>1, NextEntryType
    <3> QED
      BY <1>1, <1>3, <2>1, <3>1, <3>2, ReadEntryType DEF ReadAhead, EndTrigger
  <2>2. CASE tar' = NoTar /\ UNCHANGED <<valid, next>>
    <3>1. NoTar \in Places
      BY DEF Places
    <3> QED
      BY <1>1, <1>3, <2>2, <3>1 DEF ReadAhead, EndTrigger
  <2>3. CASE ReadNothing
    BY <1>1, <1>3, <2>3 DEF ReadNothing, ReadAhead, EndTrigger
  <2> QED
    BY <1>3, <2>1, <2>2, <2>3 DEF ReadTar, ReadTarAt
<1> QED
  BY <1>2, <1>3 DEF ReadAhead

LEMMA TypeStep == TypeInv /\ [Next]_vars => TypeInv'
<1> SUFFICES ASSUME TypeInv, [Next]_vars
             PROVE  TypeInv'
  OBVIOUS
<1>0. Len(pcdFiles) \in Nat /\ MaxRewinds \in Nat
  BY PlaylistType, PlaylistAssumption DEF TypeInv
<1> USE <1>0 DEF TypeInv, TypeOK, OnList, CallerVars, config, readerVars, history, triggerVars,
        MutexFree, NotifyAll, TimerGoto, TimerPlaces
<1>1. CASE TimerRuns
  BY <1>1, SMTT(40)
  DEF TimerRuns, BeginCallbacks, BeginTrigger, CheckQuit, WaitForStart, Timeout, LeaveWait, Places
<1>2. CASE Publish
  <2>1. published' \in Seq(Nat \X Nat)
    BY <1>2, AppendProperties DEF Publish
  <2> QED
    BY <1>2, <2>1 DEF Publish, Places
<1>3. CASE ReadAhead
  <2>1. /\ tar' \in Places /\ valid' \in BOOLEAN /\ next' \in Nat \X Nat
        /\ UNCHANGED <<config, iterator>>
        /\ step' = "idle" \/ (step' = "advance" /\ fileRead' = iterator
                                /\ iterator \in 1 .. Len(pcdFiles))
    BY <1>3, ReadAheadType
  <2>2. tar' \in [file : 0 .. Len(pcdFiles), entry : Nat]
    BY <2>1, SMTT(40) DEF Places, NoTar
  <2>3. UNCHANGED <<running, quit>> /\ timer' \in TimerPlaces
    BY <1>3 DEF ReadAhead, EndTrigger, EndCallbacks
  <2>4. UNCHANGED <<grabberRunning, published, rewinds, rewound>>
    BY <1>3 DEF ReadAhead
  <2>5. OnList'
    BY <2>1 DEF Places
  <2> QED
    BY <2>1, <2>2, <2>3, <2>4, <2>5
<1>4. CASE Advance
  <2>1. iterator' \in 1 .. (Len(pcdFiles) + 1)
    BY <1>4 DEF Advance, PastEnd
  <2>2. UNCHANGED <<running, quit>> /\ timer' \in TimerPlaces /\ step' = "idle"
    BY <1>4 DEF Advance, EndTrigger, EndCallbacks
  <2> QED
    BY <1>4, <2>1, <2>2 DEF Advance, Places
<1>5. CASE Spurious
  BY <1>5 DEF Spurious, SpuriousWakeup, Places
<1>6. CASE StartStream
  BY <1>6 DEF StartStream, Start, Places
<1>7. CASE StopStream
  <2>1. UNCHANGED <<config, readerVars, history>>
    BY <1>7 DEF StopStream
  <2>2. /\ running' = FALSE /\ grabberRunning' = FALSE /\ quit' = quit
        /\ timer' \in {timer, "wakeup"}
        /\ step' = step
    BY <1>7 DEF StopStream, Stop
  <2>3. timer' \in TimerPlaces /\ running' \in BOOLEAN /\ grabberRunning' \in BOOLEAN
    BY <2>2
  <2>4. OnList'
    <3>1. /\ pcdFiles' = pcdFiles /\ streaming' = streaming /\ repeat' = repeat
          /\ tar' = tar /\ fileRead' = fileRead /\ iterator' = iterator
      BY <1>7 DEF StopStream
    <3>2. Places' = Places
      BY <3>1 DEF Places
    <3> QED
      BY <2>2, <3>1, <3>2
  <2> QED
    BY <2>1, <2>2, <2>3, <2>4
<1>8. CASE StartManual
  BY <1>8 DEF StartManual, BeginTrigger, Places
<1>9. CASE Rewind
  <2>1. Len(published) \in Nat /\ tar.file \in Nat  BY LenProperties
  <2>2. rewound' \in [after : Nat, in : Nat]  BY <1>9, <2>1 DEF Rewind, ToBePublished
  <2> QED  BY <1>9, <2>2 DEF Rewind, Places
<1>10. CASE DestroyGrabber
  BY <1>10 DEF DestroyGrabber, Destroy, Places
<1>11. CASE UNCHANGED vars
  BY <1>11 DEF vars, Places
<1> QED
  BY <1>1, <1>2, <1>3, <1>4, <1>5, <1>6, <1>7, <1>8, <1>9, <1>10, <1>11 DEF Next, TriggerRuns

(* Whatever rewind() does to pcd_iterator_ between the reading of a file   *)
(* and its increment, the iterator stays on the list or at its end.        *)
THEOREM TypeCorrect == Spec => []TypeOK
<1>1. Spec => []TypeInv
  BY TypeInit, TypeStep, PTL DEF Spec
<1>2. TypeInv => TypeOK
  BY DEF TypeInv
<1> QED
  BY <1>1, <1>2, PTL

(* After stop() has returned, no callback of the trigger runs or begins.   *)
THEOREM StoppedTriggerSilent == Spec => []CallsOnlyWhileRunning
<1>1. Spec => []StopInv
  BY StopInit, StopStep, PTL DEF Spec
<1>2. StopInv => CallsOnlyWhileRunning
  BY DEF StopInv
<1> QED
  BY <1>1, <1>2, PTL

(* Each step of a streamed trigger() is made with condition_mutex_ held,   *)
(* so that neither stop() nor the destructor returns in the middle of it.  *)
THEOREM StreamedUnderMutex == Spec => []TriggerUnderMutex
<1>1. Spec => []StopInv
  BY StopInit, StopStep, PTL DEF Spec
<1>2. StopInv => TriggerUnderMutex
  BY DEF StopInv
<1> QED
  BY <1>1, <1>2, PTL

-----------------------------------------------------------------------------
(* Entry e of file f is played, as Clouds has it. *)
Plays(f, e) ==
    \/ pcdFiles[f].kind = "pcd" /\ e = 1
    \/ /\ pcdFiles[f].kind = "tar"
       /\ e \in 1 .. Len(pcdFiles[f].entries)
       /\ IsCloud(f, e) /\ \A k \in 1 .. e - 1 : Passed(f, k)

(* What was published last, and the last cloud that was read. *)
Last == IF published = <<>> THEN NoCloud ELSE published[Len(published)]
Cur == IF valid THEN next ELSE Last

(* Where readAhead() reads next.  Until the iterator is advanced it names  *)
(* the file that was read.                                                 *)
Pos == IF tar # NoTar THEN <<tar.file, tar.entry>>
       ELSE IF step = "advance" THEN <<iterator + 1, 1>> ELSE <<iterator, 1>>

(* No cloud of the list is between a and p, or when it is repeated between *)
(* a and its end and between its beginning and p.                          *)
Ahead(a, p) ==
    \/ Before(a, p) /\ \A d \in Clouds : Before(a, d) => ~Before(d, p)
    \/ repeat /\ \A d \in Clouds : ~Before(a, d) /\ ~Before(d, p)

(* The archive that is open was played so far, and the file after it on    *)
(* the list is the one to be read next from there.                         *)
ArchiveOpen ==
    tar # NoTar =>
        /\ pcdFiles[tar.file].kind = "tar" /\ valid /\ next = <<tar.file, tar.entry - 1>>
        /\ iterator = IF step = "advance" THEN tar.file ELSE PastEnd(tar.file)

(* The cloud published last is not the one before it once more. *)
Fresh == Len(published) > 1 => Last = Successor(published[Len(published) - 1])

(* What is to be published is the cloud after the one published last, or   *)
(* once more the last one of an archive that is closed.                    *)
Pending ==
    /\ step = "read" /\ valid => published # <<>> /\ next = Last
    /\ step = "read" /\ tar # NoTar => Fresh
    /\ step # "read" /\ valid =>
          \/ Ahead(Last, next)
          \/ published # <<>> /\ next = Last /\ tar = NoTar /\ Twice(next) /\ Fresh

OrderInv ==
    /\ step = "advance" => fileRead = iterator
    /\ valid => next \in Clouds
    /\ published # <<>> => Last \in Clouds
    /\ Ahead(Cur, Pos) /\ ArchiveOpen /\ Pending

PlayInv == rewinds = 0 => OrderInv /\ PlayedInOrder

LEMMA FileType ==
    ASSUME OnList, NEW f \in 1 .. Len(pcdFiles)
    PROVE  pcdFiles[f].kind = "tar" =>
              Len(pcdFiles[f].entries) \in Nat /\ pcdFiles[f].entries \in Seq(Entries)
<1> DEFINE Files == [kind : {"pcd", "unreadable"}] \union Archives
<1>1. pcdFiles \in Seq(Files)  BY PlaylistAssumption DEF OnList
<1>2. pcdFiles[f] \in Files
  <2> HIDE DEF Files
  <2> QED  BY <1>1, ElementOfSeq
<1>3. pcdFiles[f].kind = "tar" => pcdFiles[f] \in Archives  BY <1>2
<1>4. pcdFiles[f] \in Archives => pcdFiles[f].entries \in Seq(Entries)  BY DEF Archives
<1> QED  BY <1>3, <1>4, LenProperties

(* The clouds are the places that are played. *)
LEMMA CloudPlaces ==
    ASSUME OnList
    PROVE  /\ \A c \in Clouds : c[1] \in 1 .. Len(pcdFiles) /\ c[2] \in Nat /\ c[2] >= 1
                                /\ c = <<c[1], c[2]>> /\ Plays(c[1], c[2])
           /\ \A f \in 1 .. Len(pcdFiles), e \in Nat : Plays(f, e) => <<f, e>> \in Clouds
<1> DEFINE Of(f) == CASE pcdFiles[f].kind = "pcd" -> {<<f, 1>>}
                      [] pcdFiles[f].kind = "tar" ->
                           {<<f, e>> : e \in {n \in 1 .. Len(pcdFiles[f].entries) :
                                                IsCloud(f, n) /\ \A k \in 1 .. n - 1 : Passed(f, k)}}
                      [] OTHER -> {}
<1>1. Clouds = UNION {Of(f) : f \in 1 .. Len(pcdFiles)}  BY DEF Clouds
<1>2. ASSUME NEW f \in 1 .. Len(pcdFiles)
      PROVE  Of(f) = {<<f, e>> : e \in {n \in Nat : Plays(f, n)}}
  <2>1. pcdFiles[f].kind = "tar" => Len(pcdFiles[f].entries) \in Nat  BY FileType
  <2>2. CASE pcdFiles[f].kind = "pcd"
    <3>1. Of(f) = {<<f, 1>>}  BY <2>2
    <3>2. {n \in Nat : Plays(f, n)} = {1}  BY <2>2 DEF Plays
    <3> QED  BY <3>1, <3>2
  <2>3. CASE pcdFiles[f].kind = "tar"
    <3>1. Of(f) = {<<f, e>> : e \in {n \in 1 .. Len(pcdFiles[f].entries) :
                                        IsCloud(f, n) /\ \A k \in 1 .. n - 1 : Passed(f, k)}}
      BY <2>3
    <3>2. {n \in Nat : Plays(f, n)} = {n \in 1 .. Len(pcdFiles[f].entries) :
                                        IsCloud(f, n) /\ \A k \in 1 .. n - 1 : Passed(f, k)}
      BY <2>1, <2>3 DEF Plays
    <3> QED  BY <3>1, <3>2
  <2>4. CASE pcdFiles[f].kind \notin {"pcd", "tar"}
    <3>1. Of(f) = {}  BY <2>4
    <3>2. {n \in Nat : Plays(f, n)} = {}  BY <2>4 DEF Plays
    <3> QED  BY <3>1, <3>2
  <2> QED  BY <2>2, <2>3, <2>4
<1> HIDE DEF Of
<1>3. \A f \in 1 .. Len(pcdFiles), e \in Nat : Plays(f, e) => <<f, e>> \in Clouds
  BY <1>1, <1>2
<1>4. ASSUME NEW c \in Clouds
      PROVE  c[1] \in 1 .. Len(pcdFiles) /\ c[2] \in Nat /\ c[2] >= 1
             /\ c = <<c[1], c[2]>> /\ Plays(c[1], c[2])
  <2>1. PICK f \in 1 .. Len(pcdFiles) : c \in Of(f)  BY <1>1
  <2>2. PICK e \in Nat : c = <<f, e>> /\ Plays(f, e)  BY <1>2, <2>1
  <2>3. pcdFiles[f].kind = "tar" => Len(pcdFiles[f].entries) \in Nat  BY FileType
  <2>4. e >= 1  BY <2>2, <2>3 DEF Plays
  <2> QED  BY <2>2, <2>4
<1> QED  BY <1>3, <1>4

(* A cloud that is read ahead is the one that comes next, and without      *)
(* repetition it is not before the cloud it comes after.                   *)
LEMMA AheadIsNext ==
    ASSUME OnList, NEW a \in Nat \X Nat, NEW c \in Clouds, Ahead(a, c)
    PROVE  /\ c = Successor(a) /\ (a = NoCloud => c = First)
           /\ repeat \/ ~Before(c, a)
<1>1. \A d \in Clouds : /\ d[1] \in Nat /\ d[2] \in Nat /\ d[1] >= 1 /\ d = <<d[1], d[2]>>
  BY PlaylistType, CloudPlaces
<1>2. a[1] \in Nat /\ a[2] \in Nat  OBVIOUS
<1>3. \A d \in Clouds : ~Before(d, c) => c = d \/ Before(c, d)
  <2> SUFFICES ASSUME NEW d \in Clouds, ~Before(d, c), ~Before(c, d) PROVE c = d
    OBVIOUS
  <2>1. c[1] = d[1] /\ c[2] = d[2]  BY <1>1 DEF Before
  <2> QED  BY <1>1, <2>1
<1>4. \A d \in Clouds : Before(c, d) => ~Before(d, c)
  BY <1>1 DEF Before
<1>5. ~Before(c, c)  BY <1>1 DEF Before
<1>6. ASSUME \A d \in Clouds : ~Before(d, c)
      PROVE  c = First
  <2>1. \A d \in Clouds : c = d \/ Before(c, d)  BY <1>3, <1>6
  <2>2. First \in Clouds /\ \A d \in Clouds : First = d \/ Before(First, d)
    BY <2>1, Zenon DEF First
  <2> QED  BY <1>6, <2>2
<1>7. CASE Before(a, c) /\ \A d \in Clouds : Before(a, d) => ~Before(d, c)
  <2>1. c = Successor(a)
    <3> DEFINE After(b) == Before(a, b) /\ \A d \in Clouds : Before(a, d) => b = d \/ Before(b, d)
    <3>1. After(c)  BY <1>3, <1>7
    <3>2. Successor(a) = CHOOSE b \in Clouds : After(b)
      BY <1>7 DEF Successor
    <3>3. Successor(a) \in Clouds /\ After(Successor(a))
      <4> HIDE DEF After
      <4> QED  BY <3>1, <3>2, Zenon
    <3> QED  BY <1>7, <3>3
  <2>2. a = NoCloud => c = First
    <3> SUFFICES ASSUME a = NoCloud PROVE c = First
      OBVIOUS
    <3>1. \A d \in Clouds : Before(a, d)
      BY <1>1 DEF Before, NoCloud
    <3> QED  BY <1>6, <1>7, <3>1
  <2>3. ~Before(c, a)  BY <1>1, <1>2, <1>7 DEF Before
  <2> QED  BY <2>1, <2>2, <2>3
<1>8. CASE repeat /\ \A d \in Clouds : ~Before(a, d) /\ ~Before(d, c)
  <2>1. c = First  BY <1>6, <1>8
  <2>2. Successor(a) = First  BY <1>8 DEF Successor
  <2> QED  BY <1>8, <2>1, <2>2
<1> QED  BY <1>7, <1>8 DEF Ahead

(* When the rest of a file has no cloud, the next one is in a later file.  *)
LEMMA SkipRest ==
    ASSUME OnList, NEW a \in Nat \X Nat, NEW f \in 1 .. Len(pcdFiles), NEW e \in Nat,
           Ahead(a, <<f, e>>), \A k \in Nat : k >= e => ~Plays(f, k)
    PROVE  Ahead(a, <<f + 1, 1>>)
<1>1. \A d \in Clouds : d[1] \in Nat /\ d[2] \in Nat /\ d[2] >= 1 /\ Plays(d[1], d[2])
  BY PlaylistType, CloudPlaces
<1>2. f \in Nat /\ a[1] \in Nat /\ a[2] \in Nat  BY PlaylistType
<1>3. ASSUME NEW d \in Clouds, Before(d, <<f + 1, 1>>)
      PROVE  Before(d, <<f, e>>)
  <2>1. d[1] <= f  BY <1>1, <1>2, <1>3 DEF Before
  <2>2. CASE d[1] = f  BY <1>1, <1>2, <2>2 DEF Before
  <2>3. CASE d[1] < f  BY <2>3 DEF Before
  <2> QED  BY <1>1, <1>2, <2>1, <2>2, <2>3
<1>4. Before(a, <<f, e>>) => Before(a, <<f + 1, 1>>)  BY <1>2 DEF Before
<1> QED  BY <1>3, <1>4 DEF Ahead

(* The same behind the last file, where a list that is repeated begins.    *)
LEMMA WrapAround ==
    ASSUME OnList, NEW a \in Nat \X Nat, NEW f \in 1 .. Len(pcdFiles), Ahead(a, <<f + 1, 1>>)
    PROVE  Ahead(a, <<PastEnd(f), 1>>)
<1>1. \A d \in Clouds : d[1] \in Nat /\ d[1] >= 1 /\ d[1] <= Len(pcdFiles)
                        /\ d[2] \in Nat /\ d[2] >= 1
  BY PlaylistType, CloudPlaces
<1>2. Len(pcdFiles) \in Nat /\ f \in Nat  BY PlaylistType
<1>3. CASE f + 1 > Len(pcdFiles) /\ repeat
  <2>1. \A d \in Clouds : Before(d, <<f + 1, 1>>)  BY <1>1, <1>2, <1>3 DEF Before
  <2>2. \A d \in Clouds : ~Before(d, <<1, 1>>)  BY <1>1 DEF Before
  <2>3. PastEnd(f) = 1  BY <1>3 DEF PastEnd
  <2> QED  BY <1>3, <2>1, <2>2, <2>3 DEF Ahead
<1>4. CASE ~(f + 1 > Len(pcdFiles) /\ repeat)
  BY <1>4 DEF PastEnd
<1> QED  BY <1>3, <1>4

(* Behind a cloud nothing is left out before the entry that follows it.    *)
LEMMA AheadOfCloud ==
    ASSUME OnList, NEW f \in Nat, NEW e \in Nat
    PROVE  Ahead(<<f, e>>, <<f, e + 1>>)
<1>1. \A d \in Clouds : d[1] \in Nat /\ d[2] \in Nat  BY PlaylistType, CloudPlaces
<1>2. Before(<<f, e>>, <<f, e + 1>>)  BY DEF Before
<1>3. \A d \in Clouds : Before(<<f, e>>, d) => ~Before(d, <<f, e + 1>>)
  BY <1>1 DEF Before
<1> QED  BY <1>2, <1>3 DEF Ahead

(* The list and its order are those of the constructor. *)
LEMMA SameList ==
    ASSUME UNCHANGED config
    PROVE  /\ Clouds' = Clouds /\ First' = First
           /\ \A a, p : Ahead(a, p)' <=> Ahead(a, p)
           /\ \A a : Successor(a)' = Successor(a)
           /\ \A c : Twice(c)' <=> Twice(c)
<1>1. pcdFiles' = pcdFiles /\ repeat' = repeat  BY DEF config
<1>2. Clouds' = Clouds
  <2>1. \A f, e : (IsCloud(f, e)' <=> IsCloud(f, e)) /\ (Passed(f, e)' <=> Passed(f, e))
    BY <1>1 DEF IsCloud, Passed, Missed
  <2> QED  BY <1>1, <2>1 DEF Clouds
<1>3. First' = First  BY <1>2 DEF First
<1>4. \A a, p : Ahead(a, p)' <=> Ahead(a, p)  BY <1>1, <1>2 DEF Ahead
<1>5. \A a : Successor(a)' = Successor(a)  BY <1>2, <1>3 DEF Successor
<1>6. \A c : Twice(c)' <=> Twice(c)
  BY <1>1 DEF Twice, HeaderAccepted, NextEntry, Missed
<1> QED  BY <1>2, <1>3, <1>4, <1>5, <1>6

LEMMA OrderKept ==
    ASSUME UNCHANGED <<config, published, rewinds>>, PlayedInOrder
    PROVE  PlayedInOrder'
<1>1. First' = First /\ (\A a : Successor(a)' = Successor(a)) /\ \A c : Twice(c)' <=> Twice(c)
  BY SameList DEF config
<1>2. pcdFiles' = pcdFiles /\ repeat' = repeat /\ published' = published /\ rewinds' = rewinds
  BY DEF config
<1> QED  BY <1>1, <1>2 DEF PlayedInOrder, Before

(* Where no step of the grabber moves its place on the list. *)
LEMMA ReaderKept ==
    ASSUME UNCHANGED <<config, readerVars, fileRead, published>>, OrderInv,
           step' = step \/ (step = "idle" /\ step' = "publish")
    PROVE  OrderInv'
<1>1. /\ Clouds' = Clouds /\ \A a, p : Ahead(a, p)' <=> Ahead(a, p)
      /\ (\A a : Successor(a)' = Successor(a)) /\ \A c : Twice(c)' <=> Twice(c)
  BY SameList DEF config
<1>2. /\ pcdFiles' = pcdFiles /\ repeat' = repeat /\ published' = published /\ iterator' = iterator
      /\ tar' = tar /\ valid' = valid /\ next' = next /\ fileRead' = fileRead
  BY DEF config, readerVars
<1>3. Last' = Last /\ Cur' = Cur /\ Pos' = Pos  BY <1>2 DEF Last, Cur, Pos
<1>4. Ahead(Cur, Pos)' /\ (Ahead(Last, next)' <=> Ahead(Last, next))
  BY <1>1, <1>2, <1>3 DEF OrderInv, Ahead
<1>5. ArchiveOpen'  BY <1>2 DEF ArchiveOpen, OrderInv, PastEnd
<1>6. Fresh' <=> Fresh  BY <1>1, <1>2, <1>3 DEF Fresh
<1>7. Pending'  BY <1>1, <1>2, <1>3, <1>4, <1>6 DEF Pending, OrderInv
<1> QED  BY <1>1, <1>2, <1>3, <1>4, <1>5, <1>7 DEF OrderInv

LEMMA PlayInit == Init => PlayInv
<1> SUFFICES ASSUME Init PROVE OrderInv /\ PlayedInOrder
  BY DEF PlayInv
<1>1. OnList  BY TypeInit DEF TypeInv
<1>2. Cur = <<0, 0>> /\ Pos = <<1, 1>> /\ published = <<>>
  BY DEF Init, Cur, Last, NoCloud, Pos
<1>3. \A d \in Clouds : d[1] \in Nat /\ d[2] \in Nat /\ d[1] >= 1 /\ d[2] >= 1
  BY <1>1, PlaylistType, CloudPlaces
<1>4. Ahead(Cur, Pos)  BY <1>2, <1>3 DEF Ahead, Before
<1>5. PlayedInOrder  BY <1>2 DEF PlayedInOrder
<1> QED  BY <1>4, <1>5 DEF Init, OrderInv, ArchiveOpen, Pending

LEMMA LastType ==
    ASSUME TypeInv
    PROVE  /\ Last \in Nat \X Nat /\ Cur \in Nat \X Nat
           /\ Len(published) \in Nat /\ published \in Seq(Nat \X Nat)
           /\ published # <<>> => Len(published) >= 1 /\ Last = published[Len(published)]
<1>1. published \in Seq(Nat \X Nat) /\ next \in Nat \X Nat /\ Len(published) \in Nat
  BY LenProperties DEF TypeInv, TypeOK
<1>2. published # <<>> => Len(published) >= 1  BY <1>1, EmptySeq
<1>3. published # <<>> => published[Len(published)] \in Nat \X Nat
  BY <1>1, <1>2, ElementOfSeq
<1>4. Last \in Nat \X Nat  BY <1>3 DEF Last, NoCloud
<1> QED  BY <1>1, <1>2, <1>4 DEF Last, Cur

(* What is published comes next, or is the last of an archive again. *)
LEMMA PublishInOrder ==
    ASSUME TypeInv, OrderInv, PlayedInOrder, Publish
    PROVE  OrderInv' /\ PlayedInOrder'
<1>1. OnList /\ step = "publish" /\ step' = "read"
  BY DEF TypeInv, Publish
<1>2. /\ pcdFiles' = pcdFiles /\ repeat' = repeat /\ iterator' = iterator /\ rewinds' = rewinds
      /\ tar' = tar /\ valid' = valid /\ next' = next /\ fileRead' = fileRead
      /\ Clouds' = Clouds /\ First' = First /\ \A a, p : Ahead(a, p)' <=> Ahead(a, p)
      /\ (\A a : Successor(a)' = Successor(a)) /\ \A c : Twice(c)' <=> Twice(c)
  BY SameList DEF Publish, config, readerVars
<1>3. Pos' = Pos  BY <1>1, <1>2 DEF Pos
<1>4. ArchiveOpen'  BY <1>1, <1>2 DEF ArchiveOpen, OrderInv, PastEnd
<1>5. CASE ~valid
  <2>1. published' = published  BY <1>5 DEF Publish
  <2>2. Last' = Last /\ Cur' = Cur  BY <1>2, <2>1 DEF Last, Cur
  <2>4. tar' = NoTar  BY <1>2, <1>5 DEF OrderInv, ArchiveOpen
  <2>5. Pending'  BY <1>1, <1>2, <1>5, <2>4 DEF Pending
  <2>3. OrderInv'
    BY <1>1, <1>2, <1>3, <1>4, <1>5, <2>1, <2>2, <2>5 DEF OrderInv, Ahead
  <2> QED  BY <2>1, <2>3, OrderKept DEF Publish
<1>6. CASE valid
  <2>1. published' = Append(published, next)  BY <1>6 DEF Publish
  <2>2. /\ Len(published') = Len(published) + 1 /\ published'[Len(published) + 1] = next
        /\ \A i \in 1 .. Len(published) : published'[i] = published[i]
        /\ published' # <<>> /\ Len(published) \in Nat /\ next \in Nat \X Nat
    <3>1. published \in Seq(Nat \X Nat) /\ Len(published) \in Nat /\ next \in Nat \X Nat
      BY LastType DEF TypeInv, TypeOK
    <3> QED  BY <2>1, <3>1, AppendProperties
  <2>3. Last' = next /\ Cur' = next /\ Cur = next
    BY <1>2, <1>6, <2>2 DEF Last, Cur
  <2>5. /\ next \in Clouds
        /\ \/ Ahead(Last, next)
           \/ published # <<>> /\ next = Last /\ tar = NoTar /\ Twice(next) /\ Fresh
    BY <1>1, <1>6 DEF OrderInv, Pending
  <2>6. Last \in Nat \X Nat  BY LastType
  <2>7. ~Before(next, next)  BY <2>2 DEF Before
  <2>8. /\ Last = NoCloud /\ published = <<>> => next = First
        /\ repeat \/ ~Before(next, Last)
        /\ \/ next = Successor(Last)
           \/ published # <<>> /\ next = Last /\ tar = NoTar /\ Twice(Last) /\ Fresh
    BY <1>1, <2>5, <2>6, <2>7, AheadIsNext
  <2>11. tar # NoTar => Fresh'
    <3> SUFFICES ASSUME tar # NoTar, Len(published') > 1
                 PROVE  Last' = Successor(published[Len(published) - 1])'
      BY DEF Fresh
    <3>1. published # <<>>  BY <2>2 DEF Last
    <3>2. Len(published) >= 1 /\ Last = published[Len(published)]  BY <3>1, LastType
    <3>3. published'[Len(published') - 1] = Last  BY <2>2, <3>2
    <3> QED  BY <1>2, <2>3, <2>8, <3>3
  <2>12. Pending'  BY <1>1, <1>2, <2>2, <2>3, <2>11 DEF Pending
  <2>4. OrderInv'
    BY <1>1, <1>2, <1>3, <1>4, <1>6, <2>2, <2>3, <2>12 DEF OrderInv, Ahead
  <2>9. CASE published = <<>>
    <3>1. Len(published) = 0 /\ Last = NoCloud  BY <2>9 DEF Last
    <3>2. Len(published') = 1 /\ published'[1] = First  BY <2>2, <2>8, <2>9, <3>1
    <3> QED  BY <1>2, <2>4, <3>2 DEF PlayedInOrder
  <2>10. CASE published # <<>>
    <3>1. Len(published) >= 1 /\ Last = published[Len(published)]  BY <2>10, LastType
    <3>2. CASE rewinds = 0
      <4>1. published'[1] = First
        BY <1>2, <2>2, <2>10, <3>1, <3>2 DEF PlayedInOrder
      <4>2. ASSUME NEW i \in 1 .. Len(published') - 1
            PROVE  \/ published'[i + 1] = Successor(published'[i])
                   \/ /\ published'[i + 1] = published'[i] /\ Twice(published'[i])
                      /\ i > 1 => published'[i] = Successor(published'[i - 1])
        <5>1. CASE i = Len(published)
          <6>1. published'[i] = Last /\ published'[i + 1] = next  BY <2>2, <3>1, <5>1
          <6>2. i > 1 => published'[i - 1] = published[i - 1]  BY <2>2, <5>1
          <6> QED  BY <2>8, <5>1, <6>1, <6>2 DEF Fresh
        <5>2. CASE i # Len(published)
          <6>1. i \in 1 .. Len(published) - 1  BY <2>2, <5>2
          <6>2. published'[i] = published[i] /\ published'[i + 1] = published[i + 1]
            BY <2>2, <6>1
          <6>3. \/ published[i + 1] = Successor(published[i])
                \/ /\ published[i + 1] = published[i] /\ Twice(published[i])
                   /\ i > 1 => published[i] = Successor(published[i - 1])
            BY <3>2, <6>1 DEF PlayedInOrder
          <6>4. i > 1 => published'[i - 1] = published[i - 1]  BY <2>2, <6>1
          <6> QED  BY <6>2, <6>3, <6>4
        <5> QED  BY <5>1, <5>2
      <4>3. ASSUME ~repeat, NEW i \in 2 .. Len(published')
            PROVE  ~Before(published'[i], published'[i - 1])
        <5>1. CASE i = Len(published')
          <6>1. published'[i] = next /\ published'[i - 1] = Last
            BY <2>2, <3>1, <5>1
          <6> QED  BY <2>8, <4>3, <6>1
        <5>2. CASE i # Len(published')
          <6>1. i \in 2 .. Len(published)  BY <2>2, <5>2
          <6>2. published'[i] = published[i] /\ published'[i - 1] = published[i - 1]
            BY <2>2, <6>1
          <6>3. ~Before(published[i], published[i - 1])
            BY <3>2, <4>3, <6>1 DEF PlayedInOrder
          <6> QED  BY <6>2, <6>3
        <5> QED  BY <5>1, <5>2
      <4> QED  BY <1>2, <2>4, <4>1, <4>2, <4>3 DEF PlayedInOrder, Before
    <3>3. CASE rewinds # 0  BY <1>2, <2>4, <3>3 DEF PlayedInOrder
    <3> QED  BY <3>2, <3>3
  <2> QED  BY <2>9, <2>10
<1> QED  BY <1>5, <1>6

(* An entry that is a cloud is kept, and nothing is left out behind it.    *)
LEMMA CloudRead ==
    ASSUME OnList, NEW f \in 1 .. Len(pcdFiles), NEW e \in Nat, Plays(f, e)
    PROVE  /\ <<f, e>> \in Clouds /\ Ahead(<<f, e>>, <<f, e + 1>>)
           /\ pcdFiles[f].kind = "pcd" => Ahead(<<f, e>>, <<f + 1, 1>>)
<1>1. f \in Nat  BY PlaylistType
<1>2. <<f, e>> \in Clouds /\ Ahead(<<f, e>>, <<f, e + 1>>)
  BY <1>1, CloudPlaces, AheadOfCloud
<1>3. ASSUME pcdFiles[f].kind = "pcd"
      PROVE  Ahead(<<f, e>>, <<f + 1, 1>>)
  <2>1. \A k \in Nat : k >= e + 1 => ~Plays(f, k)  BY <1>3 DEF Plays
  <2>2. <<f, e>> \in Nat \X Nat /\ e + 1 \in Nat  BY <1>1
  <2> QED  BY <1>2, <2>1, <2>2, SkipRest
<1> QED  BY <1>2, <1>3

(* What readAhead() reads at the beginning of an archive, or behind a      *)
(* cloud of it, is the archive's next cloud, and when it is none nothing   *)
(* more of the archive is played.                                          *)
LEMMA NextOfArchive ==
    ASSUME OnList, NEW f \in 1 .. Len(pcdFiles), NEW e \in Nat, pcdFiles[f].kind = "tar",
           e = 1 \/ (e >= 2 /\ Plays(f, e - 1))
    PROVE  /\ HeaderAccepted(f, e) /\ IsCloud(f, NextEntry(f, e)) => Plays(f, NextEntry(f, e))
           /\ NextEntry(f, e) \in {e, e + 1} /\ (NextEntry(f, e) = e + 1 => ~Plays(f, e))
           /\ ~(HeaderAccepted(f, e) /\ IsCloud(f, NextEntry(f, e)))
                => \A k \in Nat : k >= e => ~Plays(f, k)
<1> DEFINE n == Len(pcdFiles[f].entries)
           entry(k) == pcdFiles[f].entries[k]
           h == NextEntry(f, e)
<1>1. n \in Nat /\ DOMAIN pcdFiles[f].entries = 1 .. n
  BY FileType, LenProperties
<1>2. \A k \in Nat : IsCloud(f, k) <=> k <= n /\ entry(k) \in {"cloud", "fullCloud"}
  BY DEF IsCloud
<1>3. \A k \in Nat : Missed(f, k) <=> k - 1 \in 1 .. n /\ entry(k - 1) = "fullCloud"
  BY <1>1 DEF Missed
<1>4. \A k \in Nat : Plays(f, k) <=> k \in 1 .. n /\ IsCloud(f, k) /\ \A j \in 1 .. k - 1 : Passed(f, j)
  BY DEF Plays
<1>5. \A k \in Nat : Passed(f, k) <=> \/ entry(k) = "cloud"
                                      \/ entry(k) = "fullCloud" /\ entry(k + 1) = "empty"
                                      \/ entry(k) = "empty" /\ Missed(f, k)
  BY DEF Passed
<1>6. \A j \in 1 .. e - 2 : Passed(f, j)
  BY <1>1, <1>4
<1>7. e >= 2 => e - 1 \in 1 .. n /\ entry(e - 1) \in {"cloud", "fullCloud"}
  BY <1>1, <1>2, <1>4
<1>8. HeaderAccepted(f, e) <=>
        /\ Missed(f, e) /\ e <= n => entry(e) = "empty"
        /\ IF h <= n THEN entry(h) \notin {"notRegular", "empty"}
           ELSE pcdFiles[f].end = "cut" /\ e > 1
  BY DEF HeaderAccepted
<1>9. \A k, j \in Nat : Plays(f, k) /\ 1 <= j /\ j < k => Passed(f, j)
  BY <1>4
<1> HIDE DEF n, entry
<1>10. CASE ~Missed(f, e)
  <2>1. h = e  BY <1>10 DEF NextEntry
  <2>2. e >= 2 => entry(e - 1) = "cloud"  BY <1>3, <1>7, <1>10
  <2>3. \A j \in 1 .. e - 1 : Passed(f, j)
    <3> SUFFICES ASSUME NEW j \in 1 .. e - 1 PROVE Passed(f, j)
      OBVIOUS
    <3>1. CASE j = e - 1  BY <1>5, <2>2, <3>1
    <3>2. CASE j # e - 1  BY <1>6, <3>2
    <3> QED  BY <3>1, <3>2
  <2>4. IsCloud(f, e) => Plays(f, e)
    <3>1. IsCloud(f, e) => e \in 1 .. n  BY <1>1, <1>2
    <3> QED  BY <1>4, <2>3, <3>1
  <2>5. ASSUME ~(HeaderAccepted(f, e) /\ IsCloud(f, e)), NEW k \in Nat, k >= e, Plays(f, k)
        PROVE  FALSE
    <3>1. k \in 1 .. n /\ e <= n  BY <1>1, <1>4, <2>5
    <3>2. ~IsCloud(f, e)
      <4> SUFFICES ASSUME IsCloud(f, e) PROVE HeaderAccepted(f, e)
        BY <2>5
      <4>1. entry(e) \in {"cloud", "fullCloud"}  BY <1>2
      <4> QED  BY <1>8, <1>10, <2>1, <3>1, <4>1
    <3>3. k # e  BY <1>4, <2>5, <3>2
    <3>4. Passed(f, e)  BY <1>9, <2>5, <3>3
    <3> QED  BY <1>2, <1>5, <1>10, <3>1, <3>2, <3>4
  <2> QED  BY <2>1, <2>4, <2>5
<1>11. CASE Missed(f, e)
  <2>1. h = e + 1 /\ e >= 2 /\ entry(e - 1) = "fullCloud"  BY <1>3, <1>11 DEF NextEntry
  <2>2. CASE e <= n /\ entry(e) = "empty"
    <3>1. Passed(f, e)  BY <1>5, <1>11, <2>2
    <3>2. Passed(f, e - 1)
      <4>1. e - 1 \in Nat /\ (e - 1) + 1 = e  BY <2>1
      <4> QED  BY <1>5, <2>1, <2>2, <4>1
    <3>3. \A j \in 1 .. (e + 1) - 1 : Passed(f, j)
      <4> SUFFICES ASSUME NEW j \in 1 .. (e + 1) - 1 PROVE Passed(f, j)
        OBVIOUS
      <4>1. CASE j = e  BY <3>1, <4>1
      <4>2. CASE j = e - 1  BY <3>2, <4>2
      <4>3. CASE j # e /\ j # e - 1  BY <1>6, <4>3
      <4> QED  BY <4>1, <4>2, <4>3
    <3>4. IsCloud(f, e + 1) => Plays(f, e + 1)
      <4>1. IsCloud(f, e + 1) => e + 1 \in 1 .. n  BY <1>1, <1>2
      <4> QED  BY <1>4, <3>3, <4>1
    <3>5. ~IsCloud(f, e) /\ ~Plays(f, e)  BY <1>2, <1>4, <2>2
    <3>6. ASSUME ~(HeaderAccepted(f, e) /\ IsCloud(f, e + 1)), NEW k \in Nat, k >= e, Plays(f, k)
          PROVE  FALSE
      <4>1. k \in 1 .. n /\ k # e  BY <1>4, <3>5, <3>6
      <4>2. e + 1 <= n  BY <1>1, <3>6, <4>1
      <4>3. ~IsCloud(f, e + 1)
        <5> SUFFICES ASSUME IsCloud(f, e + 1) PROVE HeaderAccepted(f, e)
          BY <3>6
        <5>1. entry(e + 1) \in {"cloud", "fullCloud"}  BY <1>2
        <5> QED  BY <1>8, <2>1, <2>2, <4>2, <5>1
      <4>4. k # e + 1  BY <1>4, <3>6, <4>3
      <4>5. Passed(f, e + 1)  BY <1>9, <3>6, <4>1, <4>4
      <4>6. ~Missed(f, e + 1)
        <5>1. Missed(f, e + 1) => entry(e) = "fullCloud"  BY DEF Missed, entry
        <5> QED  BY <2>2, <5>1
      <4> QED  BY <1>2, <1>5, <4>2, <4>3, <4>5, <4>6
    <3> QED  BY <2>1, <3>4, <3>5, <3>6
  <2>3. CASE ~(e <= n /\ entry(e) = "empty")
    <3>1. ASSUME NEW k \in Nat, k >= e, Plays(f, k)
          PROVE  FALSE
      <4>1. e <= n  BY <1>1, <1>4, <3>1
      <4>2. Passed(f, e - 1)  BY <1>9, <2>1, <3>1
      <4>3. e - 1 \in Nat /\ (e - 1) + 1 = e  BY <2>1
      <4> QED  BY <1>5, <2>1, <2>3, <4>1, <4>2, <4>3
    <3>2. ~(HeaderAccepted(f, e) /\ IsCloud(f, h))
      <4>1. HeaderAccepted(f, e) => e > n  BY <1>1, <1>8, <1>11, <2>3
      <4> QED  BY <1>1, <1>2, <2>1, <4>1
    <3> QED  BY <2>1, <3>1, <3>2
  <2> QED  BY <2>2, <2>3
<1> QED  BY <1>10, <1>11

(* What the branch for the next file of the list finds: a file that is a   *)
(* cloud, an archive that begins with one, or nothing that is played.      *)
LEMMA FileRead ==
    ASSUME OnList, NEW i \in 1 .. Len(pcdFiles), iterator = i, ReadFile
    PROVE  \/ pcdFiles[i].kind = "pcd" /\ Plays(i, 1) /\ valid' = TRUE /\ next' = <<i, 1>> /\ tar' = NoTar
           \/ /\ pcdFiles[i].kind = "tar" /\ Plays(i, 1) /\ valid' = TRUE /\ next' = <<i, 1>>
              /\ tar' # NoTar /\ tar'.file = i /\ tar'.entry = 2
           \/ valid' = FALSE /\ tar' = NoTar /\ \A k \in Nat : k >= 1 => ~Plays(i, k)
<1>1. tar = NoTar /\ i \in Nat /\ i # 0 /\ Len(pcdFiles) \in Nat  BY PlaylistType DEF ReadFile
<1>2. CASE pcdFiles[i].kind = "pcd" /\ valid' = TRUE /\ next' = <<i, 1>> /\ UNCHANGED tar
  BY <1>1, <1>2 DEF Plays
<1>3. CASE pcdFiles[i].kind = "unreadable" /\ valid' = FALSE /\ UNCHANGED tar
  BY <1>1, <1>3 DEF Plays
<1>4. CASE pcdFiles[i].kind = "tar"
  <2>1. NextEntry(i, 1) = 1
    <3>1. ~Missed(i, 1)  BY <1>4, FileType, LenProperties DEF Missed
    <3> QED  BY <3>1 DEF NextEntry
  <2>2. /\ HeaderAccepted(i, 1) /\ IsCloud(i, 1) => Plays(i, 1)
        /\ ~(HeaderAccepted(i, 1) /\ IsCloud(i, 1)) => \A k \in Nat : k >= 1 => ~Plays(i, k)
    BY <1>4, <2>1, NextOfArchive
  <2>3. CASE HeaderAccepted(i, 1) /\ ReadEntry(i, 1) /\ IsCloud(i, 1)
    <3>1. valid' = TRUE /\ next' = <<i, 1>> /\ tar' = [file |-> i, entry |-> 2]
      BY <2>3 DEF ReadEntry
    <3>2. tar' # NoTar /\ tar'.file = i /\ tar'.entry = 2  BY <1>1, <3>1 DEF NoTar
    <3> QED  BY <1>4, <2>2, <2>3, <3>1, <3>2
  <2>4. CASE HeaderAccepted(i, 1) /\ ReadEntry(i, 1) /\ ~IsCloud(i, 1)
    <3>1. valid' = FALSE /\ tar' = NoTar  BY <2>4 DEF ReadEntry
    <3> QED  BY <2>2, <2>4, <3>1
  <2>5. CASE ~HeaderAccepted(i, 1) /\ valid' = FALSE /\ UNCHANGED <<tar, next>>
    BY <1>1, <2>2, <2>5
  <2> QED  BY <1>4, <2>3, <2>4, <2>5 DEF ReadFile
<1> QED  BY <1>2, <1>3, <1>4 DEF ReadFile

(* What the branch inside an archive finds: the archive's next cloud, or   *)
(* nothing that is played; then the archive is closed, and where a header  *)
(* was rejected the cloud read before is kept.                             *)
LEMMA TarRead ==
    ASSUME OnList, NEW f \in 1 .. Len(pcdFiles), NEW e \in Nat,
           tar # NoTar, tar.file = f, tar.entry = e, pcdFiles[f].kind = "tar",
           e >= 2, Plays(f, e - 1), ReadTar
    PROVE  \/ \E h \in {e, e + 1} :
                /\ Plays(f, h) /\ (h = e + 1 => ~Plays(f, e))
                /\ valid' = TRUE /\ next' = <<f, h>>
                /\ tar' # NoTar /\ tar'.file = f /\ tar'.entry = h + 1
           \/ /\ tar' = NoTar /\ \A k \in Nat : k >= e => ~Plays(f, k)
              /\ valid' = FALSE \/ (UNCHANGED <<valid, next>> /\ ~HeaderAccepted(f, e))
<1> DEFINE h == NextEntry(f, e)
<1>1. /\ HeaderAccepted(f, e) /\ IsCloud(f, h) => Plays(f, h)
      /\ h \in {e, e + 1} /\ (h = e + 1 => ~Plays(f, e))
      /\ ~(HeaderAccepted(f, e) /\ IsCloud(f, h)) => \A k \in Nat : k >= e => ~Plays(f, k)
  BY NextOfArchive
<1> HIDE DEF h
<1>2. CASE HeaderAccepted(f, e) /\ ReadEntry(f, h) /\ IsCloud(f, h)
  <2>1. valid' = TRUE /\ next' = <<f, h>> /\ tar' = [file |-> f, entry |-> h + 1]
    BY <1>2 DEF ReadEntry
  <2>2. tar' # NoTar /\ tar'.file = f /\ tar'.entry = h + 1
    BY <2>1, PlaylistType DEF NoTar
  <2> QED  BY <1>1, <1>2, <2>1, <2>2
<1>3. CASE HeaderAccepted(f, e) /\ ReadEntry(f, h) /\ ~IsCloud(f, h)
  <2>1. valid' = FALSE /\ tar' = NoTar  BY <1>3 DEF ReadEntry
  <2> QED  BY <1>1, <1>3, <2>1
<1>4. CASE ~HeaderAccepted(f, e) /\ tar' = NoTar /\ UNCHANGED <<valid, next>>
  BY <1>1, <1>4
<1> QED  BY <1>2, <1>3, <1>4 DEF ReadTar, ReadTarAt, h

(* Where the entry that is next is not played, it can be passed over.      *)
LEMMA SkipEntry ==
    ASSUME OnList, NEW a \in Nat \X Nat, NEW f \in 1 .. Len(pcdFiles), NEW e \in Nat,
           Ahead(a, <<f, e>>), ~Plays(f, e)
    PROVE  Ahead(a, <<f, e + 1>>)
<1>1. \A d \in Clouds : d[1] \in Nat /\ d[2] \in Nat /\ Plays(d[1], d[2])
  BY PlaylistType, CloudPlaces
<1>2. f \in Nat /\ a[1] \in Nat /\ a[2] \in Nat  BY PlaylistType
<1>3. ASSUME NEW d \in Clouds, Before(d, <<f, e + 1>>)
      PROVE  Before(d, <<f, e>>)
  <2>1. ~(d[1] = f /\ d[2] = e)  BY <1>1
  <2> QED  BY <1>1, <1>2, <1>3, <2>1 DEF Before
<1>4. Before(a, <<f, e>>) => Before(a, <<f, e + 1>>)  BY <1>2 DEF Before
<1> QED  BY <1>3, <1>4 DEF Ahead

(* Where an archive is open, a cloud of it was read and the next place in  *)
(* it is the one behind.                                                   *)
LEMMA InArchive ==
    ASSUME TypeInv, tar # NoTar, pcdFiles[tar.file].kind = "tar",
           next = <<tar.file, tar.entry - 1>>, next \in Clouds
    PROVE  /\ tar.file \in 1 .. Len(pcdFiles) /\ tar.file \in Nat
           /\ tar.entry \in Nat /\ tar.entry >= 2
           /\ Plays(tar.file, tar.entry - 1)
<1>1. tar.file \in 1 .. Len(pcdFiles) /\ tar.entry \in Nat /\ OnList
  BY DEF TypeInv, OnList, Places
<1>2. Plays(tar.file, tar.entry - 1) /\ tar.entry - 1 >= 1  BY <1>1, CloudPlaces
<1> QED  BY <1>1, <1>2, PlaylistType

(* readAhead() keeps the order, whichever branch it takes. *)
LEMMA ReadInOrder ==
    ASSUME TypeInv, OrderInv, ReadAhead
    PROVE  OrderInv'
<1>1. /\ OnList /\ step = "read" /\ Cur = Last /\ Last \in Nat \X Nat /\ Cur \in Nat \X Nat
      /\ iterator \in 1 .. Len(pcdFiles) + 1 /\ Len(pcdFiles) \in Nat /\ iterator \in Nat
      /\ tar \in Places
  BY LastType, PlaylistType DEF TypeInv, TypeOK, OnList, ReadAhead, OrderInv, Pending, Cur
<1>2. /\ pcdFiles' = pcdFiles /\ repeat' = repeat /\ iterator' = iterator /\ published' = published
      /\ Clouds' = Clouds /\ \A a, p : Ahead(a, p)' <=> Ahead(a, p)
      /\ (\A a : Successor(a)' = Successor(a)) /\ \A c : Twice(c)' <=> Twice(c)
  BY SameList DEF ReadAhead, config, history
<1>3. Last' = Last  BY <1>2 DEF Last
<1>4. \A f : PastEnd(f)' = PastEnd(f)  BY <1>2 DEF PastEnd
<1>5. Fresh' <=> Fresh  BY <1>2, <1>3 DEF Fresh
<1>6. published # <<>> => Last \in Clouds  BY DEF OrderInv
<1>7. CASE ReadFile /\ step' = "advance" /\ fileRead' = iterator
  <2> DEFINE i == iterator
  <2>1. tar = NoTar /\ i \in 1 .. Len(pcdFiles) /\ Ahead(Last, <<i, 1>>) /\ 1 \in Nat
    BY <1>1, <1>7 DEF ReadFile, OrderInv, Pos
  <2>2. CASE /\ pcdFiles[i].kind = "pcd" /\ Plays(i, 1) /\ valid' = TRUE /\ next' = <<i, 1>>
             /\ tar' = NoTar
    <3>1. next' \in Clouds /\ Ahead(next', <<i + 1, 1>>)
      BY <1>1, <2>1, <2>2, CloudRead
    <3>2. Cur' = next' /\ Pos' = <<i + 1, 1>>
      BY <1>2, <1>7, <2>2 DEF Cur, Pos
    <3>3. ArchiveOpen'  BY <2>2 DEF ArchiveOpen
    <3>4. Pending'  BY <1>2, <1>3, <1>7, <2>1, <2>2 DEF Pending, Ahead
    <3> QED
      BY <1>2, <1>3, <1>6, <1>7, <2>2, <3>1, <3>2, <3>3, <3>4 DEF OrderInv, Ahead
  <2>3. CASE /\ pcdFiles[i].kind = "tar" /\ Plays(i, 1) /\ valid' = TRUE /\ next' = <<i, 1>>
             /\ tar' # NoTar /\ tar'.file = i /\ tar'.entry = 2
    <3>1. next' \in Clouds /\ Ahead(next', <<i, 2>>)
      <4>1. <<i, 1>> \in Clouds /\ Ahead(<<i, 1>>, <<i, 1 + 1>>)
        BY <1>1, <2>1, <2>3, CloudRead
      <4>2. 1 + 1 = 2  OBVIOUS
      <4> QED  BY <2>3, <4>1, <4>2
    <3>2. Cur' = next' /\ Pos' = <<i, 2>>  BY <2>3 DEF Cur, Pos, NoTar
    <3>3. ArchiveOpen'  BY <1>2, <1>7, <2>3 DEF ArchiveOpen
    <3>4. Pending'  BY <1>2, <1>3, <1>7, <2>1, <2>3 DEF Pending, Ahead
    <3> QED
      BY <1>2, <1>3, <1>6, <1>7, <2>3, <3>1, <3>2, <3>3, <3>4 DEF OrderInv, Ahead
  <2>4. CASE valid' = FALSE /\ tar' = NoTar /\ \A k \in Nat : k >= 1 => ~Plays(i, k)
    <3>1. Ahead(Last, <<i + 1, 1>>)  BY <1>1, <2>1, <2>4, SkipRest
    <3>2. Cur' = Last /\ Pos' = <<i + 1, 1>>
      BY <1>2, <1>3, <1>7, <2>4 DEF Cur, Pos
    <3>3. Pending'  BY <1>7, <2>4 DEF Pending
    <3> QED
      BY <1>2, <1>3, <1>6, <1>7, <2>4, <3>1, <3>2, <3>3 DEF OrderInv, ArchiveOpen, Ahead
  <2> QED  BY <1>1, <1>7, <2>1, <2>2, <2>3, <2>4, FileRead
<1>8. CASE ReadTar /\ step' = "idle"
  <2> DEFINE f == tar.file
             e == tar.entry
  <2>1. /\ tar # NoTar /\ valid /\ next = <<f, e - 1>> /\ pcdFiles[f].kind = "tar"
        /\ iterator = PastEnd(f) /\ next = Last /\ published # <<>> /\ next \in Clouds /\ Fresh
    BY <1>1, <1>8 DEF ReadTar, OrderInv, ArchiveOpen, Pending
  <2>2. /\ f \in 1 .. Len(pcdFiles) /\ f \in Nat /\ e \in Nat /\ e >= 2 /\ Plays(f, e - 1)
        /\ Ahead(Last, <<f, e>>)
    BY <1>1, <2>1, InArchive DEF OrderInv, Pos
  <2>3. ASSUME NEW h \in {e, e + 1}, Plays(f, h), h = e + 1 => ~Plays(f, e),
               valid' = TRUE, next' = <<f, h>>,
               tar' # NoTar, tar'.file = f, tar'.entry = h + 1
        PROVE  OrderInv'
    <3>1. h \in Nat /\ (h + 1) - 1 = h  BY <2>2
    <3>2. Ahead(Last, <<f, h>>)  BY <1>1, <2>2, <2>3, SkipEntry
    <3>3. next' \in Clouds /\ Ahead(next', <<f, h + 1>>)
      BY <1>1, <2>2, <2>3, <3>1, CloudRead
    <3>4. Cur' = next' /\ Pos' = <<f, h + 1>>  BY <2>3 DEF Cur, Pos, NoTar
    <3>5. ArchiveOpen'  BY <1>2, <1>4, <1>8, <2>1, <2>3, <3>1 DEF ArchiveOpen
    <3>6. Pending'  BY <1>2, <1>3, <1>8, <2>3, <3>2 DEF Pending, Ahead
    <3> QED
      BY <1>2, <1>3, <1>6, <1>8, <2>3, <3>3, <3>4, <3>5, <3>6 DEF OrderInv, Ahead
  <2>4. ASSUME tar' = NoTar, \A k \in Nat : k >= e => ~Plays(f, k),
               valid' = FALSE \/ (UNCHANGED <<valid, next>> /\ ~HeaderAccepted(f, e))
        PROVE  OrderInv'
    <3>1. Ahead(Last, <<f + 1, 1>>)  BY <1>1, <2>2, <2>4, SkipRest
    <3>2. Ahead(Last, <<iterator, 1>>)  BY <1>1, <2>1, <2>2, <3>1, WrapAround
    <3>3. Cur' = Last /\ Pos' = <<iterator, 1>>
      BY <1>2, <1>3, <1>8, <2>1, <2>4 DEF Cur, Pos
    <3>4. ~HeaderAccepted(f, e) => Twice(next)
      <4>1. next[1] = f /\ next[2] + 1 = e  BY <2>1, <2>2
      <4> QED  BY <2>1, <4>1 DEF Twice
    <3>5. Pending'
      <4>1. valid' => next' = Last' /\ Twice(next)' /\ Fresh' /\ published' # <<>>
        BY <1>2, <1>3, <1>5, <2>1, <2>4, <3>4
      <4> QED  BY <1>8, <2>4, <4>1 DEF Pending
    <3>6. valid' => next' \in Clouds'  BY <1>2, <2>1, <2>4
    <3>7. Ahead(Cur, Pos)'  BY <1>2, <3>2, <3>3
    <3> QED
      BY <1>2, <1>3, <1>6, <1>8, <2>4, <3>5, <3>6, <3>7 DEF OrderInv, ArchiveOpen
  <2> QED
    <3>1. OnList /\ f \in 1 .. Len(pcdFiles) /\ e \in Nat  BY <1>1, <2>2
    <3> QED  BY <1>8, <2>1, <2>2, <2>3, <2>4, <3>1, TarRead
<1>9. CASE ReadNothing /\ step' = "idle"
  <2>1. tar = NoTar /\ tar' = NoTar /\ valid' = FALSE  BY <1>9 DEF ReadNothing
  <2>2. Cur' = Last /\ Pos' = <<iterator, 1>> /\ Pos = <<iterator, 1>>
    BY <1>1, <1>2, <1>3, <1>9, <2>1 DEF Cur, Pos
  <2>3. Pending'  BY <1>9, <2>1 DEF Pending
  <2> QED
    BY <1>1, <1>2, <1>3, <1>6, <1>9, <2>1, <2>2, <2>3 DEF OrderInv, ArchiveOpen, Ahead
<1> QED  BY <1>7, <1>8, <1>9 DEF ReadAhead, EndTrigger

(* The iterator goes on past the file that was read, and no other way.     *)
LEMMA AdvanceInOrder ==
    ASSUME TypeInv, OrderInv, Advance
    PROVE  OrderInv'
<1>1. /\ OnList /\ step = "advance" /\ step' = "idle" /\ iterator \in 1 .. Len(pcdFiles)
      /\ iterator' = PastEnd(iterator) /\ Cur \in Nat \X Nat
  BY LastType DEF TypeInv, OnList, OrderInv, Advance, EndTrigger
<1>2. /\ pcdFiles' = pcdFiles /\ repeat' = repeat /\ published' = published
      /\ tar' = tar /\ valid' = valid /\ next' = next
      /\ Clouds' = Clouds /\ \A a, p : Ahead(a, p)' <=> Ahead(a, p)
      /\ (\A a : Successor(a)' = Successor(a)) /\ \A c : Twice(c)' <=> Twice(c)
  BY SameList DEF Advance, config, history
<1>3. Last' = Last /\ Cur' = Cur  BY <1>2 DEF Last, Cur
<1>4. Ahead(Cur, Pos')
  <2>1. CASE tar # NoTar
    <3>1. Pos' = Pos  BY <1>2, <2>1 DEF Pos
    <3> QED  BY <3>1 DEF OrderInv
  <2>2. CASE tar = NoTar
    <3>1. Pos = <<iterator + 1, 1>> /\ Pos' = <<PastEnd(iterator), 1>>
      BY <1>1, <1>2, <2>2 DEF Pos
    <3>2. Ahead(Cur, <<iterator + 1, 1>>)  BY <3>1 DEF OrderInv
    <3> QED  BY <1>1, <3>1, <3>2, WrapAround
  <2> QED  BY <2>1, <2>2
<1>5. ArchiveOpen'  BY <1>1, <1>2 DEF ArchiveOpen, OrderInv, PastEnd
<1>7. Fresh' <=> Fresh  BY <1>2, <1>3 DEF Fresh
<1>6. Pending'  BY <1>1, <1>2, <1>3, <1>7 DEF Pending, OrderInv, Ahead
<1> QED  BY <1>1, <1>2, <1>3, <1>4, <1>5, <1>6 DEF OrderInv, Ahead

LEMMA PlayStep == TypeInv /\ PlayInv /\ [Next]_vars => PlayInv'
<1> SUFFICES ASSUME TypeInv, PlayInv, [Next]_vars, rewinds' = 0
             PROVE  OrderInv' /\ PlayedInOrder'
  BY DEF PlayInv
<1>1. rewinds \in Nat /\ MaxRewinds \in Nat
  BY PlaylistAssumption DEF TypeInv, TypeOK
<1>2. CASE Rewind  BY <1>1, <1>2 DEF Rewind
<1>3. CASE rewinds' = rewinds
  <2>1. OrderInv /\ PlayedInOrder  BY <1>3 DEF PlayInv
  <2>2. CASE Publish  BY <2>1, <2>2, PublishInOrder
  <2>3. CASE ReadAhead
    <3>1. UNCHANGED <<config, published, rewinds>>  BY <2>3 DEF ReadAhead, history
    <3> QED  BY <2>1, <2>3, <3>1, ReadInOrder, OrderKept
  <2>4. CASE Advance
    <3>1. UNCHANGED <<config, published, rewinds>>  BY <2>4 DEF Advance, history
    <3> QED  BY <2>1, <2>4, <3>1, AdvanceInOrder, OrderKept
  <2>5. ASSUME UNCHANGED CallerVars, step' = step \/ (step = "idle" /\ step' = "publish")
        PROVE  OrderInv' /\ PlayedInOrder'
    <3>1. UNCHANGED <<config, readerVars, fileRead, published, rewinds>>
      BY <2>5 DEF CallerVars, history
    <3> QED  BY <2>1, <2>5, <3>1, ReaderKept, OrderKept
  <2>6. CASE TimerRuns  BY <2>5, <2>6 DEF TimerRuns, BeginTrigger
  <2>7. CASE Spurious \/ StartStream \/ StopStream \/ DestroyGrabber
    BY <2>5, <2>7 DEF Spurious, StartStream, StopStream, DestroyGrabber
  <2>8. CASE StartManual  BY <2>5, <2>8 DEF StartManual, BeginTrigger
  <2>9. CASE UNCHANGED vars  BY <2>5, <2>9 DEF vars, CallerVars
  <2>10. CASE Rewind  BY <1>2, <2>10
  <2> QED
    BY <2>2, <2>3, <2>4, <2>6, <2>7, <2>8, <2>9, <2>10 DEF Next, TriggerRuns
<1>4. rewinds' = rewinds \/ Rewind
  BY DEF Next, TimerRuns, TriggerRuns, Publish, ReadAhead, Advance, Spurious, StartStream,
         StopStream, StartManual, DestroyGrabber, CallerVars, history, vars
<1> QED  BY <1>2, <1>3, <1>4

(* For every list of files: as long as nobody rewinds, every cloud of it   *)
(* is published in its place, up to the first entry of an archive that is  *)
(* no cloud, and none is skipped where the list starts again.              *)
THEOREM ListPlayedInOrder == Spec => []PlayedInOrder
<1>1. Spec => []TypeInv
  BY TypeInit, TypeStep, PTL DEF Spec
<1>2. Spec => []PlayInv
  BY <1>1, PlayInit, PlayStep, PTL DEF Spec
<1>3. PlayInv => PlayedInOrder
  BY DEF PlayInv, PlayedInOrder
<1> QED  BY <1>2, <1>3, PTL

(* readAhead() never stays where it is: with every cloud it looks for it   *)
(* moves on in the list, or to its beginning when it is repeated, or it    *)
(* has come to the end of the list.  No other step moves it, but that of   *)
(* the iterator past the last file to the beginning.                       *)
ReaderMovesOn ==
    [][rewinds' = 0 =>
         /\ \/ Pos' = Pos
            \/ Before(Pos, Pos')
            \/ repeat /\ Pos[1] >= Len(pcdFiles) /\ Pos' = <<1, 1>>
         /\ step = "read" /\ step' # "read"
              => Pos' # Pos \/ (Pos[1] > Len(pcdFiles) /\ ~valid')]_vars

(* The places there are: each file, in an archive each entry and its end,  *)
(* and the end of the list.                                                *)
PlaceOnList ==
    rewinds = 0 =>
        /\ Pos[1] \in 1 .. Len(pcdFiles) + 1
        /\ tar = NoTar => Pos[2] = 1
        /\ tar # NoTar => /\ Pos[1] <= Len(pcdFiles) /\ pcdFiles[Pos[1]].kind = "tar"
                          /\ Pos[2] \in 2 .. Len(pcdFiles[Pos[1]].entries) + 1

LEMMA PlacesOnList == TypeInv /\ PlayInv => PlaceOnList
<1> SUFFICES ASSUME TypeInv, PlayInv, rewinds = 0
             PROVE  /\ Pos[1] \in 1 .. Len(pcdFiles) + 1
                    /\ tar = NoTar => Pos[2] = 1
                    /\ tar # NoTar => /\ Pos[1] <= Len(pcdFiles) /\ pcdFiles[Pos[1]].kind = "tar"
                                      /\ Pos[2] \in 2 .. Len(pcdFiles[Pos[1]].entries) + 1
  BY DEF PlaceOnList
<1>1. OrderInv /\ OnList /\ Len(pcdFiles) \in Nat /\ iterator \in 1 .. Len(pcdFiles) + 1
  BY PlaylistType DEF PlayInv, TypeInv, TypeOK
<1>2. CASE tar = NoTar
  <2>1. step = "advance" => iterator \in 1 .. Len(pcdFiles)  BY <1>1 DEF OnList
  <2> QED  BY <1>1, <1>2, <2>1 DEF Pos
<1>3. CASE tar # NoTar
  <2> DEFINE f == tar.file
             e == tar.entry
  <2>1. f \in 1 .. Len(pcdFiles) /\ e \in Nat /\ Pos = <<f, e>>
    BY <1>1, <1>3 DEF OnList, Places, Pos
  <2>2. pcdFiles[f].kind = "tar" /\ next = <<f, e - 1>> /\ next \in Clouds
    BY <1>1, <1>3 DEF OrderInv, ArchiveOpen
  <2>3. Plays(f, e - 1)  BY <1>1, <2>1, <2>2, CloudPlaces
  <2>4. e - 1 \in 1 .. Len(pcdFiles[f].entries) /\ Len(pcdFiles[f].entries) \in Nat
    BY <1>1, <2>1, <2>2, <2>3, FileType DEF Plays
  <2> QED  BY <1>1, <1>3, <2>1, <2>2, <2>4, SMTT(30)
<1> QED  BY <1>2, <1>3

(* What one call of readAhead() does to the place. *)
LEMMA ReadMoves ==
    ASSUME TypeInv, OrderInv, ReadAhead
    PROVE  \/ Before(Pos, Pos')
           \/ repeat /\ Pos[1] >= Len(pcdFiles) /\ Pos' = <<1, 1>> /\ Pos' # Pos
           \/ Pos' = Pos /\ Pos[1] > Len(pcdFiles) /\ ~valid'
<1>1. /\ OnList /\ step = "read" /\ iterator' = iterator /\ pcdFiles' = pcdFiles
      /\ iterator \in 1 .. Len(pcdFiles) + 1 /\ Len(pcdFiles) \in Nat /\ iterator \in Nat
      /\ tar \in Places
  BY PlaylistType DEF TypeInv, TypeOK, OnList, ReadAhead, config
<1>2. CASE ReadFile /\ step' = "advance"
  <2>1. tar = NoTar /\ Pos = <<iterator, 1>> /\ iterator \in 1 .. Len(pcdFiles)
    BY <1>1, <1>2 DEF ReadFile, Pos
  <2>2. tar' = NoTar \/ (tar' # NoTar /\ tar'.file = iterator /\ tar'.entry = 2)
    BY <1>1, <1>2, <2>1, FileRead
  <2>3. CASE tar' = NoTar
    <3>1. Pos' = <<iterator + 1, 1>>  BY <1>1, <1>2, <2>3 DEF Pos
    <3> QED  BY <1>1, <2>1, <3>1 DEF Before
  <2>4. CASE tar' # NoTar /\ tar'.file = iterator /\ tar'.entry = 2
    <3>1. Pos' = <<iterator, 2>>  BY <2>4 DEF Pos
    <3> QED  BY <1>1, <2>1, <3>1 DEF Before
  <2> QED  BY <2>2, <2>3, <2>4
<1>3. CASE ReadTar /\ step' = "idle"
  <2> DEFINE f == tar.file
             e == tar.entry
  <2>1. /\ tar # NoTar /\ next = <<f, e - 1>> /\ next \in Clouds /\ iterator = PastEnd(f)
        /\ pcdFiles[f].kind = "tar"
    BY <1>1, <1>3 DEF ReadTar, OrderInv, ArchiveOpen
  <2>2. /\ f \in 1 .. Len(pcdFiles) /\ f \in Nat /\ e \in Nat /\ e >= 2 /\ Plays(f, e - 1)
        /\ Pos = <<f, e>>
    BY <2>1, InArchive DEF Pos
  <2>3. \/ tar' = NoTar
        \/ \E h \in {e, e + 1} : tar' # NoTar /\ tar'.file = f /\ tar'.entry = h + 1
    BY <1>1, <1>3, <2>1, <2>2, TarRead
  <2>4. CASE tar' = NoTar
    <3>1. Pos' = <<PastEnd(f), 1>>  BY <1>1, <1>3, <2>1, <2>4 DEF Pos
    <3>2. CASE f + 1 > Len(pcdFiles) /\ repeat
      <4>1. Pos' = <<1, 1>> /\ Pos[1] >= Len(pcdFiles) /\ Pos[2] # 1
        BY <1>1, <2>2, <3>1, <3>2 DEF PastEnd
      <4> QED  BY <3>2, <4>1
    <3>3. CASE ~(f + 1 > Len(pcdFiles) /\ repeat)
      <4>1. Pos' = <<f + 1, 1>>  BY <3>1, <3>3 DEF PastEnd
      <4> QED  BY <1>1, <2>2, <4>1 DEF Before
    <3> QED  BY <3>2, <3>3
  <2>5. ASSUME NEW h \in {e, e + 1}, tar' # NoTar, tar'.file = f, tar'.entry = h + 1
        PROVE  Before(Pos, Pos')
    <3>1. Pos' = <<f, h + 1>>  BY <2>5 DEF Pos
    <3> QED  BY <1>1, <2>2, <3>1 DEF Before
  <2> QED  BY <2>3, <2>4, <2>5
<1>4. CASE ReadNothing /\ step' = "idle"
  <2>1. tar = NoTar /\ tar' = NoTar /\ ~valid' /\ iterator > Len(pcdFiles)
    BY <1>4 DEF ReadNothing
  <2>2. Pos = <<iterator, 1>> /\ Pos' = <<iterator, 1>>  BY <1>1, <1>4, <2>1 DEF Pos
  <2> QED  BY <1>1, <2>1, <2>2
<1> QED  BY <1>2, <1>3, <1>4 DEF ReadAhead, EndTrigger

(* No file, archive or entry of the list, whatever is wrong with it, keeps *)
(* the grabber from the ones behind it, and there are only so many places: *)
(* what StreamPlaysAll says but for fairness, with ListPlayedInOrder.      *)
THEOREM ReaderNeverStays == Spec => []PlaceOnList /\ ReaderMovesOn
<1>1. Spec => [](TypeInv /\ PlayInv)
  BY TypeInit, TypeStep, PlayInit, PlayStep, PTL DEF Spec
<1>2. TypeInv /\ PlayInv => PlaceOnList
  BY PlacesOnList
<1>3. TypeInv /\ PlayInv /\ [Next]_vars
        => [rewinds' = 0 =>
              /\ \/ Pos' = Pos
                 \/ Before(Pos, Pos')
                 \/ repeat /\ Pos[1] >= Len(pcdFiles) /\ Pos' = <<1, 1>>
              /\ step = "read" /\ step' # "read"
                   => Pos' # Pos \/ (Pos[1] > Len(pcdFiles) /\ ~valid')]_vars
  <2> SUFFICES ASSUME TypeInv, PlayInv, Next, rewinds' = 0
               PROVE  /\ \/ Pos' = Pos
                         \/ Before(Pos, Pos')
                         \/ repeat /\ Pos[1] >= Len(pcdFiles) /\ Pos' = <<1, 1>>
                      /\ step = "read" /\ step' # "read"
                           => Pos' # Pos \/ (Pos[1] > Len(pcdFiles) /\ ~valid')
    OBVIOUS
  <2>1. rewinds \in Nat /\ MaxRewinds \in Nat
    BY PlaylistAssumption DEF TypeInv, TypeOK
  <2>2. CASE ReadAhead
    <3>1. OrderInv  BY <2>2 DEF ReadAhead, PlayInv, history
    <3>2. Pos[1] \in Nat /\ Pos[2] \in Nat /\ Pos = <<Pos[1], Pos[2]>>
      <4>1. iterator \in Nat /\ Len(pcdFiles) \in Nat /\ tar \in Places
        BY PlaylistType DEF TypeInv, TypeOK, OnList
      <4> QED  BY <4>1 DEF Pos, Places
    <3>3. ~Before(Pos, Pos)  BY <3>2 DEF Before
    <3> QED  BY <2>2, <3>1, <3>3, ReadMoves
  <2>3. CASE Advance
    <3>1. /\ OrderInv /\ step = "advance" /\ step' = "idle" /\ tar' = tar
          /\ iterator \in 1 .. Len(pcdFiles) /\ Len(pcdFiles) \in Nat
      BY <2>3, PlaylistType DEF Advance, PlayInv, history, EndTrigger, TypeInv, OnList
    <3>2. iterator' = PastEnd(iterator)  BY <2>3, <3>1 DEF Advance, OrderInv
    <3>3. CASE tar # NoTar  BY <3>1, <3>3 DEF Pos
    <3>4. CASE tar = NoTar
      <4>1. Pos = <<iterator + 1, 1>> /\ Pos' = <<PastEnd(iterator), 1>>
        BY <3>1, <3>2, <3>4 DEF Pos
      <4> QED  BY <3>1, <4>1 DEF PastEnd
    <3> QED  BY <3>1, <3>3, <3>4
  <2>4. CASE Rewind  BY <2>1, <2>4 DEF Rewind
  <2>5. CASE Publish  BY <2>5 DEF Publish, readerVars, Pos
  <2>6. ASSUME UNCHANGED readerVars, step' = step \/ (step = "idle" /\ step' = "publish")
        PROVE  Pos' = Pos /\ ~(step = "read" /\ step' # "read")
    BY <2>6 DEF readerVars, Pos
  <2>7. CASE TimerRuns  BY <2>6, <2>7 DEF TimerRuns, BeginTrigger, CallerVars
  <2>8. CASE Spurious \/ StartStream \/ StopStream \/ DestroyGrabber
    BY <2>6, <2>8 DEF Spurious, StartStream, StopStream, DestroyGrabber, CallerVars
  <2>9. CASE StartManual  BY <2>6, <2>9 DEF StartManual, BeginTrigger, CallerVars
  <2> QED
    BY <2>2, <2>3, <2>4, <2>5, <2>7, <2>8, <2>9 DEF Next, TriggerRuns
<1> QED  BY <1>1, <1>2, <1>3, PTL DEF Spec, ReaderMovesOn

-----------------------------------------------------------------------------
(* What a caller that triggers the grabber itself can rely on however      *)
(* often it rewinds: an archive is open behind the cloud that was read.    *)
KeptInv ==
    /\ step = "advance" => fileRead = iterator
    /\ valid => next \in Clouds
    /\ step = "read" /\ valid => published # <<>> /\ next = Last
    /\ tar # NoTar => /\ valid /\ pcdFiles[tar.file].kind = "tar"
                      /\ next = <<tar.file, tar.entry - 1>>

(* The first cloud of the list was not published since rewind().           *)
Awaited == \A j \in (rewound.after + 1) .. Len(published) : published[j] # First

(* Until then the archive is played to its end with the iterator at the    *)
(* beginning, or the list is read again with nothing found so far, or its  *)
(* first cloud was read and is the next to be published.                   *)
RestPlayed ==
    /\ iterator = 1 /\ step # "advance"
    /\ tar # NoTar => tar.file = rewound.in
    /\ step # "read" /\ valid /\ rewound.after <= Len(published)
         => next[1] = rewound.in /\ ~Before(next, Last)
ListRestarted == ~valid /\ tar = NoTar /\ Ahead(NoCloud, Pos)
FirstRead == valid /\ step # "read" /\ next = First

SinceRewind ==
    /\ rewound.in # 0 => rewound.after >= 1
    /\ rewound.after <= Len(published) + (IF valid /\ step # "read" THEN 1 ELSE 0)
    /\ rewound.after > Len(published) => RestPlayed
    /\ Awaited => RestPlayed \/ ListRestarted \/ FirstRead
    /\ RewindHeeded

RewindInv == ~streaming => KeptInv /\ (rewinds > 0 => SinceRewind)

(* Where a step changes nothing of what the invariant is about. *)
LEMMA RewindKept ==
    ASSUME UNCHANGED <<config, readerVars, fileRead, history>>, RewindInv,
           step' = step \/ (step = "idle" /\ step' = "publish")
    PROVE  RewindInv'
<1>1. /\ Clouds' = Clouds /\ First' = First /\ \A a, p : Ahead(a, p)' <=> Ahead(a, p)
  BY SameList DEF config
<1>2. /\ pcdFiles' = pcdFiles /\ streaming' = streaming /\ published' = published
      /\ iterator' = iterator /\ tar' = tar /\ valid' = valid /\ next' = next
      /\ fileRead' = fileRead /\ rewound' = rewound /\ rewinds' = rewinds
  BY DEF config, readerVars, history
<1>3. Last' = Last /\ Pos' = Pos  BY <1>2 DEF Last, Pos
<1>4. KeptInv => KeptInv'  BY <1>1, <1>2, <1>3 DEF KeptInv
<1>5. RewindHeeded => RewindHeeded'  BY <1>1, <1>2 DEF RewindHeeded, Before
<1>6. (Awaited' => Awaited) /\ (RestPlayed => RestPlayed') /\ (FirstRead => FirstRead')
  BY <1>1, <1>2, <1>3 DEF Awaited, RestPlayed, FirstRead, Before
<1>7. ListRestarted => ListRestarted'
  <2>1. Ahead(NoCloud, Pos) => Ahead(NoCloud, Pos)'  BY <1>1, <1>3 DEF NoCloud
  <2> QED  BY <1>2, <2>1 DEF ListRestarted
<1> QED  BY <1>2, <1>4, <1>5, <1>6, <1>7 DEF RewindInv, SinceRewind

(* rewind() is called between two triggers, before anything is published   *)
(* that it is to be heeded in.                                             *)
LEMMA RewindCalled ==
    ASSUME TypeInv, RewindInv, Rewind, ~streaming'
    PROVE  KeptInv' /\ SinceRewind'
<1>1. /\ ~streaming /\ step = "idle" /\ iterator' = 1 /\ rewound' = ToBePublished
      /\ KeptInv /\ Len(published) \in Nat /\ tar \in Places
  BY LastType DEF Rewind, config, RewindInv, TypeInv, OnList
<1>2. /\ pcdFiles' = pcdFiles /\ published' = published /\ step' = step /\ tar' = tar
      /\ valid' = valid /\ next' = next /\ fileRead' = fileRead
      /\ Clouds' = Clouds
  BY SameList DEF Rewind, config
<1>3. Last' = Last  BY <1>2 DEF Last
<1>4. rewound'.after = Len(published) + (IF valid THEN 1 ELSE 0) /\ rewound'.in = tar.file
  BY <1>1 DEF ToBePublished
<1>5. KeptInv'  BY <1>1, <1>2, <1>3 DEF KeptInv
<1>6. rewound'.in # 0 => rewound'.after >= 1
  BY <1>1, <1>4 DEF KeptInv, NoTar
<1>7. rewound'.after <= Len(published') + (IF valid' /\ step' # "read" THEN 1 ELSE 0)
  BY <1>1, <1>2, <1>4
<1>8. RestPlayed'
  <2>1. ~(valid' /\ rewound'.after <= Len(published'))  BY <1>1, <1>2, <1>4
  <2> QED  BY <1>1, <1>2, <1>4, <2>1 DEF RestPlayed
<1>9. RewindHeeded'
  <2>1. (rewound'.after + 1) .. Len(published') = {}  BY <1>1, <1>2, <1>4
  <2> QED  BY <2>1 DEF RewindHeeded
<1> QED  BY <1>5, <1>6, <1>7, <1>8, <1>9 DEF SinceRewind

LEMMA NothingBefore ==
    ASSUME OnList
    PROVE  Ahead(NoCloud, <<1, 1>>)
<1>1. \A d \in Clouds : d[1] \in Nat /\ d[2] \in Nat /\ d[1] >= 1 /\ d[2] >= 1
  BY PlaylistType, CloudPlaces
<1> QED  BY <1>1 DEF Ahead, Before, NoCloud

(* What is published is the rest of the archive or the first of the list.  *)
LEMMA PublishAfterRewind ==
    ASSUME TypeInv, RewindInv, Publish, ~streaming'
    PROVE  KeptInv' /\ (rewinds' > 0 => SinceRewind')
<1>1. /\ ~streaming /\ step = "publish" /\ step' = "read" /\ KeptInv /\ OnList
      /\ rewound \in [after : Nat, in : Nat] /\ rewound.after \in Nat /\ Len(published) \in Nat
  BY LastType DEF Publish, config, RewindInv, TypeInv, TypeOK
<1>2. /\ pcdFiles' = pcdFiles /\ iterator' = iterator /\ rewinds' = rewinds
      /\ tar' = tar /\ valid' = valid /\ next' = next /\ fileRead' = fileRead
      /\ rewound' = rewound /\ streaming' = streaming
      /\ Clouds' = Clouds /\ First' = First /\ \A a, p : Ahead(a, p)' <=> Ahead(a, p)
  BY SameList DEF Publish, config, readerVars
<1>3. Pos' = Pos  BY <1>1, <1>2 DEF Pos
<1>4. ListRestarted => ListRestarted'
  <2>1. Ahead(NoCloud, Pos) => Ahead(NoCloud, Pos)'  BY <1>2, <1>3 DEF NoCloud
  <2> QED  BY <1>2, <2>1 DEF ListRestarted
<1>5. CASE ~valid
  <2>1. published' = published  BY <1>5 DEF Publish
  <2>2. KeptInv'  BY <1>1, <1>2, <1>5 DEF KeptInv
  <2>3. ASSUME rewinds' > 0
        PROVE  SinceRewind'
    <3>1. SinceRewind  BY <1>1, <1>2, <2>3 DEF RewindInv
    <3>2. Awaited' => Awaited  BY <1>2, <2>1 DEF Awaited
    <3>3. RestPlayed => RestPlayed'  BY <1>1, <1>2, <2>1, <1>5 DEF RestPlayed
    <3>4. RewindHeeded'  BY <1>2, <2>1, <3>1 DEF SinceRewind, RewindHeeded, Before
    <3>5. rewound'.after <= Len(published') + (IF valid' /\ step' # "read" THEN 1 ELSE 0)
      BY <1>1, <1>2, <1>5, <2>1, <3>1 DEF SinceRewind
    <3>6. ~FirstRead  BY <1>5 DEF FirstRead
    <3> QED  BY <1>2, <1>4, <2>1, <3>1, <3>2, <3>3, <3>4, <3>5, <3>6 DEF SinceRewind
  <2> QED  BY <2>2, <2>3
<1>6. CASE valid
  <2> DEFINE n == Len(published)
             from == rewound.after + 1
  <2>1. published' = Append(published, next)  BY <1>6 DEF Publish
  <2>2. /\ Len(published') = n + 1 /\ published'[n + 1] = next
        /\ \A i \in 1 .. n : published'[i] = published[i]
        /\ published' # <<>>
    <3>1. published \in Seq(Nat \X Nat) /\ next \in Nat \X Nat
      BY LastType DEF TypeInv, TypeOK
    <3> QED  BY <1>1, <2>1, <3>1, AppendProperties
  <2>3. Last' = next  BY <2>2 DEF Last
  <2>4. KeptInv'  BY <1>1, <1>2, <2>2, <2>3 DEF KeptInv
  <2>5. ASSUME rewinds' > 0
        PROVE  SinceRewind'
    <3>1. SinceRewind  BY <1>1, <1>2, <2>5 DEF RewindInv
    <3>2. rewound.after <= n + 1  BY <1>1, <1>6, <3>1 DEF SinceRewind
    <3>3. Awaited' => Awaited
      <4> SUFFICES ASSUME Awaited', NEW j \in from .. n PROVE published[j] # First
        BY DEF Awaited
      <4>1. j \in from .. n + 1 /\ j \in 1 .. n  BY <1>1
      <4>2. published'[j] # First  BY <1>2, <2>2, <4>1 DEF Awaited
      <4> QED  BY <2>2, <4>1, <4>2
    <3>4. RestPlayed => RestPlayed'  BY <1>1, <1>2 DEF RestPlayed
    <3>5. CASE rewound.after = n + 1
      <4>1. RestPlayed'  BY <1>1, <3>1, <3>4, <3>5 DEF SinceRewind
      <4>2. RewindHeeded'
        <5>1. (rewound'.after + 1) .. Len(published') = {}  BY <1>1, <1>2, <2>2, <3>5
        <5> QED  BY <5>1 DEF RewindHeeded
      <4> QED  BY <1>1, <1>2, <2>2, <3>1, <3>5, <4>1, <4>2 DEF SinceRewind
    <3>6. CASE rewound.after # n + 1
      <4>1. n + 1 \in from .. n + 1 /\ rewound.after <= n  BY <1>1, <3>2, <3>6
      <4>2. FirstRead => ~Awaited'
        <5>1. FirstRead => published'[n + 1] = First'  BY <1>2, <2>2 DEF FirstRead
        <5> QED  BY <1>2, <2>2, <4>1, <5>1 DEF Awaited
      <4>3. Awaited' => RestPlayed'
        BY <1>6, <3>1, <3>3, <3>4, <4>2 DEF SinceRewind, ListRestarted
      <4>4. ASSUME NEW i \in from .. n + 1
            PROVE  \/ \E j \in from .. i : published'[j] = First
                   \/ /\ i > 1 /\ published'[i][1] = rewound.in
                      /\ ~Before(published'[i], published'[i - 1])
        <5>1. CASE i # n + 1
          <6>1. i \in from .. n /\ i \in 1 .. n  BY <1>1, <5>1
          <6>2. \/ \E j \in from .. i : published[j] = First
                \/ /\ i > 1 /\ published[i][1] = rewound.in
                   /\ ~Before(published[i], published[i - 1])
            BY <1>1, <1>2, <2>5, <3>1, <6>1 DEF SinceRewind, RewindHeeded
          <6>3. \A j \in from .. i : published'[j] = published[j]  BY <1>1, <2>2, <6>1
          <6>4. CASE \E j \in from .. i : published[j] = First  BY <6>3, <6>4
          <6>5. CASE /\ i > 1 /\ published[i][1] = rewound.in
                     /\ ~Before(published[i], published[i - 1])
            <7>1. i - 1 \in 1 .. n  BY <1>1, <6>1, <6>5
            <7> QED  BY <2>2, <6>1, <6>5, <7>1
          <6> QED  BY <6>2, <6>4, <6>5
        <5>2. CASE i = n + 1 /\ Awaited
          <6>1. CASE FirstRead  BY <2>2, <4>1, <5>2, <6>1 DEF FirstRead
          <6>2. CASE RestPlayed
            <7>1. next[1] = rewound.in /\ ~Before(next, Last)
              BY <1>1, <1>6, <4>1, <6>2 DEF RestPlayed
            <7>2. rewound.after >= 1
              <8>1. next[1] \in 1 .. Len(pcdFiles)  BY <1>1, <1>6, CloudPlaces DEF KeptInv
              <8> QED  BY <3>1, <7>1, <8>1, PlaylistType DEF SinceRewind
            <7>3. Last = published[n] /\ n \in 1 .. n
              <8>1. published # <<>>  BY <1>1, <4>1, <7>2
              <8> QED  BY <1>1, <8>1, LastType
            <7> QED  BY <1>1, <2>2, <5>2, <7>1, <7>3
          <6> QED  BY <1>6, <3>1, <5>2, <6>1, <6>2 DEF SinceRewind, ListRestarted
        <5>3. CASE i = n + 1 /\ ~Awaited
          <6>1. PICK j \in from .. n : published[j] = First  BY <5>3 DEF Awaited
          <6>2. j \in 1 .. n /\ j \in from .. n + 1  BY <1>1
          <6> QED  BY <2>2, <5>3, <6>1, <6>2
        <5> QED  BY <5>1, <5>2, <5>3
      <4>5. RewindHeeded'  BY <1>2, <2>2, <4>4 DEF RewindHeeded, Before
      <4> QED  BY <1>1, <1>2, <2>2, <3>1, <4>1, <4>3, <4>5 DEF SinceRewind
    <3> QED  BY <3>5, <3>6
  <2> QED  BY <2>4, <2>5
<1> QED  BY <1>5, <1>6

(* What is read is the rest of the archive or the list from its beginning. *)
LEMMA ReadAfterRewind ==
    ASSUME TypeInv, RewindInv, ReadAhead, ~streaming'
    PROVE  KeptInv' /\ (rewinds' > 0 => SinceRewind')
<1>1. /\ ~streaming /\ step = "read" /\ KeptInv /\ OnList /\ Len(pcdFiles) \in Nat
      /\ iterator \in 1 .. Len(pcdFiles) + 1 /\ iterator \in Nat
      /\ rewound.after \in Nat /\ Len(published) \in Nat
      /\ NoCloud \in Nat \X Nat /\ 1 \in Nat
  <2>1. ~streaming /\ step = "read" /\ KeptInv
    BY DEF ReadAhead, config, RewindInv
  <2>2. OnList /\ Len(pcdFiles) \in Nat  BY PlaylistType DEF TypeInv
  <2>3. iterator \in 1 .. Len(pcdFiles) + 1 /\ rewound.after \in Nat
    BY DEF TypeInv, TypeOK
  <2>4. Len(published) \in Nat  BY LastType
  <2>5. NoCloud \in Nat \X Nat  BY DEF NoCloud
  <2> QED  BY <2>1, <2>2, <2>3, <2>4, <2>5
<1>2. /\ pcdFiles' = pcdFiles /\ iterator' = iterator /\ rewinds' = rewinds
      /\ published' = published /\ rewound' = rewound /\ streaming' = streaming
      /\ Clouds' = Clouds /\ First' = First /\ \A a, p : Ahead(a, p)' <=> Ahead(a, p)
  BY SameList DEF ReadAhead, config, history
<1>3. Last' = Last /\ (Awaited' <=> Awaited)  BY <1>2 DEF Last, Awaited
<1>4. ASSUME rewinds' > 0, Awaited => RestPlayed' \/ ListRestarted' \/ FirstRead'
      PROVE  SinceRewind'
  <2>1. SinceRewind  BY <1>1, <1>2, <1>4 DEF RewindInv
  <2>2. RewindHeeded'  BY <1>2, <2>1 DEF SinceRewind, RewindHeeded, Before
  <2>3. rewound.after <= Len(published)  BY <1>1, <2>1 DEF SinceRewind
  <2>4. \A k \in {0, 1} : rewound.after <= Len(published) + k  BY <1>1, <2>3
  <2> QED  BY <1>1, <1>2, <1>3, <1>4, <2>1, <2>2, <2>3, <2>4 DEF SinceRewind
<1>5. ASSUME rewinds' > 0, Awaited
      PROVE  RestPlayed \/ ListRestarted
  BY <1>1, <1>2, <1>5 DEF RewindInv, SinceRewind, FirstRead
<1>6. CASE ReadFile /\ step' = "advance" /\ fileRead' = iterator
  <2> DEFINE i == iterator
  <2>1. tar = NoTar /\ i \in 1 .. Len(pcdFiles)
    BY <1>1, <1>6 DEF ReadFile
  <2>2. ASSUME rewinds' > 0, Awaited
        PROVE  Ahead(NoCloud, <<i, 1>>)
    <3>1. Pos = <<i, 1>>  BY <1>1, <2>1 DEF Pos
    <3>2. CASE RestPlayed
      <4>1. i = 1  BY <3>2 DEF RestPlayed
      <4> QED  BY <1>1, <4>1, NothingBefore
    <3> QED  BY <1>5, <2>2, <3>1, <3>2 DEF ListRestarted
  <2>3. ASSUME valid' = TRUE, next' = <<i, 1>>, Plays(i, 1)
        PROVE  next' \in Clouds /\ (rewinds' > 0 /\ Awaited => FirstRead')
    <3>1. next' \in Clouds  BY <1>1, <2>1, <2>3, CloudPlaces
    <3>2. Ahead(NoCloud, next') => next' = First  BY <1>1, <3>1, AheadIsNext
    <3> QED  BY <1>2, <1>6, <2>2, <2>3, <3>1, <3>2 DEF FirstRead
  <2>4. CASE /\ Plays(i, 1) /\ valid' = TRUE /\ next' = <<i, 1>> /\ tar' = NoTar
    <3>1. KeptInv'  BY <1>2, <1>6, <2>3, <2>4 DEF KeptInv
    <3> QED  BY <1>4, <2>3, <2>4, <3>1
  <2>5. CASE /\ pcdFiles[i].kind = "tar" /\ Plays(i, 1) /\ valid' = TRUE /\ next' = <<i, 1>>
             /\ tar' # NoTar /\ tar'.file = i /\ tar'.entry = 2
    <3>1. KeptInv'  BY <1>2, <1>6, <2>3, <2>5 DEF KeptInv
    <3> QED  BY <1>4, <2>3, <2>5, <3>1
  <2>6. CASE valid' = FALSE /\ tar' = NoTar /\ \A k \in Nat : k >= 1 => ~Plays(i, k)
    <3>1. KeptInv'  BY <1>2, <1>6, <2>6 DEF KeptInv
    <3>2. ASSUME rewinds' > 0, Awaited
          PROVE  ListRestarted'
      <4>1. Ahead(NoCloud, <<i + 1, 1>>)  BY <1>1, <2>1, <2>2, <2>6, <3>2, SkipRest
      <4>2. Pos' = <<i + 1, 1>>  BY <1>2, <1>6, <2>6 DEF Pos
      <4>3. Ahead(NoCloud, Pos)'  BY <1>2, <4>1, <4>2 DEF NoCloud
      <4> QED  BY <2>6, <4>3 DEF ListRestarted
    <3> QED  BY <1>4, <3>1, <3>2
  <2> QED  BY <1>1, <1>6, <2>1, <2>4, <2>5, <2>6, FileRead
<1>7. CASE ReadTar /\ step' = "idle"
  <2> DEFINE f == tar.file
             e == tar.entry
  <2>1. /\ tar # NoTar /\ valid /\ next = <<f, e - 1>> /\ pcdFiles[f].kind = "tar"
        /\ next = Last /\ next \in Clouds
    BY <1>1, <1>7 DEF ReadTar, KeptInv
  <2>2. f \in 1 .. Len(pcdFiles) /\ f \in Nat /\ e \in Nat /\ e >= 2 /\ Plays(f, e - 1)
    BY <2>1, InArchive
  <2>3. rewinds' > 0 /\ Awaited => iterator = 1 /\ f = rewound.in
    BY <1>5, <2>1 DEF RestPlayed, ListRestarted
  <2>4. ASSUME NEW h \in {e, e + 1}, Plays(f, h), valid' = TRUE, next' = <<f, h>>,
               tar' # NoTar, tar'.file = f, tar'.entry = h + 1
        PROVE  KeptInv' /\ (rewinds' > 0 => SinceRewind')
    <3>1. h \in Nat /\ (h + 1) - 1 = h  BY <2>2
    <3>2. next' \in Clouds  BY <1>1, <2>2, <2>4, <3>1, CloudPlaces
    <3>3. KeptInv'  BY <1>2, <1>7, <2>1, <2>4, <3>1, <3>2 DEF KeptInv
    <3>4. ~Before(next', Last)  BY <2>1, <2>2, <2>4 DEF Before
    <3>5. rewinds' > 0 /\ Awaited => RestPlayed'
      BY <1>2, <1>3, <1>7, <2>3, <2>4, <3>4 DEF RestPlayed, Before
    <3> QED  BY <1>4, <3>3, <3>5
  <2>5. ASSUME tar' = NoTar, valid' = FALSE \/ UNCHANGED <<valid, next>>
        PROVE  KeptInv' /\ (rewinds' > 0 => SinceRewind')
    <3>1. KeptInv'  BY <1>2, <1>7, <2>1, <2>5 DEF KeptInv
    <3>2. next[1] = f /\ ~Before(next, Last)  BY <2>1, <2>2 DEF Before
    <3>3. rewinds' > 0 /\ Awaited => RestPlayed'
      BY <1>2, <1>3, <1>7, <2>3, <2>5, <3>2 DEF RestPlayed, Before
    <3> QED  BY <1>4, <3>1, <3>3
  <2> QED
    <3>1. OnList /\ f \in 1 .. Len(pcdFiles) /\ e \in Nat  BY <1>1, <2>2
    <3> QED  BY <1>7, <2>1, <2>2, <2>4, <2>5, <3>1, TarRead
<1>8. CASE ReadNothing /\ step' = "idle"
  <2>1. tar = NoTar /\ tar' = NoTar /\ valid' = FALSE  BY <1>8 DEF ReadNothing
  <2>2. KeptInv'  BY <1>8, <2>1 DEF KeptInv
  <2>3. RestPlayed => RestPlayed'  BY <1>2, <1>8, <2>1 DEF RestPlayed
  <2>4. ListRestarted => ListRestarted'
    <3>1. Pos' = Pos  BY <1>1, <1>2, <1>8, <2>1 DEF Pos
    <3>2. Ahead(NoCloud, Pos) => Ahead(NoCloud, Pos)'  BY <1>2, <3>1 DEF NoCloud
    <3> QED  BY <2>1, <3>2 DEF ListRestarted
  <2> QED  BY <1>4, <1>5, <2>2, <2>3, <2>4
<1> QED  BY <1>6, <1>7, <1>8 DEF ReadAhead, EndTrigger

(* The iterator goes on from the file that was read, at the latest from    *)
(* the first one with a cloud.                                             *)
LEMMA AdvanceAfterRewind ==
    ASSUME TypeInv, RewindInv, Advance, ~streaming'
    PROVE  KeptInv' /\ (rewinds' > 0 => SinceRewind')
<1>1. /\ ~streaming /\ step = "advance" /\ step' = "idle" /\ KeptInv /\ OnList
      /\ iterator \in 1 .. Len(pcdFiles) /\ iterator' = PastEnd(iterator)
      /\ NoCloud \in Nat \X Nat
  BY DEF Advance, EndTrigger, config, RewindInv, TypeInv, OnList, KeptInv, NoCloud
<1>2. /\ pcdFiles' = pcdFiles /\ published' = published /\ rewound' = rewound
      /\ rewinds' = rewinds /\ tar' = tar /\ valid' = valid /\ next' = next
      /\ Clouds' = Clouds /\ First' = First /\ \A a, p : Ahead(a, p)' <=> Ahead(a, p)
  BY SameList DEF Advance, config, history
<1>3. Last' = Last /\ (Awaited' <=> Awaited)  BY <1>2 DEF Last, Awaited
<1>4. KeptInv'  BY <1>1, <1>2, <1>3 DEF KeptInv
<1>5. ASSUME rewinds' > 0
      PROVE  SinceRewind'
  <2>1. SinceRewind /\ ~RestPlayed  BY <1>1, <1>2, <1>5 DEF RewindInv, RestPlayed
  <2>2. RewindHeeded'
    <3>1. streaming' = streaming  BY DEF Advance, config
    <3> QED  BY <1>2, <2>1, <3>1 DEF SinceRewind, RewindHeeded, Before
  <2>3. FirstRead => FirstRead'  BY <1>1, <1>2 DEF FirstRead
  <2>4. ListRestarted => ListRestarted'
    <3> SUFFICES ASSUME ListRestarted PROVE ListRestarted'
      OBVIOUS
    <3>1. Pos = <<iterator + 1, 1>> /\ Pos' = <<PastEnd(iterator), 1>>
      BY <1>1, <1>2 DEF Pos, ListRestarted
    <3>2. Ahead(NoCloud, <<PastEnd(iterator), 1>>)
      BY <1>1, <3>1, WrapAround DEF ListRestarted
    <3>3. Ahead(NoCloud, Pos)'  BY <1>2, <3>1, <3>2 DEF NoCloud
    <3> QED  BY <1>2, <3>3 DEF ListRestarted
  <2> QED  BY <1>1, <1>2, <1>3, <2>1, <2>2, <2>3, <2>4 DEF SinceRewind
<1> QED  BY <1>4, <1>5

LEMMA RewindInit == Init => RewindInv
<1> SUFFICES ASSUME Init PROVE KeptInv /\ ~(rewinds > 0)
  BY DEF RewindInv
<1> QED  BY DEF Init, KeptInv

LEMMA RewindStep == TypeInv /\ RewindInv /\ [Next]_vars => RewindInv'
<1> SUFFICES ASSUME TypeInv, RewindInv, [Next]_vars, ~streaming'
             PROVE  KeptInv' /\ (rewinds' > 0 => SinceRewind')
  BY DEF RewindInv
<1>1. CASE Publish  BY <1>1, PublishAfterRewind
<1>2. CASE ReadAhead  BY <1>2, ReadAfterRewind
<1>3. CASE Advance  BY <1>3, AdvanceAfterRewind
<1>4. CASE Rewind  BY <1>4, RewindCalled
<1>5. ASSUME UNCHANGED CallerVars, step' = step \/ (step = "idle" /\ step' = "publish")
      PROVE  KeptInv' /\ (rewinds' > 0 => SinceRewind')
  <2>1. RewindInv'
    BY <1>5, RewindKept DEF CallerVars, config, readerVars, history
  <2> QED  BY <2>1 DEF RewindInv
<1>6. CASE TimerRuns  BY <1>5, <1>6 DEF TimerRuns, BeginTrigger
<1>7. CASE Spurious \/ StartStream \/ StopStream \/ DestroyGrabber
  BY <1>5, <1>7 DEF Spurious, StartStream, StopStream, DestroyGrabber
<1>8. CASE StartManual  BY <1>5, <1>8 DEF StartManual, BeginTrigger
<1>9. CASE UNCHANGED vars  BY <1>5, <1>9 DEF vars, CallerVars
<1> QED
  BY <1>1, <1>2, <1>3, <1>4, <1>6, <1>7, <1>8, <1>9 DEF Next, TriggerRuns

(* After rewind() a caller that triggers the grabber itself gets nothing   *)
(* but the rest of the archive that was open before the list's first cloud, *)
(* whatever the list and however often the grabber is rewound.             *)
THEOREM RewindsToFirst == Spec => []RewindHeeded
<1>1. Spec => []TypeInv
  BY TypeInit, TypeStep, PTL DEF Spec
<1>2. Spec => []RewindInv
  BY <1>1, RewindInit, RewindStep, PTL DEF Spec
<1>3. RewindInv => RewindHeeded
  BY DEF RewindInv, SinceRewind, RewindHeeded
<1> QED  BY <1>2, <1>3, PTL

-----------------------------------------------------------------------------
(* Where the timer thread is on its way out. *)
Notified == quit /\ timer \in {"wakeup", "check", "done"}

TimerSteps ==
    CASE timer = "wakeup" -> 2
      [] timer = "check"  -> 1
      [] OTHER            -> 0

(* The destructor finds no callback running, and it reaches the timer      *)
(* thread wherever that is but between its test of quit_ and the mutex;    *)
(* the thread then has two steps left to take, and nobody else has any.    *)
JoinReturns ==
    /\ [](quit => ~running /\ step = "idle" /\ timer \notin {"calling", "timedWaiting"})
    /\ [][~quit /\ quit' => Notified' \/ timer = "lock"]_vars
    /\ [][Notified => Notified' /\ TimerSteps' < TimerSteps]_vars

QuitInv == quit => ~running /\ step = "idle" /\ timer \notin {"calling", "timedWaiting"}

LEMMA QuitStep ==
    ASSUME TypeInv, StopInv, QuitInv, [Next]_vars
    PROVE  /\ QuitInv'
           /\ ~quit /\ quit' => Notified' \/ timer = "lock"
           /\ Notified => UNCHANGED vars \/ (Notified' /\ TimerSteps' < TimerSteps)
<1> USE DEF QuitInv, StopInv, CallsOnlyWhileRunning, TriggerUnderMutex, CallerVars, triggerVars,
        MutexFree, TimerGoto, Notified, TimerSteps
<1>1. CASE TimerRuns
  <2>1. CASE BeginCallbacks  BY <2>1 DEF BeginCallbacks
  <2>2. CASE CheckQuit  BY <1>1, <2>2 DEF TimerRuns, CheckQuit, BeginCallbacks
  <2>3. CASE WaitForStart \/ Timeout \/ LeaveWait
    BY <1>1, <2>3 DEF TimerRuns, WaitForStart, Timeout, LeaveWait, BeginCallbacks
  <2> QED  BY <1>1, <2>1, <2>2, <2>3 DEF TimerRuns
<1>2. CASE TriggerRuns
  <2>1. ~quit  BY <1>2 DEF TriggerRuns, Publish, ReadAhead, Advance
  <2>2. quit' = quit
    BY <1>2 DEF TriggerRuns, Publish, ReadAhead, Advance, EndTrigger, EndCallbacks
  <2> QED  BY <2>1, <2>2
<1>3. CASE Spurious  BY <1>3 DEF Spurious, SpuriousWakeup
<1>4. CASE StartStream  BY <1>4 DEF StartStream, Start
<1>5. CASE StopStream  BY <1>5 DEF StopStream, Stop
<1>6. CASE StartManual  BY <1>6 DEF StartManual
<1>7. CASE Rewind  BY <1>7 DEF Rewind
<1>8. CASE DestroyGrabber
  <2>1. /\ ~quit /\ ~running /\ quit' /\ ~running' /\ step = "idle" /\ step' = "idle"
        /\ timer' = IF timer \in {"waiting", "timedWaiting"} THEN "wakeup" ELSE timer
        /\ timer # "calling"
    BY <1>8 DEF DestroyGrabber, Destroy, NotifyAll
  <2>2. timer \in TimerPlaces  BY DEF TypeInv, TypeOK
  <2> QED  BY <2>1, <2>2 DEF TimerPlaces
<1>9. CASE UNCHANGED vars  BY <1>9 DEF vars
<1> QED
  BY <1>1, <1>2, <1>3, <1>4, <1>5, <1>6, <1>7, <1>8, <1>9 DEF Next

(* The destructor's join() has nothing to wait for that does not come,     *)
(* unless its notification was lost: what DestructorReturns says but for   *)
(* fairness.                                                               *)
THEOREM DestructorJoins == Spec => JoinReturns
<1>1. Spec => [](TypeInv /\ StopInv)
  BY TypeInit, TypeStep, StopInit, StopStep, PTL DEF Spec
<1>2. Init => QuitInv  BY DEF Init, TriggerInit, QuitInv
<1>3. TypeInv /\ StopInv /\ QuitInv /\ [Next]_vars => QuitInv'  BY QuitStep
<1>4. Spec => []QuitInv  BY <1>1, <1>2, <1>3, PTL DEF Spec
<1>5. TypeInv /\ StopInv /\ QuitInv /\ [Next]_vars
        => [~quit /\ quit' => Notified' \/ timer = "lock"]_vars
  BY QuitStep
<1>6. TypeInv /\ StopInv /\ QuitInv /\ [Next]_vars
        => [Notified => Notified' /\ TimerSteps' < TimerSteps]_vars
  BY QuitStep
<1> QED  BY <1>1, <1>4, <1>5, <1>6, PTL DEF Spec, JoinReturns, QuitInv
=============================================================================
