----------------------------- MODULE PcdGrabber -----------------------------
(***************************************************************************)
(* pcl::PCDGrabberBase plays a list of PCD files and of TAR archives of    *)
(* PCD files: with frames_per_second > 0 on the thread of a TimeTrigger,   *)
(* else one cloud for each call of start() or trigger().  A cloud is read  *)
(* ahead of the trigger that publishes it.  A cloud is named by its place: *)
(* <<file, entry>>, entry 1 for a file that is a cloud itself.             *)
(***************************************************************************)
EXTENDS TimeTrigger, Sequences, FiniteSets

CONSTANTS
    Playlists,     \* the lists a grabber is constructed with
    MaxPublished,  \* bound: clouds published in a run
    MaxRewinds     \* bound: calls of rewind() in a run

(* A TAR archive ends with blocks of zeros or is cut after an entry.  Its   *)
(* entries are clouds, those whose size is a multiple of the block size    *)
(* told apart, files that are no cloud, entries of another type that have   *)
(* data (extended headers), and entries that are a header only (empty       *)
(* files, directories, links).                                             *)
Entries == {"cloud", "fullCloud", "junk", "notRegular", "empty"}
Archives == [kind : {"tar"}, entries : Seq(Entries), end : {"zeros", "cut"}]
ASSUME PlaylistAssumption ==
    /\ Playlists \subseteq Seq([kind : {"pcd", "unreadable"}] \union Archives)
    /\ MaxPublished \in Nat /\ MaxRewinds \in Nat

VARIABLES
    pcdFiles,        \* pcd_files_, which the constructor sets
    streaming,       \* frames_per_second_ > 0, set by the constructor
    repeat,          \* repeat_, set by the constructor
    grabberRunning,  \* the grabber's own running_
    iterator,        \* pcd_iterator_, Len(pcdFiles) + 1 for end()
    tar,             \* the open archive: its file and the next entry
    valid, next,     \* valid_, next_cloud_
    step,            \* where trigger() is: "idle", "publish", "read", "advance"
    fileRead,        \* the value of pcd_iterator_ readAhead() dereferenced
    published,       \* history: the clouds published
    rewound,         \* history: what was to be published when rewind() was called
    rewinds          \* number of rewind() calls

readerVars == <<iterator, tar, valid, next>>
config == <<pcdFiles, streaming, repeat>>
history == <<published, rewound, rewinds>>
vars == <<triggerVars, config, grabberRunning, readerVars, step, fileRead, history>>

NoTar == [file |-> 0, entry |-> 0]
NoCloud == <<0, 0>>

Init ==
    /\ TriggerInit
    /\ pcdFiles \in Playlists
    /\ streaming \in BOOLEAN /\ repeat \in BOOLEAN
    /\ grabberRunning = FALSE
    /\ iterator = 1
    /\ tar = NoTar
    /\ valid = FALSE /\ next = NoCloud
    /\ step = "idle" /\ fileRead = 0
    /\ published = <<>>
    /\ rewound = [after |-> 0, in |-> 0]
    /\ rewinds = 0

-----------------------------------------------------------------------------
IsCloud(f, e) ==
    /\ e <= Len(pcdFiles[f].entries)
    /\ pcdFiles[f].entries[e] \in {"cloud", "fullCloud"}

(* Behind an entry whose size is a multiple of 512 the offset is moved a   *)
(* block too far, past the next header: what is read is the first block of *)
(* the data it announces, or the header after it when there is no data.    *)
Missed(f, e) ==
    LET entries == pcdFiles[f].entries IN
    e - 1 \in DOMAIN entries /\ entries[e - 1] = "fullCloud"
NextEntry(f, e) == IF Missed(f, e) THEN e + 1 ELSE e

(* readTARHeader() accepts the header of a regular file that is not empty. *)
(* At the end of an archive that is cut, read() returns 0 and the header   *)
(* of the entry before, if there is one, is taken for the next one.        *)
HeaderAccepted(f, e) ==
    LET archive == pcdFiles[f]
        n == Len(archive.entries)
        header == NextEntry(f, e)
    IN  /\ Missed(f, e) /\ e <= n => archive.entries[e] = "empty"
        /\ IF header <= n
           THEN archive.entries[header] \notin {"notRegular", "empty"}
           ELSE archive.end = "cut" /\ e > 1

(* Read entry e of archive f, whose header was accepted: a cloud is kept    *)
(* and the file offset moves on; anything else closes the archive.         *)
ReadEntry(f, e) ==
    /\ valid' = IsCloud(f, e)
    /\ next' = <<f, e>>
    /\ tar' = IF IsCloud(f, e) THEN [file |-> f, entry |-> e + 1] ELSE NoTar

(* The branch of readAhead() inside an archive at entry e.  A header that  *)
(* is rejected closes it and leaves valid_ and next_cloud_ as they were.   *)
ReadTarAt(e) ==
    \/ HeaderAccepted(tar.file, e) /\ ReadEntry(tar.file, NextEntry(tar.file, e))
    \/ ~HeaderAccepted(tar.file, e) /\ tar' = NoTar /\ UNCHANGED <<valid, next>>

(* Mutant: the entry behind the next one is read. *)
ReadTarSkips == tar # NoTar /\ ReadTarAt(tar.entry + 1)
ReadTar == tar # NoTar /\ ReadTarAt(tar.entry)

(* The branch for the next file of the list, up to ++pcd_iterator_.        *)
ReadFile ==
    /\ tar = NoTar /\ iterator <= Len(pcdFiles)
    /\ LET file == pcdFiles[iterator] IN
       \/ /\ file.kind = "pcd"
          /\ valid' = TRUE /\ next' = <<iterator, 1>>
          /\ UNCHANGED tar
       \/ /\ file.kind = "tar" /\ HeaderAccepted(iterator, 1)
          /\ ReadEntry(iterator, 1)
       \/ /\ file.kind = "unreadable" \/ (file.kind = "tar" /\ ~HeaderAccepted(iterator, 1))
          /\ valid' = FALSE
          /\ UNCHANGED <<tar, next>>

ReadNothing ==
    /\ tar = NoTar /\ iterator > Len(pcdFiles)
    /\ valid' = FALSE
    /\ UNCHANGED <<tar, next>>

-----------------------------------------------------------------------------
(* PCDGrabberImpl::trigger(): publish the cloud read before, then read the *)
(* next one.  It runs on the timer thread, or on the caller's thread; in    *)
(* the first case the caller's other methods interleave with its steps.    *)

BeginTrigger == step = "idle" /\ step' = "publish"

EndTrigger ==
    /\ step' = "idle"
    /\ IF streaming THEN EndCallbacks ELSE UNCHANGED triggerVars

Publish ==
    /\ step = "publish"
    /\ Len(published) < MaxPublished
    /\ step' = "read"
    /\ published' = IF valid THEN Append(published, next) ELSE published
    /\ UNCHANGED <<triggerVars, config, grabberRunning, readerVars, fileRead, rewound, rewinds>>

ReadAhead ==
    /\ step = "read"
    /\ \/ /\ ReadFile
          /\ step' = "advance"
          /\ fileRead' = iterator
          /\ UNCHANGED triggerVars
       \/ (ReadTar \/ ReadNothing) /\ EndTrigger /\ UNCHANGED fileRead
    /\ UNCHANGED <<config, grabberRunning, iterator, history>>

(* Mutant: the list is not wrapped around. *)
PastEndStays(i) == i + 1
PastEnd(i) == IF i + 1 > Len(pcdFiles) /\ repeat THEN 1 ELSE i + 1

(* ++pcd_iterator_ is not protected from rewind(): it increments the value *)
(* in memory or the one loaded when the file was read.                     *)
Advance ==
    /\ step = "advance"
    /\ \E i \in {iterator, fileRead} : iterator' = PastEnd(i)
    /\ EndTrigger
    /\ UNCHANGED <<config, grabberRunning, tar, valid, next, fileRead, history>>

-----------------------------------------------------------------------------
(* The caller's methods.                                                   *)

CallerVars == <<config, readerVars, fileRead, history>>

StartStream ==
    /\ streaming /\ Start
    /\ grabberRunning' = TRUE
    /\ UNCHANGED <<step, CallerVars>>

StopStream ==
    /\ streaming /\ Stop
    /\ grabberRunning' = FALSE
    /\ UNCHANGED <<step, CallerVars>>

(* start() and trigger() of a grabber with no frame rate. *)
StartManual ==
    /\ ~streaming /\ ~quit
    /\ BeginTrigger
    /\ UNCHANGED <<triggerVars, grabberRunning, CallerVars>>

(* The cloud read ahead is published next whatever rewind() does, and the  *)
(* archive that is open is read on.                                        *)
ToBePublished == [after |-> Len(published) + (IF valid THEN 1 ELSE 0), in |-> tar.file]

(* Mutant: rewind() is ignored inside an archive. *)
RewindOutsideArchive ==
    /\ ~quit /\ rewinds < MaxRewinds
    /\ streaming \/ step = "idle"
    /\ iterator' = IF tar = NoTar THEN 1 ELSE iterator
    /\ rewound' = ToBePublished
    /\ rewinds' = rewinds + 1
    /\ UNCHANGED <<triggerVars, config, grabberRunning, tar, valid, next, step, fileRead, published>>

Rewind ==
    /\ ~quit /\ rewinds < MaxRewinds
    /\ streaming \/ step = "idle"
    /\ iterator' = 1
    /\ rewound' = ToBePublished
    /\ rewinds' = rewinds + 1
    /\ UNCHANGED <<triggerVars, config, grabberRunning, tar, valid, next, step, fileRead, published>>

IsRunning == grabberRunning /\ iterator <= Len(pcdFiles)

(* The destructor: stop(), then the trigger's own destructor. *)
DestroyGrabber ==
    /\ ~running /\ step = "idle"
    /\ Destroy
    /\ UNCHANGED <<grabberRunning, step, CallerVars>>

-----------------------------------------------------------------------------
TimerRuns ==
    \/ /\ BeginCallbacks
       /\ BeginTrigger
       /\ UNCHANGED <<grabberRunning, CallerVars>>
    \/ /\ CheckQuit \/ WaitForStart \/ Timeout \/ LeaveWait
       /\ UNCHANGED <<grabberRunning, step, CallerVars>>

TriggerRuns == Publish \/ ReadAhead \/ Advance

Spurious == SpuriousWakeup /\ UNCHANGED <<grabberRunning, step, CallerVars>>

Next ==
    \/ TimerRuns \/ TriggerRuns \/ Spurious
    \/ StartStream \/ StopStream \/ StartManual \/ Rewind \/ DestroyGrabber

Spec == Init /\ [][Next]_vars

(* The timer thread keeps running, and so does a trigger that has begun. *)
FairSpec == Spec /\ WF_vars(TimerRuns) /\ WF_vars(TriggerRuns)

-----------------------------------------------------------------------------
TypeOK ==
    /\ running \in BOOLEAN /\ quit \in BOOLEAN /\ timer \in TimerPlaces
    /\ grabberRunning \in BOOLEAN
    /\ iterator \in 1 .. (Len(pcdFiles) + 1)
    /\ tar \in [file : 0 .. Len(pcdFiles), entry : Nat]
    /\ valid \in BOOLEAN /\ next \in Nat \X Nat
    /\ step \in {"idle", "publish", "read", "advance"}
    /\ published \in Seq(Nat \X Nat)
    /\ rewound \in [after : Nat, in : Nat] /\ rewinds \in 0 .. MaxRewinds

(* readAhead() gets past entry e to the next one of its archive: past a    *)
(* cloud whose size is a multiple of 512 only if the entry behind it, which *)
(* is the one it misses, has no data.                                      *)
Passed(f, e) ==
    LET entries == pcdFiles[f].entries IN
    \/ entries[e] = "cloud"
    \/ entries[e] = "fullCloud" /\ entries[e + 1] = "empty"
    \/ entries[e] = "empty" /\ Missed(f, e)

(* The clouds readAhead() finds, in the order of the list: an archive is   *)
(* played up to its first entry that is no cloud, or that is missed.       *)
Clouds ==
    UNION {CASE pcdFiles[f].kind = "pcd" -> {<<f, 1>>}
             [] pcdFiles[f].kind = "tar" ->
                  {<<f, e>> : e \in {n \in 1 .. Len(pcdFiles[f].entries) :
                                       IsCloud(f, n) /\ \A k \in 1 .. n - 1 : Passed(f, k)}}
             [] OTHER -> {} : f \in 1 .. Len(pcdFiles)}
Before(a, b) == a[1] < b[1] \/ (a[1] = b[1] /\ a[2] < b[2])
First == CHOOSE c \in Clouds : \A d \in Clouds : c = d \/ Before(c, d)
Successor(a) ==
    IF \A d \in Clouds : ~Before(a, d) THEN First
    ELSE CHOOSE c \in Clouds : Before(a, c) /\ \A d \in Clouds : Before(a, d) => c = d \/ Before(c, d)

(* Where the header behind an archive's cloud is rejected, as it is at the *)
(* zeros that end an archive, valid_ stays set and the cloud comes again.  *)
Twice(c) == pcdFiles[c[1]].kind = "tar" /\ ~HeaderAccepted(c[1], c[2] + 1)

(* Without rewind() the clouds come in the order of the list, none is left *)
(* out, and the list starts again only when it is repeated.  A cloud comes *)
(* a second time, and no third, only where the header behind it is         *)
(* rejected.                                                               *)
PlayedInOrder ==
    rewinds = 0 =>
        /\ published # <<>> => published[1] = First
        /\ \A i \in 1 .. (Len(published) - 1) :
              \/ published[i + 1] = Successor(published[i])
              \/ /\ published[i + 1] = published[i] /\ Twice(published[i])
                 /\ i > 1 => published[i] = Successor(published[i - 1])
        /\ ~repeat => \A i \in 2 .. Len(published) : ~Before(published[i], published[i - 1])

(* A stream that is left running plays all that readAhead() finds on the   *)
(* list, whatever else is on it: unreadable files, archives that are cut,  *)
(* end in junk or have a header that is missed; and a list that is repeated *)
(* is played for ever, up to the bound on what is counted.                 *)
(* So start() is not overheard by a timer thread about to wait for it.     *)
StreamPlaysAll ==
    (<>[](running /\ rewinds = 0)) =>
        /\ <>(Clouds \subseteq {published[i] : i \in 1 .. Len(published)})
        /\ [](repeat => <>(Len(published) = MaxPublished))

(* "Rewinds to the first PCD file in the list": a caller that triggers the *)
(* grabber itself gets, after rewind(), the cloud that was read ahead and   *)
(* the rest of the archive that was open, and then the first cloud of the   *)
(* list and no other, wherever in the list rewind() was called.            *)
RewindHeeded ==
    ~streaming /\ rewinds > 0 =>
        \A i \in (rewound.after + 1) .. Len(published) :
            \/ \E j \in (rewound.after + 1) .. i : published[j] = First
            \/ /\ i > 1 /\ published[i][1] = rewound.in
               /\ ~Before(published[i], published[i - 1])
=============================================================================
