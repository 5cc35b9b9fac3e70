# TLA+ models of StanfordPCL

StanfordPCL is a version of the Point Cloud Library: some thirty libraries of
numerics, and a smaller part that moves data between threads, files, devices and
buffers. The numerics are pure functions in floating point and well served by tests.
The moving part is not: its bugs need two threads and an unlucky order, or a long
sequence of calls. These modules model that part. It is mostly the path a depth frame
takes through the large scale reconstruction program,

    file or camera -> device threads -> grabber -> synchronizer -> application
                   -> tracker -> rolling volume -> world model

with two side branches that have threads of their own, the recorder and the viewer, and
one data structure whose state outlives a call, the octree with two buffers, on which
change detection and compression are built.

TLC checks the models on small instances, and TLAPS proves the safety properties
that matter most for every value of the constants.

## 1. Inventory

### 1.1 Parts that are modelled

**Synchronizer** (`src/common/include/pcl/common/synchronizer.h`).
State: two deques of stamped data, a map of callbacks and its counter, three
mutexes. Operations: `add0`, `add1`, `publish`, `publishData`, `finalize`, `reset`,
`addCallback`, `removeCallback`. Two device threads add, helper threads finalize, a
seek resets, whoever connects to a signal registers. Hard: `publish()` looks at each
front in a critical section of its own and hands out the fronts in a third; `reset()`
takes two of the three mutexes; callbacks run with all three held. It is correct when
the pairs are those of closest stamps, each datum is handed out at most once, pairs
come in order, and every call returns.

**TimeTrigger** (`src/common/src/time_trigger.cpp`).
State: `running_`, `quit_`, a mutex, a condition, a thread. Operations: `start`,
`stop`, the destructor, the thread's loop. Hard: lost notifications, the flag that is
read without the mutex, callbacks that run with the mutex held. It is correct when
`stop()` is a barrier for callbacks, a start is not lost and the destructor returns.

**PCDGrabber** (`src/io/src/pcd_grabber.cpp`).
State: the list of files, an iterator, an open TAR archive, the cloud read ahead.
Operations: `start`, `stop`, `trigger`, `rewind`, the destructor; on the thread of a
TimeTrigger or on the caller's. Hard: the cloud that is published was read one
trigger earlier, archives end in several ways, `rewind()` is not synchronized. It is
correct when every cloud is played, once, in the order of the list.

**Grabbers and device threads** (`src/io/src/openni_grabber.cpp`, `oni_grabber.cpp`,
`src/io/src/openni_camera/openni_device*.cpp`).
State: `running_`, what the subscribers require, blocked signals, the streams that run,
one thread for each stream with mutex and condition, the thread that plays a file, `quit_`.
Operations: registration and connection of subscribers, `start`, `stop`, `trigger`,
`seekDepthFrame`, the destructors, the data threads, the player. The grabber starts
streams, OpenNI or the player notifies a data thread, it fetches what the generator holds
and calls the grabber back. Hard: a data thread waits without a predicate; subscribers
come and leave while frames flow; the flag that ends the player is cleared by the player.
It is correct when a stopped stream falls silent, a running grabber serves its
subscribers, and the destructor returns.

**The capture loop** (`src/gpu/kinfu_large_scale/tools/kinfuLS_app.cpp`).
State: the frame and its id under `data_ready_mutex_`, the misses in a row, the plan
(a schedule, a graph of frame pairs or a bounding box), the position in the file. Threads:
the main loop, an image and a depth thread of the device, helpers that
`ONIGrabber::trigger()` spawns to finalize. The main loop calls the grabber, the grabber
the device, the device's threads feed the synchronizer, which calls the application
back. Hard: a timed wait that races with the frame, a seek while a frame is on its way,
two families of mutexes that are taken in both orders. It is correct when frames come in
order, each edge of the graph is processed with its fragment, nobody waits for ever, and
the loop ends.

**The tracker** (`src/gpu/kinfu_large_scale/src/kinfu.cpp`, with `execute()` of the
application). State: the poses and their number, the offset left by resets, the cube,
`force_shift_`, and for SLAC the fragments, their base poses and pairs under
`slac_mutex_`, which a second thread optimizes. Operations: a frame in each odometry
mode, `reset`, the shift, the file written before it, `OptimizeSLAC`. Hard: a shift is
decided with one frame and done with the next; a reset forgets the poses but not the
shift; two threads share three lists. It is correct when the cube follows the camera, no
measurement leaves the cube unsaved, the trajectory has no jump and the optimizer works
on one moment's fragments.

**Rolling volume and world model** (`cyclical_buffer.{h,hpp,cpp}`, `world_model.hpp`,
`tsdf_volume.cu`, `colors.cu`, `device.hpp` of `src/gpu/kinfu_large_scale`).
State: the origin in the buffer and in space, the memory of two volumes, the points
kept outside the cube. Operations: integrate, shift with clearing, extraction and
restoration of slices, reset. Hard: boundaries, three axes, two directions, and two
ways of wrapping an address. It is correct when what stays in the cube keeps its cell,
what leaves goes to the world model, what comes back is restored, and reading finds
what was written.

**CloudViewer** (`src/visualization/src/cloud_viewer.cpp`).
State: a list of clouds to show, a list and a map of callables, three mutexes, the
visualizer thread. Operations: `showCloud`, the `runOnVisualizationThread` family,
construction and destruction, the visualizer's loop, the window the user closes. Hard:
clients spin for the thread; the thread shows the list backwards and clears a list it
has iterated. It is correct when clouds are shown in order, a callable runs once and
calls return.

**openni_recorder** (`src/apps/src/openni_recorder.cpp`).
State: a ring buffer, a flag, a producer and a consumer thread. Operations: push, take,
write, drain, Ctrl-C. Hard: the flag is read twice around an empty buffer, Ctrl-C
notifies nobody, the ring overwrites. It is correct when clouds are written in order,
the oldest are given up first, the consumer does not sleep on a cloud, and Ctrl-C ends
the program.

**Octree with two buffers, change detection, compression**
(`octree2buf_base.{h,hpp}`, `octree_pointcloud.hpp`, `octree_pointcloud_changedetector.h`
of `src/octree`, `octree_pointcloud_compression.hpp` of `src/io`).
State: the nodes, two arrays of children in each, two pools, counters, depth and box; an
encoder's frame counter, a stream, a decoder's octree. Operations: add and remove points,
grow, switch buffers, serialize, deserialize, delete, encode, decode. Hard: two trees
share nodes, and a node goes back to its pool only when the newer tree is walked. It is
correct when each node has one place, the tree holds the cloud, exactly the new voxels
are reported, and the decoder's cloud is the encoder's.

### 1.2 How they interact

Calls go down the path of the frame, callbacks come up it with mutexes held: the
synchronizer's three mutexes and then `data_ready_mutex_` in the callback,
`data_ready_mutex_` and then two of the synchronizer's in a seek. `TriggeredCapture`
composes these. The application calls the tracker with `data_ready_mutex_` held, so the
tracker sees one frame at a time and meets no other thread but its optimizer; that is
why `KinfuTracker` is a module of its own with frames as its input. The tracker calls the
volume synchronously, kernels included, so `RollingVolume` has shifts as its input. The
viewer and the recorder are called by grabber callbacks, that is by any thread.

## 2. Modules

| Module | Models | Extends or instantiates |
| --- | --- | --- |
| `PairStream` | what users of a synchronizer rely on | |
| `Synchronizer` | the class, at the granularity of its mutexes | `PairStream` |
| `TimeTrigger` | the trigger's state, methods and thread | |
| `PcdGrabber` | the grabber, on a trigger or on the caller's thread | `TimeTrigger` |
| `DeviceStreams` | grabbers that stream, and the threads of their device | |
| `TriggeredCapture` | the application, the triggered ONI grabber and the device | `Synchronizer` |
| `KinfuTracker` | the tracker, `execute()` and the SLAC optimizer | |
| `RollingVolume` | the cube, its buffer and the world model | |
| `CloudViewer` | the viewer, its clients and its thread | |
| `OpenniRecorder` | the recorder program | |
| `Octree2Buf` | the octree with two buffers, as operators on a record | |
| `PointCloudOctree` | change detector, encoder and decoder over it | `Octree2Buf` |
| `...Proofs` | theorems about the module of that name, with TimeTrigger's in `PcdGrabberProofs` | that module |
| `MC...` | the instances TLC checks | the module of that name |

### 2.1 How state and actions correspond to the code

*Synchronizer.* A step of a thread ends where it blocks on the next mutex or releases
one. `pc[t]` names the mutex a thread waits for (`front1`, `match`, `publishData2`,
`reset2`, ...) or the calls it is making (`call`, `finalCall`). Data are their stamps.
The stamps' arithmetic in the comparison of distances is modulo 2^w, as that of
`unsigned long`. `front()` of an empty deque leads to the place `undefined`. The roles
(`Adders0`, `Resetters`, ...) say which thread calls what: the class's comment asks
for one adder of increasing stamps for each stream, and the grabbers comply.

*PairStream.* Arrivals on two streams, and pairs of what has arrived that are younger
than all pairs before. `PairsInOrder` states that Synchronizer implements it: the
mapping is the identity on the histories `seen1`, `seen2`, `delivered`.

*TimeTrigger.* `timer` is the place of the thread in `thread_function()`: before the
test of `quit_`, before the mutex, in one of the two waits, in the callbacks. The mutex
is held across steps only in the callbacks, so it is free exactly when the thread is
not there. An interval ends at any moment. `setInterval()` is left out: it only
notifies and no grabber calls it.

*PcdGrabber.* A cloud is the place of its file in the list and of its entry in the
archive. An archive ends with a block of zeros or is cut; the header of the entry
before is then accepted once more, because `readTARHeader()` looks at a buffer that
`read()` did not fill, so its last entry may be seen as one more that cannot be read.
Clouds whose size is a multiple of the block size (`fullCloud`) are told apart: behind one
the offset moves a block too far, and the next header is missed (`Missed`, `NextEntry`).
What is read in its place is data, which is no header, unless the missed entry has no data:
then it is the header behind it. `rewound` is a history, of what was still to be published
when `rewind()` was called.
`trigger()` is three steps, between which `rewind()` on the caller's thread may come;
the increment of the iterator is not atomic and uses either value. The list, the frame
rate and the repetition are chosen in `Init`.

*DeviceStreams.* `source` says which grabber it is, which streams its device has and
whether a file is played again and again. OpenNIGrabber creates the infrared signals for
every device (`Offers`); a stream that its file does not have is silently not started
(`Missing`). `user` is the place of the one thread that owns the grabber, which goes through
the streams one by one in `start()` and `stop()`; a camera may refuse either with an
exception (`StartFails`, `StopFails`). A data thread holds its mutex from the wake-up to the
end of the fetch, so that is one step; then it calls back without it. `NewDataAvailable` is
the notification of a camera. A file's handler, on the player thread, tests the flag of the
stream in one step (`PlayerReads`) and notifies in another (`PlayerNotifies`), between which
the stream may be stopped. A data thread that does not wait misses either. `eof` is the end
of a file that is played once. `late` counts what the grabber gets of a stream that was
stopped. `overruled` records that the player thread cleared `quit_` after the destructor had
set it.

*TriggeredCapture.* `Sync` is an instance of Synchronizer over this module's threads:
the two device threads add, helpers finalize, the main thread resets and registers.
The main loop's place says whether it has `data_ready_mutex_`: it gives it up in
`timed_wait` only. `processGraphSchedule()` is one action for each mode. The device's
thread is `busy`, `waiting`, `notified` or has `fetched` what the generator held at
that moment. The application's callback is two steps, the store under the mutex and
the notification after it. Two facts are taken from the OpenNI library, which is not in
the repository: the records of the two streams alternate in the file, and a seek gives
each generator the frame sought. Two histories serve the hypotheses of properties:
`missed`, that a wait of the main loop timed out, and `crossed`, that the main loop sought
a frame while another was in a queue of `rgb_sync_` or fetched by a data thread.

*KinfuTracker.* Poses lie on one axis, the cube is known by the pose it is centred on,
and `mode` is the odometry chosen on the command line. What a registration finds, and
whether it finds anything, is nondeterministic. `app` is the place of the thread of
`execute()`: between frames, in a frame, in one that comes with a pose, waiting for
`slac_mutex_`, adding a fragment, its pairs, or starting the optimizer. A frame that comes
with a pose (`frame_ptr` with `DirectApply`, or the start of a registration) may put the
camera anywhere in `Given`, also as the first pose after a reset; the others stay in the
`Places` of the instance. `strayed` is the history of how far from the cube a given pose has
put the camera since the cube moved. `unsaved` and `base` are histories: has the volume
something no file has, and with which frame was the base pose taken. The optimizer
copies the lists in one critical section, in two steps, works without the mutex and
takes it again to write.

*RollingVolume.* Voxels are grid indices in space; a cell holds the voxel that was measured
there, so that reading the wrong cell shows. The pointer arithmetic of the kernels is
`Address`, `CellAt` and `Fetched`, the bounds of the clearing kernels are computed as
there, with their swaps for a negative shift. A kernel is one step, for its caller waits.
Where two points of the world model are pushed to one cell any of them may win.

*CloudViewer.* A client's critical section is one step, those of the visualizer thread are
several; `viz` says which mutex it holds. `viewer` is what other threads see of the
pointer that the thread sets and resets. Clouds all have one name, the worst case for order.

*OpenniRecorder.* The two mutexes are held across steps only by the consumer, so its
place says who has them. Clouds are numbered as the camera delivers them. Capacity 0 is
among the sizes: `atoi()` makes it of any word on the command line.

*Octree2Buf, PointCloudOctree.* A tree is a record, a method an operator from tree to tree,
nodes are numbers taken from the pool's least, and leaves count their points. One axis
instead of three gives a branch two children for each buffer instead of eight. The stream
is the sequence of the bit patterns the serialization writes. `regular` is a history: it
becomes false with one of the irregular uses of 3.2, where the code promises nothing,
and the model stops there.

### 2.2 What is left out of the modelled parts

Key bindings and recording of the application, its streaming callbacks, the constructors'
error paths, output modes, cropping and registration of the device, the viewer's keyboard
and mouse callbacks, the single-buffer octree, octree searches and iterators, the coding of
colours and positions within a voxel, and the entropy coder. Registration of grabber
callbacks while frames flow is modelled in Synchronizer and DeviceStreams and not in the
capture loop, whose program registers once. The recorder's signal handler runs on the main
thread, at a moment when that thread holds no mutex.

Two simplifications narrow what the capture loop's runs show. A spurious wake-up of the
main loop's `timed_wait`, which the code would take for a frame, does not occur. And what
`execute()` does while it has the mutex is one step, so the reconstruction can neither
fail nor stop the loop; `KinfuTracker` models that part by itself.

## 3. Runs

| Run | Question | Instance |
| --- | --- | --- |
| `synchronizer_feed` | are pairs current, closest and in order, and does every call return | two adders, a finalizer, a subscriber; stamps 1, 2, 5 of 5 bits; one callback, one finalize |
| `synchronizer_reset` | is what a `reset()` forgets never handed out | a resetter in place of the finalizer, two resets |
| `pcd_play` | are lists played completely, in order and again; does a rewind take effect; does the destructor return | three lists: with every kind of file and archive, as `tar` writes one, and with clouds of full blocks; streamed or not, repeated or not, two rewinds, 8 clouds |
| `capture_play` | are the frames the main loop gets in order, in turn for their edge and right for their entry, and is there no deadlock but the known one | four frames; every mode; two schedules of four; five graphs, of no edge, of one and of two edges of one or two fragments of two frames; a helper; two misses |
| `capture_loop` | does the loop end, does everyone return | two frames, no seek |
| `recorder_record` | are clouds recorded in order and completely, does the program end | sizes 0, 1 and 2, four clouds, Ctrl-C at any moment |
| `volume_shift` | does a shift keep, clear, save and restore the right voxels | 3 voxels per axis, seven offsets on all axes, three shifts |
| `volume_read` | is a voxel read where it was written: **violated** | the same, two shifts |
| `tracker` | does the cube follow, is it saved before it moves, is the trajectory whole, do fragments reach the optimizer | four modes; steps of -2, 0, 2 among three places, and poses given at one of them; fragments of two frames; ten frames |
| `viewer` | are clouds shown in order, callables run once, does every call return | two clients, one key, two calls each |
| `device_streams` | does a stopped stream stop, is every subscriber served, do frames keep coming, does the destructor return | a camera, a file without infrared, one without images, and an ONIGrabber on a file that is played once; two kinds of subscribers; three calls and the destructor, one spurious wake-up |
| `octree_frames` | has each node one place, is the tree the cloud, are the new voxels and the decoded clouds right | voxels 0, 2, 3, 6; two points a cloud; five clouds to encode; an I-frame every third; two lost frames |

Every property of a passing run has a mutant, a change to one definition as a plausible
bug would make it, under which TLC finds that property violated. So each property is
known to depend on the code it is about.

### 3.1 Bounds and why they are enough

*Synchronizer.* Three stamps with unequal gaps on each stream give queues in which trimming
drops two data, in which the nearer neighbour is the older and the younger one, and in
which one datum is left over for `finalize()`. One more subscriber, finalizer or callback
repeats what one does, as each action touches a single thread and the map is only iterated.
Stamps of 5 bits do not overflow the doubled stamp; the theorems hold for any width, but
`ClosestPublished` fails where the doubled stamp does not fit, which is why the width is a
parameter and its theorem has the hypothesis `NoWrap`.

*PcdGrabber.* The three lists hold an archive that is cut, one that ends in a file that is no
cloud, one without a regular file, an archive as `tar` writes it, a file nobody can read
and single clouds before and after them; clouds of full blocks come before an entry without
data, before a cloud, which is missed, and at a cut end; a repeated list wraps within the
eight clouds counted. Two rewinds are enough for one to come before the other has had its
effect. Publishing stops at `MaxPublished`; the liveness properties say what must happen
up to the bound.

*Capture.* `Rate = 2` gives fragments of two frames, so that a fragment has a way from its
head to its last frame; two edges share a fragment or not, start from one frame or not,
and one starts from a frame that is passed on that way. The schedules go on, stay, and go
back, with a seek and without. `MaxMisses` is 20 in the code
and 2 here: the count is only compared. `MaxCalls` bounds the seeks and the helpers. The
view hides the histories of the synchronizer and variables that are written before they
are read again; no property of that run mentions what it hides. `capture_loop`, which has
a liveness property, uses no view.

*Volume.* With three voxels an axis has a first, an inner and a last plane, and offsets of
1 and 2 to both sides cross the end of the buffer; three shifts go there, back and across.
`Reach` keeps the cube within two voxels of its first place, so that what has left can
come back. The proofs take over for every size.

*Tracker.* Fragments of two frames give five in ten frames, one more than the four that
start the optimizer. Steps of two exceed the shifting distance of one, so that a shift
follows any movement, and ten frames hold a reset, a lost frame and a shift between them.
Of the three places the outer ones are farther apart than `CubeFollows` allows when no shift
was given up, and the given pose is one of them.

*Viewer.* Two clients meet in each list; a callable is posted, replaced and removed with
two calls on one key. *Device.* Three calls are enough to subscribe, start, and subscribe
again or stop; the destructor, which is not counted, may come at any point, so a stream is
also stopped with three calls behind it. *Recorder.* Four clouds overflow each buffer of size up to 2 and
leave one for the drain.

*Octree.* Voxels 0, 2, 3, 6 need depths up to three, so that a tree grows to both sides
and twice; two points share a leaf or not. The memory for nodes is larger than any two
trees need, so it is never exhausted. The view replaces the numbers of nodes by the shape
of the trees, since equal nodes are interchangeable, and keeps the sizes of the pools.

The systems stop by design (the file ends, the program exits, the calls are used up),
so no passing run but `volume_shift` checks for deadlock as such; that a thread is stuck
is stated by `CallsReturn`, `MainLoopEnds`, `NoOtherDeadlock`, `EndsOrWaits`,
`DestructorReturns` and `FragmentsOptimized`.

### 3.2 Where the code and its comments disagree

`volume_read` finds that the kernels read a voxel elsewhere than the slice operations put
it. `shift_tsdf_pointer()` adds the origin to an address and wraps it at the end of the
memory only (`device.hpp:54`, with the comment "make sure to "modulo" the new value"),
clearing and pushing wrap each axis. As long as the cube moves along z alone the two
agree, as TLAPS proves: step by step in `ReadsFollow`, and for whole behaviours of such a cube in
`ReadsBackStraight`, which is `ReadBack` itself. After a shift along x or y they do not.

The following were met while modelling. The models have them, and the properties
exclude exactly them, so each is visible in a definition:

1. `Synchronizer` says it is thread safe (`synchronizer.h:47`), yet `reset()` does not take
   `publish_mutex_` (`:117`): between `publish()`'s decision and `publishData()` it empties
   the queues whose fronts are then handed out. The place `undefined`; the hypothesis
   `Resetters = {}` of two theorems.
2. The timer thread tests `quit_` before it takes the mutex and then waits because
   `running_` is false; a destructor in between has notified nobody and its `join()` waits
   for ever (`time_trigger.cpp:109`). `DestructorReturns` of PcdGrabber excepts it.
3. The main loop seeks with `data_ready_mutex_` held, which resets the synchronizer, while
   a late frame's thread is in the callback with the synchronizer's mutexes and waits for
   `data_ready_mutex_` (`kinfuLS_app.cpp:1482`). `SeekDeadlock`; `NoOtherDeadlock` says
   there is no other: one of the threads may go on (`SomeoneMayGoOn`), and whoever may go
   on has a step.
4. After a seek to the next fragment a timeout leaves the old frame id in place; when the
   next edge starts from that very frame, it is taken for processed (`:1470`, `:1491`). So
   `EdgesProcessed` speaks of runs without a miss, but for the head. And when the first
   frame of an edge is passed on the way to the last of its fragment, the edge is left
   there, and so is short of the fragment's last frame the next edge of that fragment, to
   which the loop does not seek (`CutShort`).
5. Ctrl-C between the test of `is_done` in the recorder's loop and the one inside
   `getFront()` makes the consumer take the front of an empty ring
   (`openni_recorder.cpp:136`), and it does not wake a consumer that waits (`:212`).
   `EndsOrWaits` names both.
6. The player thread of a file clears `quit_` when it starts, perhaps after the destructor
   has set it (`openni_device_oni.cpp:187`). `overruled`.
7. The octree: `removeLeaf()` on a tree that shares nodes with the one before, or of a voxel
   that is not there, which still lowers `leafCount_`; points in a preset box nobody
   defined; a box that is defined again with points in the tree; a decoder that was given
   a P-frame for another tree. `regular` ends there.
8. A frame that a data thread has fetched when the main loop seeks (`openni_device.cpp:719`)
   is added to the synchronizer after `reset()`, and is handed to the main loop, which
   takes it for the frame it sought. `ScheduleFollowed` and the tail of `EdgesProcessed`
   speak of runs in which no frame crosses a seek (`crossed`), as does `EdgeFramesInTurn`.
9. Behind a cloud in an archive whose size is a multiple of 512 the grabber skips a block too
   many (`pcd_grabber.cpp:140`, `:167`: `512 - size % 512` is 512), so the next header is
   missed and, but for an entry without data, the rest of the archive is lost. `Missed`;
   `Clouds` counts an archive up to there (`Passed`), and so do the properties.
10. "Rewinds to the first PCD file in the list" (`pcd_grabber.h:115`): what comes after
   `rewind()` is the cloud that was read ahead, then the rest of the archive that is open, and
   only then the first file. `RewindHeeded` states exactly that.
11. A reset with `DirectApply` makes the given pose the first one of the new session
   (`kinfu.cpp:610`), which the application gives as an absolute pose (`kinfuLS_app.cpp:1554`),
   while `reset()` has put the way so far into `init_trans_` and the cube back to its origin:
   the way counts twice and the camera may be far from the cube. `NoJump` excepts the frames
   that come with a pose, and `CubeFollows` widens its bound by `strayed`.
12. A subscriber to infrared is accepted on a file without it (`openni_grabber.cpp:84`), and
   `startIRStream()` then does nothing (`openni_device_oni.cpp:141`): nobody tells the
   subscriber that nothing will come. `Missing` in `SubscribersServed`.
13. The handlers of a file test the running flag before they notify and without a mutex
   (`openni_device_oni.cpp:228`), so that a stopped stream may deliver two more frames: the
   one its thread was busy with and the one that was being announced. `StopStops` allows 2
   for files and 1 for cameras.
14. An exception in `stop()` leaves the grabber running (`openni_grabber.cpp:257`), and in the
   destructor leaves its callbacks registered (`:147`). `refused` records it.

### 3.3 Fairness

* Synchronizer, `WF(Continue(t))` for each thread: the scheduler runs a thread whose next
  mutex stays free. No thread is obliged to call a method. Weak fairness is enough, for
  the calls others can make while a thread waits are bounded.
* TimeTrigger and PcdGrabber, `WF(TimerRuns)` and `WF(TriggerRuns)`: the thread runs, a
  timed wait times out, a trigger that has begun goes on. The caller is free. A spurious
  wake-up is never owed.
* TriggeredCapture, `WF(Thread(t))`: each thread is scheduled. The main loop is polled by
  its time-out; the device threads owe nothing but to come back to their wait. A frame
  may always come too late.
* DeviceStreams, weak fairness of a call that has begun, of the player and of each data
  thread; strong fairness of a frame of each stream while its thread waits (`Frames(s)`):
  a camera, or a file played at the speed it was recorded with, makes frames more slowly than
  a thread handles one, so it does not miss all of their notifications. It may miss any one,
  the last one of a file included, and after the end of a file that is played once nothing
  is owed: `FramesKeepComing` excepts `eof`. The end itself is not owed, nor does the user
  owe a call.
* KinfuTracker, weak fairness of what the two threads do outside the mutex or with it;
  strong fairness of taking it: the optimizer works for seconds without the mutex and holds
  it for moments, and so does the tracker. The user owes no key, the camera no frame.
* CloudViewer, weak fairness of the visualizer thread, the owner and the client's
  polling; strong fairness of `Post(c)`, since the mutex is free while the thread handles
  the events of its window, which is most of the time. Nobody has to call or close.
* OpenniRecorder, weak fairness of the callback, the stop of the grabber, the consumer and
  `main()`. Neither the camera nor the user owes anything.

RollingVolume and the octree run in their caller and have no liveness of their own.

## 4. Proofs

All theorems hold for every value of the constants that satisfies the named assumptions
of the modules (`ConstantsAssumption`, `PlaylistAssumption`, `RecorderAssumption`,
`VolumeAssumption`, `StreamsAssumption`, `TrackerAssumption`, `StepsAssumption`,
`ViewerAssumption`, `ModesAssumption`, `ThreadsAssumption`), and TLC evaluates them in every
run. They are about types and ranges, but for three: some step of the camera is the longest,
the application's threads are distinct, and the viewer's callables have finitely many keys.
Each proof has the shape: an invariant that is inductive, one step per action, the
property from the invariant.

**Synchronizer.** `BaseInv` (types, `LocksOwned`, who is calling has fronts and only who
is calling has callbacks to call, those being registered) holds with `reset()` too: a
place determines the mutexes owned, so two threads are never both inside
`publish_mutex_`. `FreshInv` adds what has arrived and `QueuesFresh`; it is
inductive because trimming, popping and clearing leave an ordered queue ordered and take
from its front. From both follow `ForgottenNotDelivered`, and `ImplementsPairStream`: the
steps of the three mutexes implement the abstract stream of pairs, a step of the class
being an arrival, a delivery or a stutter. `SnapshotCurrent`, that the fronts `publish()`
compared are those it hands out, and `FrontsDefined` need `IInv`, which is inductive where
nobody resets (`Resetters = {}`; with a reset they are false, 3.2): only the holder of
`publish_mutex_` pops, `add0` and `add1` append behind the fronts, and `MatchedType` shows
that trimming never empties a queue. `ClosestPublished` is proved under the same hypothesis and `NoWrap`: the doubled
stamps fit the width, as in every run. `ClosestInv` says of data that were trimmed without
having been handed out (`NearInv`), and of the one queued behind the front (`FarInv`),
that they are no nearer to the other stream's front than the own front is.
`SomeoneMayContinue` is deadlock freedom with resets included: the mutexes are taken in one
order, so whoever holds the last of them can go on, unless a reset left somebody at the
front of an empty queue. `CallsAreBounded` counts the steps left of a call: each step of
its thread is one less, and no other thread adds any.

**PcdGrabber and TimeTrigger.** `StoppedTriggerSilent`: no callback of a stopped trigger.
`StreamedUnderMutex`: every step of a streamed `trigger()` is under `condition_mutex_`,
which ties the grabber's place to the timer's and is what makes `stop()` and the
destructor safe for the reader's state. The invariant is their conjunction. `TypeCorrect`
needs `OnList`: between reading a file and `++pcd_iterator_` the iterator is on the list,
although `rewind()` may come in between. `ListPlayedInOrder`: without a rewind the clouds
come in the order of the list and of each archive, none skipped but those that cannot be
read and what an archive has behind a header that is missed (3.2), repeated lists included.
`OrderInv` relates three places in the list, that of the cloud
published last, of the one read ahead, and of the reader: no readable cloud lies between one
and the next, also around the end of a repeated list. `RewindsToFirst` is
`RewindHeeded`, for every list and wherever `rewind()` was called. `RewindInv` follows the
effect of the last call: while the first cloud is awaited, what is read ahead is of the
archive that was open and the reader is in it or at the beginning of the list; once the
first cloud has been read ahead, it is published next. `ReaderNeverStays`: without a rewind each search for a cloud takes
`readAhead()` to a later place of the list, or to the beginning of a repeated one, or ends
the stream. `DestructorJoins`: no callback runs when the destructor sets `quit_`, and the timer thread
has two steps left, unless the notification found it before the mutex (3.2).

**OpenniRecorder.** `TypeCorrect`, with the bound of the ring by its capacity, which may
be 0 (`RingType`), strengthened by: the consumer has a cloud when it writes.
`WakeupNeverLost`, strengthened by `EmptyUntilWait`: the consumer keeps the buffer's mutex
between its test and its wait, so what it found empty still is. `RecordsInOrder`, by
`RecordInv`: the buffer holds the last clouds delivered, one after the other; of those
before them each is on disk, in the writer's hand or overwritten, the disk in order and
older than the hand; `ConcatIncreasing` puts the three together. `WritesRemaining`, that the
program ends only when each cloud delivered before Ctrl-C is on disk or overwritten, adds
`EndInv`: the consumer drains only after
Ctrl-C, and `main()` returns only after the consumer. `RecorderNotStuck` and
`RecorderStepsBounded` speak of what follows Ctrl-C: somebody may go on, but for the two
ways of 3.2 and never while the buffer is drained, and `StepsLeft` falls with every step:
a cloud the camera still delivers takes away more than it adds to the buffer.

**RollingVolume.** `VolumeInv` = types and `OriginCongruent`: the rolling origin is the global
one modulo N although `shiftOrigin()` wraps once. With lemmas on division it gives the
action properties: `CubeSlides`, `NoStaleColor`, `LeavingExtracted`, `WorldRestored` and
`ReadsFollow`, for any N and any offsets below it. `ReadsBackStraight` has the hypothesis
`Straight`, offsets along z only: then each cell holds the voxel of the slice it belongs to
(`AtHome`) and the world model knows each voxel as itself, and that is inductive, through the
clearing of planes and the points that come back. Without it TLC refutes `ReadBack` (3.2).

**KinfuTracker.** `TrackerInv` ties the number of poses to the frame counter, the saved
flag to the place of the loop, and the lists of fragments, bases and pairs to each other and
to who has `slac_mutex_` (`Growing`, `SnapshotInv`). It gives `PosesMatchTime`,
`FragmentOneBase`, `SnapshotConsistent`, `OneOptimizer`, and as action properties
`SavedBeforeShift` and `NoJump`. `CubeStaysAround` is the bound of `CubeFollows`: the
camera's target is within the threshold of the cube's middle, or where a given pose has put it, and a longest step for the
frame just registered, one more while a shift is due, and one for each shift given up.
`FollowInv` counts those steps, with what holds between two frames: within the threshold, or
a shift is due, or one was given up. `ReleasesMutex`: whoever has `slac_mutex_` needs nobody
to release it, and at most two steps. `CopiesAllFragments`: from four fragments on the
optimizer runs (`RoundInv`), each step brings it nearer to its next copy, and that has all the
fragments there are.

**CloudViewer.** `ViewerInv`: the list holds one cloud for each client that waits, and the one
just shown (`ListInv`); what a client is posting has not been shown, and nothing is shown that was not posted (`CallsInv`);
what the loop has yet to call is in the map (`TodoInv`). It gives `ShownInOrder` and
`RemovedNotCalled`. `RunsAtMostOnce` is the safety half of `RunExactlyOnce`: a callable that
has run is not in the list any more, but for the moment in which the thread, with
`once_mtx`, has run the list and not yet cleared it (`OnceInv`). `OnceNeverDropped` is the other
half but for fairness: what leaves the list has run, for while it is about to be cleared all of it
has (`ClearInv`). `NobodyForgotten`: whoever waits has his cloud in the list or on the
screen, or is the constructor or destructor and the thread has that before it (`WaitInv`).
`ServesAllInRound`: a round shows the clouds of all who wait. `RoundsBounded`: clients
cannot prolong a round, nor the thread's end after `quit`.

**DeviceStreams.** `StreamsInv`: outside of `start()` what is required runs and, but for what a
subscriber that left has needed, nothing else does (`RequiredRuns`, `OnlyRequiredRuns`);
signals are blocked while the grabber starts; and the late frames of a stream are counted
against the place of its thread, the frame the player thread is announcing and the spurious
wake-ups (`FewLate`). It gives `SubscribersServed`, `NotIrAndImage`,
`SignalsUnblocked` and `StopStops`. `LeaveInv` adds where the destructor is. It gives
`DestructorJoins`: a thread it joins ends within a bounded number of steps, but for the player
thread that has cleared `quit_` (3.2), which plays for good; and `SuppliesStreams`: the data
thread of a stream that runs lives and comes nearer to its next frame with each step.

**TriggeredCapture.** `CaptureInv`, types and the `BaseInv` of `rgb_sync_`, is inductive: the
theorems of the synchronizer's module are cited for the instance, so its proofs are not
repeated. From it and from invariants of their own follow:

* `PlainUsesSync`: a behaviour without seeks is one of Synchronizer where nobody resets, with
  the device's threads as its adders, for each stream is read in the order of the file
  (`PlainInv`). So `rgb_sync_` is a `PairStream` here, too (`PlainPairsInOrder`), and
  `FramesInOrder` follows from the order of the pairs.
* `OnlySeeksDeadlock`, the safety half of `NoOtherDeadlock`: but for `SeekDeadlock` and a thread
  at the front of an empty queue, somebody may go on (`MainPlace`, and the order of the
  mutexes as in `SomeoneMayContinue`).
* `ScheduleFollowed`, `EdgesProcessed` and `EdgeFramesInTurn`, by `PlannedInv`. While the loop is after frame
  g and nothing was missed or has crossed a seek (`FollowInv`), each stream is in order from
  its queue over its thread to the generator and holds nothing but g and what comes after
  it, the threads that are publishing have decided for g, and none has handed out
  another (`Round`); and g is what the plan says comes next, the entry's frame, or in a
  graph one on the way from the head of a fragment to its last frame (`Wanted`). A seek
  starts a round, `woken` ends it, and the next begins with g + 1 or with a seek. `Turn` adds
  that g is what the edge calls for after the frame the loop has, which is what
  `EdgeFramesInTurn` says of the frame that is handed over. `HeadInv` gives the half of `EdgesProcessed` that needs no hypothesis.
* `LoopIsBounded`: without seeks every step of the main loop lowers the triple of the pairs
  that can still come, the misses left after the last of them, and the steps left of the
  iteration, and no other thread raises it. `CallsInCaptureBounded` is `CallsAreBounded` of `rgb_sync_`
  with the application's threads, cited like `BaseInv`.

The last of these proofs corrected the model: an edge whose first frame is passed on the way to
its fragment's last one was not among the graphs that were checked, and `EdgesProcessed`
did not except it. `CutShort` does, and a graph of the run now has such an edge.

**Proved and not in a run.** The types of all modules with proofs (that of TriggeredCapture
is in the run as a part of `NoOtherDeadlock`), and `LocksOwned`, `FrontsDefined`,
`OnlyRegisteredCalled`, `NeverAllBlocked`, `CallsOnlyWhileRunning`, `TriggerUnderMutex`,
`NoLostWakeup`, `OriginCongruent`, `NoStaleColor`, `PosesMatchTime`, `FragmentOneBase`,
`OneOptimizer`, `RemovedNotCalled`, `NotTwice`, `SomeoneMayGoOn` and `SignalsUnblocked`: they
hold for every instance by their theorem.

**Only model-checked.** Temporal properties under fairness are beyond the prover. What they
rest on is proved: that whoever waits is not forgotten, that somebody may go on, and that only
a bounded number of steps lies before the end. The step from there to the property, that
threads which may go on do, is in no theorem, and TLC checks the whole:

| Liveness property | Proved of it |
| --- | --- |
| `CallsReturn` of Synchronizer | `SomeoneMayContinue`, `CallsAreBounded` |
| `CallsReturn` of CloudViewer | `NobodyForgotten`, `ServesAllInRound`, `RoundsBounded` |
| `RunExactlyOnce` | `RunsAtMostOnce`, `OnceNeverDropped`, `RoundsBounded` |
| `StreamPlaysAll` | `ListPlayedInOrder`, `ReaderNeverStays` |
| `DestructorReturns` of PcdGrabber and of DeviceStreams | `DestructorJoins` of each |
| `FramesKeepComing` | `SuppliesStreams` |
| `EndsOrWaits` | `RecorderNotStuck`, `RecorderStepsBounded` |
| `FragmentsOptimized` | `ReleasesMutex`, `CopiesAllFragments` |
| `MainLoopEnds` | `OnlySeeksDeadlock`, `CallsInCaptureBounded`, `LoopIsBounded` |

Nothing but TLC's runs stands behind the last conjunct of `NoOtherDeadlock`, which uses ENABLED,
and behind the octree's `NodesOwned`, `CloudInTree`, `NewVoxelsReported` and
`DecodedAsEncoded`, whose walks are recursive operators, which the prover does not accept.

## 5. Hazards without a property

* One stream stops and the other's queue grows: `synchronizer.h:82`.
* A callback that calls back into its trigger waits for a mutex its own thread has
  (`time_trigger.cpp:113`); the triggers of a program share a static time (`:105`).
* `isRunning()` reads an iterator that is ahead of what was published: `pcd_grabber.cpp:288`.
* The recorder's signal handler locks a mutex that the thread it interrupts may hold:
  `openni_recorder.cpp:209`.
* A directory of PCD files goes with the triggered loop only by the options the user
  gives: `kinfuLS_app.cpp:3097`.
* The reference count of GPU memory is shared by copies in several threads:
  `device_memory.cpp:192`.
* In `kinfu.cpp`: a reset keeps the world model (`:544`) and the fragments (`:2860`), the
  optimizer is detached and outlives the tracker (`:2939`), the first list of pairs is
  read before there is one (`:2951`), a counter is compared with the number of poses
  (`:4361`). In `kinfuLS_app.cpp:1872` one odometry never ends the loop.
* A callable that posts another one meets a mutex its own thread has:
  `cloud_viewer.cpp:183`.
* The device's callback maps are iterated without their lock (`openni_device.cpp:726`), and
  a data thread may make a virtual call while the object is being destroyed (`:725`).
* What a decoder does with a P-frame for another tree, and the other irregular uses of
  3.2: `octree_pointcloud_compression.hpp:602`, `octree2buf_base.hpp:493`, `:500`, `:630`,
  `octree_pointcloud.hpp:517`.

## 6. Not modelled, and what could come next

`PROJECT.json` lists every component with the reason. Most of the lines of the repository
are of the first three sorts, so the models cover a small share of its lines, although
they cover most of its concurrency.

* Numerics without state between calls: registration's estimators, segmentation, filters,
  features, keypoints, surface, search, tracking, recognition, the GPU kernels apart from
  the arithmetic of the rolling buffer. A model would restate floating point formulas.
* Vendored and generated code: openNURBS (`src/surface`), the decision trees of AGAST
  (`src/keypoints`), and the like, which belong to other projects.
* Formats, rendering, user interfaces, examples, tests and documentation.
* Left for later modules, because they have state: the reference count of GPU memory,
  DinastGrabber, the write buffer of the out-of-core container, the range coder, the loops
  of ICP and RANSAC, the threads of the in-hand scanner.

For the modules here, what is worth adding is a `rewind()` while streaming. What is worth
proving next are the facts the octree's operators rest on that need no recursion, the pool
and the children of a node, in a module that the recursive walks do not reach.
