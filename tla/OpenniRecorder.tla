--------------------------- MODULE OpenniRecorder ---------------------------
(***************************************************************************)
(* The openni_recorder program: the grabber's thread pushes clouds into a  *)
(* ring buffer, a consumer thread writes them to disk, and Ctrl-C sets a   *)
(* flag that ends both.  The buffer's mutex and io_mutex are held across   *)
(* steps only by the consumer, so its place tells who owns them.  Clouds   *)
(* are numbered in the order the camera delivers them.                     *)
(***************************************************************************)
EXTENDS Integers, Sequences, FiniteSets

CONSTANTS
    Capacities,  \* the buffer sizes the program is started with
    MaxClouds    \* bound: clouds the camera delivers

ASSUME RecorderAssumption == Capacities \subseteq Nat /\ MaxClouds \in Nat

VARIABLES
    capacity,      \* buffer_.capacity()
    buffer,        \* buffer_, oldest first
    isDone,        \* is_done
    grabber,       \* where the grabber's thread is in grabberCallBack()
    pushed,        \* history: clouds delivered so far
    overwritten,   \* history: clouds that fell out of the full buffer
    producer,      \* grabAndSend(): "unborn", "running", "stopped"
    consumer,      \* where the consumer thread is
    draining,      \* it is in the second loop of receiveAndProcess()
    inHand,        \* the cloud getFront() returned
    written,       \* history: the files on disk
    main           \* where main() is

pushVars == <<grabber, pushed, overwritten>>
threadVars == <<producer, main>>
consumerVars == <<consumer, draining, inHand, written>>
vars == <<capacity, buffer, isDone, pushVars, threadVars, consumerVars>>

Init ==
    /\ capacity \in Capacities
    /\ buffer = <<>>
    /\ isDone = FALSE
    /\ grabber = "idle" /\ pushed = 0 /\ overwritten = {}
    /\ producer = "unborn" /\ main = "startProducer"
    /\ consumer = "unborn" /\ draining = FALSE /\ inHand = 0
    /\ written = <<>>

(* The consumer keeps the buffer's mutex while it locks io_mutex inside    *)
(* getFront(), and io_mutex while it asks for the size of what remains.    *)
BufferMutexFree == consumer # "ioLock"

(* Mutant: io_mutex is not given back after the announcement. *)
IoMutexKept == consumer # "size" /\ ~draining

IoMutexFree == consumer # "size"

-----------------------------------------------------------------------------
(* grabberCallBack(): pushBack(), notify_one(), and the warning.           *)

(* push_back() of a full circular_buffer drops the front, one of capacity  *)
(* 0 stays empty.                                                          *)
Ring(s) == SubSeq(s, Len(s) - (IF Len(s) <= capacity THEN Len(s) ELSE capacity) + 1, Len(s))
SetOf(s) == {s[i] : i \in 1 .. Len(s)}

PushBack ==
    /\ grabber = "idle" /\ producer = "running" /\ pushed < MaxClouds
    /\ BufferMutexFree
    /\ LET all == Append(buffer, pushed + 1) IN
         /\ buffer' = Ring(all)
         /\ overwritten' = overwritten \union (SetOf(all) \ SetOf(Ring(all)))
    /\ pushed' = pushed + 1
    /\ grabber' = IF Len(buffer) < capacity THEN "notify" ELSE "notifyAndWarn"
    /\ UNCHANGED <<capacity, isDone, threadVars, consumerVars>>

AfterNotify == IF grabber = "notify" THEN "idle" ELSE "warn"

Notify ==
    /\ grabber \in {"notify", "notifyAndWarn"}
    /\ grabber' = AfterNotify
    /\ consumer' = IF consumer = "waiting" THEN "front" ELSE consumer
    /\ UNCHANGED <<capacity, buffer, isDone, pushed, overwritten, threadVars,
                   draining, inHand, written>>

Warn ==
    /\ grabber = "warn" /\ IoMutexFree
    /\ grabber' = "idle"
    /\ UNCHANGED <<capacity, buffer, isDone, pushed, overwritten, threadVars, consumerVars>>

(* grabAndSend() looks at is_done once a second and stops the grabber. *)
StopGrabber ==
    /\ producer = "running" /\ isDone
    /\ producer' = "stopped"
    /\ UNCHANGED <<capacity, buffer, isDone, pushVars, main, consumerVars>>

-----------------------------------------------------------------------------
(* receiveAndProcess() and getFront().                                     *)

ConsumerGoto(from, to) == consumer = from /\ consumer' = to

CheckDone ==
    /\ \/ ~isDone /\ ConsumerGoto("loop", "front")
       \/ isDone /\ ConsumerGoto("loop", "announce")
    /\ UNCHANGED <<capacity, buffer, isDone, pushVars, threadVars, draining, inHand, written>>

(* Mutant: the last cloud of the buffer is taken. *)
TakeBack ==
    /\ ConsumerGoto("front", "write")
    /\ buffer # <<>>
    /\ inHand' = buffer[Len(buffer)]
    /\ buffer' = SubSeq(buffer, 1, Len(buffer) - 1)
    /\ UNCHANGED <<capacity, isDone, pushVars, threadVars, draining, written>>

TakeFront ==
    /\ ConsumerGoto("front", "write")
    /\ buffer # <<>>
    /\ inHand' = Head(buffer)
    /\ buffer' = Tail(buffer)
    /\ UNCHANGED <<capacity, isDone, pushVars, threadVars, draining, written>>

(* front() and pop_front() of an empty buffer are undefined behaviour. *)
FrontOfEmpty ==
    /\ buffer = <<>>
    /\ \/ isDone /\ ConsumerGoto("front", "undefined")
       \/ ~isDone /\ ConsumerGoto("front", "ioLock")
    /\ UNCHANGED <<capacity, buffer, isDone, pushVars, threadVars, draining, inHand, written>>

(* io_mutex is taken and released, then wait() gives the buffer's mutex up. *)
WaitForCloud ==
    /\ ConsumerGoto("ioLock", "waiting") /\ IoMutexFree
    /\ UNCHANGED <<capacity, buffer, isDone, pushVars, threadVars, draining, inHand, written>>

SpuriousWakeup ==
    /\ ConsumerGoto("waiting", "front")
    /\ UNCHANGED <<capacity, buffer, isDone, pushVars, threadVars, draining, inHand, written>>

WriteToDisk ==
    /\ ConsumerGoto("write", IF draining THEN "isEmpty" ELSE "loop")
    /\ written' = Append(written, inHand)
    /\ UNCHANGED <<capacity, buffer, isDone, pushVars, threadVars, draining, inHand>>

(* "Writing remaining ... clouds": buff.getSize() with io_mutex held. *)
Announce ==
    /\ \/ ConsumerGoto("announce", "size")
       \/ BufferMutexFree /\ ConsumerGoto("size", "isEmpty")
    /\ draining' = TRUE
    /\ UNCHANGED <<capacity, buffer, isDone, pushVars, threadVars, inHand, written>>

(* Mutant: the rest of the buffer is not written. *)
CheckNothing ==
    /\ ConsumerGoto("isEmpty", "done")
    /\ UNCHANGED <<capacity, buffer, isDone, pushVars, threadVars, draining, inHand, written>>

CheckEmpty ==
    /\ \/ buffer = <<>> /\ ConsumerGoto("isEmpty", "done")
       \/ buffer # <<>> /\ ConsumerGoto("isEmpty", "front")
    /\ UNCHANGED <<capacity, buffer, isDone, pushVars, threadVars, draining, inHand, written>>

-----------------------------------------------------------------------------
(* main(): start both threads, join both; Ctrl-C may come once the handler *)
(* is installed, on the main thread.                                       *)

MainGoto(from, to) == main = from /\ main' = to

StartProducer ==
    /\ MainGoto("startProducer", "startConsumer")
    /\ producer' = "running"
    /\ UNCHANGED <<capacity, buffer, isDone, pushVars, consumerVars>>

StartConsumer ==
    /\ MainGoto("startConsumer", "joinProducer")
    /\ consumer' = "loop"
    /\ UNCHANGED <<capacity, buffer, isDone, pushVars, producer, draining, inHand, written>>

JoinProducer ==
    /\ producer = "stopped"
    /\ IoMutexFree
    /\ MainGoto("joinProducer", "joinConsumer")
    /\ UNCHANGED <<capacity, buffer, isDone, pushVars, producer, consumerVars>>

JoinConsumer ==
    /\ consumer = "done"
    /\ MainGoto("joinConsumer", "end")
    /\ UNCHANGED <<capacity, buffer, isDone, pushVars, producer, consumerVars>>

CtrlC ==
    /\ main = "joinProducer" /\ ~isDone
    /\ IoMutexFree
    /\ isDone' = TRUE
    /\ UNCHANGED <<capacity, buffer, pushVars, threadVars, consumerVars>>

-----------------------------------------------------------------------------
Callback == Notify \/ Warn
Consume ==
    \/ CheckDone \/ TakeFront \/ FrontOfEmpty \/ WaitForCloud \/ WriteToDisk
    \/ Announce \/ CheckEmpty
Main == StartProducer \/ StartConsumer \/ JoinProducer \/ JoinConsumer

Next == PushBack \/ Callback \/ StopGrabber \/ Consume \/ SpuriousWakeup \/ Main \/ CtrlC

Spec == Init /\ [][Next]_vars

(* The threads run; nothing makes the camera deliver or the user stop it.  *)
FairSpec ==
    /\ Spec
    /\ WF_vars(Callback) /\ WF_vars(StopGrabber) /\ WF_vars(Consume) /\ WF_vars(Main)

-----------------------------------------------------------------------------
TypeOK ==
    /\ capacity \in Capacities
    /\ buffer \in Seq(1 .. MaxClouds) /\ Len(buffer) <= capacity
    /\ isDone \in BOOLEAN /\ draining \in BOOLEAN
    /\ grabber \in {"idle", "notify", "notifyAndWarn", "warn"}
    /\ pushed \in 0 .. MaxClouds
    /\ overwritten \subseteq 1 .. MaxClouds
    /\ producer \in {"unborn", "running", "stopped"}
    /\ consumer \in {"unborn", "loop", "front", "ioLock", "waiting", "write", "announce",
                     "size", "isEmpty", "done", "undefined"}
    /\ inHand \in 0 .. MaxClouds
    /\ written \in Seq(1 .. MaxClouds)
    /\ main \in {"startProducer", "startConsumer", "joinProducer", "joinConsumer", "end"}

(* Every cloud the camera delivered is in exactly one place, oldest first: *)
(* on disk, with the writer or in the buffer, unless it was overwritten,   *)
(* and what was overwritten is older than all that is still buffered.      *)
Track == written \o (IF consumer = "write" THEN <<inHand>> ELSE <<>>) \o buffer
RecordedInOrder ==
    /\ \A i, j \in 1 .. Len(Track) : i < j => Track[i] < Track[j]
    /\ SetOf(Track) \union overwritten = 1 .. pushed
    /\ SetOf(Track) \intersect overwritten = {}
    /\ \A o \in overwritten : \A i \in 1 .. Len(buffer) : o < buffer[i]

(* The consumer sleeps only on an empty buffer: a push between its test    *)
(* and its wait() does not go unnoticed.                                   *)
NoLostWakeup ==
    consumer = "waiting" /\ buffer # <<>> => grabber \in {"notify", "notifyAndWarn"}

(* When the program has ended, every cloud delivered before Ctrl-C is on   *)
(* disk or was overwritten, however early the consumer found the buffer    *)
(* empty; of those delivered after it some may be lost.                    *)
RemainingWritten ==
    \A c \in 1 .. MaxClouds :
        [](~isDone /\ pushed >= c
             => [](main = "end" => c \in SetOf(written) \union overwritten))

(* "Press Ctrl-C to end": both threads end and main() returns, but for a    *)
(* consumer that waits for a cloud which nobody will deliver any more, or   *)
(* that has run into the front of an empty buffer, which cannot happen     *)
(* where it writes the remaining clouds.                                   *)
EndsOrWaits ==
    isDone ~>
        \/ main = "end"
        \/ consumer = "undefined" /\ ~draining
        \/ [](consumer = "waiting")
=============================================================================
