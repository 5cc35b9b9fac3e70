--------------------------- MODULE DeviceStreams ---------------------------
(***************************************************************************)
(* A grabber that streams from an OpenNI device.  OpenNIGrabber starts the *)
(* streams its subscribers need, of a camera or of a file that plays like  *)
(* one; ONIGrabber starts all streams of its file.  The device has a       *)
(* thread for each stream, which waits for a notification of OpenNI, or of *)
(* the player thread of a file, fetches the frame and calls the grabber.   *)
(* What a frame shows is left out.  A data thread holds its mutex from the *)
(* wake-up to the end of the fetch: one step.                              *)
(***************************************************************************)
EXTENDS Integers, FiniteSets

CONSTANTS
    Devices,      \* what may be opened, see StreamsAssumption
    Signals,      \* what subscribers may ask for, see Needs
    MaxCalls,     \* bound: calls of the user
    MaxSpurious   \* bound: wake-ups without a notification

Streams == {"image", "depth", "ir"}

(* A "camera" or a "file" is opened by OpenNIGrabber, an "oni" file by     *)
(* ONIGrabber, which can also play it once only.  There is always depth.   *)
ASSUME StreamsAssumption ==
    /\ Devices \subseteq [kind : {"camera", "file", "oni"}, streams : SUBSET Streams,
                          repeat : BOOLEAN]
    /\ \A d \in Devices :
        /\ "depth" \in d.streams
        /\ d.kind = "camera" => "ir" \in d.streams
        /\ d.kind = "file" => d.repeat
    /\ Signals \subseteq {"image", "depth", "pair", "ir", "irPair"}
    /\ MaxCalls \in Nat /\ MaxSpurious \in Nat

VARIABLES
    source,      \* the device that was opened
    user,        \* where the thread is that owns the grabber
    todo,        \* streams start() or stop() has yet to reach
    calls,       \* bound
    slots,       \* the signals with a subscriber
    required,    \* image_required_, depth_required_, ir_required_
    running,     \* running_
    blocked,     \* block_signals()
    refused,     \* has signalsChanged() thrown, or a stream failed to start or stop?
    left,        \* has a subscriber disconnected?
    registered,  \* are the grabber's callbacks registered with the device?
    on,          \* the streams that run
    device,      \* where each data thread is
    player,      \* where the player thread is: a stream, when it is about to notify its thread
    eof,         \* has a file that is played once come to its end?
    quit,        \* quit_
    overruled,   \* has the player thread cleared quit_ after the destructor?
    late,        \* frames of each stream the grabber got since it was stopped
    spurious

userVars == <<source, calls, slots, required, registered, refused, left>>
threadVars == <<device, player, eof, overruled, late, spurious>>
vars == <<userVars, user, todo, running, blocked, on, quit, threadVars>>

OpenNIGrabber == source.kind \in {"camera", "file"}
HasPlayer == source.kind \in {"file", "oni"}
HasStreams == source.streams

Needs(signal) ==
    CASE signal = "image" -> {"image"} [] signal = "depth" -> {"depth"}
      [] signal = "pair" -> {"image", "depth"} [] signal = "ir" -> {"ir"}
      [] signal = "irPair" -> {"ir", "depth"}

(* The signals the constructor creates: registerCallback() throws for any  *)
(* other.  OpenNIGrabber creates those of infrared for every device.       *)
Offers(signal) ==
    Needs(signal) \subseteq HasStreams \union (IF OpenNIGrabber THEN {"ir"} ELSE {})

(* A stream a file does not have is not started, and nobody is told.       *)
Missing == IF source.kind = "file" THEN Streams \ HasStreams ELSE {}

-----------------------------------------------------------------------------
Init ==
    /\ source \in Devices
    /\ user = "idle" /\ todo = {} /\ calls = 0 /\ slots = {} /\ required = {}
    /\ running = FALSE /\ blocked = FALSE /\ refused = FALSE /\ left = FALSE /\ registered = TRUE
    /\ on = {} /\ quit = FALSE /\ overruled = FALSE /\ spurious = 0 /\ eof = FALSE
    /\ device = [s \in Streams |-> IF s \in HasStreams THEN "check" ELSE "ended"]
    /\ player = IF HasPlayer THEN "start" ELSE "ended"
    /\ late = [s \in Streams |-> 0]

Call == user = "idle" /\ calls < MaxCalls /\ calls' = calls + 1

(* start() reaches the streams that are needed and do not run. *)
StartStreams(needed) ==
    /\ user' = "starting"
    /\ todo' = needed \ on
    /\ blocked' = (blocked \/ (OpenNIGrabber /\ todo' # {}))

NeededAtStart == IF OpenNIGrabber THEN required ELSE HasStreams

Start ==
    /\ Call
    /\ StartStreams(NeededAtStart)
    /\ UNCHANGED <<source, slots, required, registered, refused, left, running, on, quit, threadVars>>

(* Mutant: a new subscriber waits for the next start(). *)
StartLater(needed) == UNCHANGED <<user, todo, blocked>>

(* A new subscriber of a running grabber starts what it needs. *)
StartForSubscriber(needed) == StartStreams(needed)

(* Mutant: nobody looks whether image and infrared are needed together. *)
NeverTogether == FALSE

IrAndImage == {"ir", "image"} \subseteq required'

(* registerCallback() and signalsChanged(), which throws when it is too    *)
(* late: the subscriber is connected.                                      *)
RegisterCallback(signal) ==
    /\ Call /\ Offers(signal)
    /\ slots' = slots \union {signal}
    /\ IF OpenNIGrabber
       THEN /\ required' = UNION {Needs(x) : x \in slots'}
            /\ refused' = (refused \/ IrAndImage)
            /\ IF running /\ ~IrAndImage
               THEN StartForSubscriber(required')
               ELSE UNCHANGED <<user, todo, blocked>>
       ELSE UNCHANGED <<required, refused, user, todo, blocked>>
    /\ UNCHANGED <<source, registered, left, running, on, quit, threadVars>>

(* A connection is closed by its subscriber: the grabber does not notice.  *)
Disconnect(signal) ==
    /\ Call
    /\ signal \in slots /\ slots' = slots \ {signal} /\ left' = TRUE
    /\ UNCHANGED <<source, user, todo, required, registered, refused, running, blocked, on, quit,
                   threadVars>>

StartStream ==
    \E s \in todo :
        /\ user = "starting"
        /\ on' = on \union ({s} \ Missing) /\ todo' = todo \ {s}
        /\ UNCHANGED <<userVars, user, running, blocked, quit, threadVars>>

(* A camera may refuse: start() throws and leaves the signals blocked. *)
StartFails ==
    /\ source.kind = "camera" /\ user = "starting" /\ todo # {}
    /\ user' = "idle" /\ todo' = {} /\ refused' = TRUE
    /\ UNCHANGED <<source, calls, slots, required, registered, left, running, blocked, on, quit, threadVars>>

(* The end of start(); OpenNIGrabber sleeps before it. *)
Started ==
    /\ user = "starting" /\ todo = {}
    /\ user' = "idle" /\ running' = TRUE /\ blocked' = FALSE
    /\ late' = [s \in Streams |-> 0]
    /\ UNCHANGED <<userVars, todo, on, quit, device, player, eof, overruled, spurious>>

Stop(next) ==
    /\ user' = next /\ todo' = on
    /\ UNCHANGED <<running, blocked, on, quit, threadVars>>

StopByUser ==
    /\ Call /\ Stop("stopping")
    /\ UNCHANGED <<source, slots, required, registered, refused, left>>

StopStream ==
    \E s \in todo :
        /\ user \in {"stopping", "destroying"}
        /\ on' = on \ {s} /\ todo' = todo \ {s} /\ late' = [late EXCEPT ![s] = 0]
        /\ UNCHANGED <<userVars, user, running, blocked, quit, device, player, eof, overruled,
                       spurious>>

(* A camera may refuse that, too: stop() throws and leaves the rest as it  *)
(* is.  The destructor of the grabber swallows the exception, and with it  *)
(* the rest of its work but for the members' destruction.                  *)
StopFails ==
    /\ source.kind = "camera" /\ todo # {} /\ todo' = {} /\ refused' = TRUE
    /\ \/ user = "stopping" /\ user' = "idle"
       \/ user = "destroying" /\ user' = "quitThreads"
    /\ UNCHANGED <<source, calls, slots, required, registered, left, running, blocked, on, quit,
                   threadVars>>

Stopped ==
    /\ user = "stopping" /\ todo = {}
    /\ user' = "idle" /\ running' = FALSE
    /\ UNCHANGED <<userVars, todo, blocked, on, quit, threadVars>>

-----------------------------------------------------------------------------
(* The destructor of the grabber stops it, unregisters its callbacks and   *)
(* gives the device away.                                                  *)
Destroy ==
    /\ user = "idle" /\ Stop("destroying")
    /\ UNCHANGED userVars

(* Mutant: the data threads are joined without a notification. *)
WakeNobody == device

WakeAll == [s \in Streams |-> IF device[s] = "waiting" THEN "woken" ELSE device[s]]

Unregister ==
    /\ user = "destroying" /\ todo = {}
    /\ running' = FALSE /\ registered' = FALSE
    /\ user' = IF HasPlayer THEN "quitPlayer" ELSE "quitThreads"
    /\ UNCHANGED <<source, calls, slots, required, refused, left, todo, blocked, on, quit, threadVars>>

(* ~DeviceONI() *)
QuitPlayer ==
    /\ user = "quitPlayer" /\ user' = "joinPlayer" /\ quit' = TRUE
    /\ UNCHANGED <<userVars, todo, running, blocked, on, threadVars>>

JoinPlayer ==
    /\ user = "joinPlayer" /\ player = "ended" /\ user' = "quitThreads"
    /\ UNCHANGED <<userVars, todo, running, blocked, on, quit, threadVars>>

(* ~OpenNIDevice() stops what still runs, too. *)
QuitThreads ==
    /\ user = "quitThreads" /\ user' = "joinThreads" /\ quit' = TRUE /\ device' = WakeAll
    /\ on' = {} /\ late' = [s \in Streams |-> IF s \in on THEN 0 ELSE late[s]]
    /\ UNCHANGED <<userVars, todo, running, blocked, player, eof, overruled, spurious>>

JoinThreads ==
    /\ user = "joinThreads" /\ \A s \in Streams : device[s] = "ended"
    /\ user' = "gone"
    /\ UNCHANGED <<userVars, todo, running, blocked, on, quit, threadVars>>

-----------------------------------------------------------------------------
(* PlayerThreadFunction() clears quit_ itself, whatever it was. *)
PlayerStarts ==
    /\ player = "start" /\ player' = "read"
    /\ quit' = FALSE /\ overruled' = (overruled \/ quit)
    /\ UNCHANGED <<userVars, user, todo, running, blocked, on, device, eof, late, spurious>>

PlayerEnds ==
    /\ player = "read" /\ quit /\ player' = "ended"
    /\ UNCHANGED <<userVars, user, todo, running, blocked, on, quit, device, eof, overruled, late,
                   spurious>>

(* ReadNext() finds nothing any more, and the thread goes on calling it.   *)
EndOfFile ==
    /\ player = "read" /\ ~source.repeat /\ ~eof /\ eof' = TRUE
    /\ UNCHANGED <<userVars, user, todo, running, blocked, on, quit, device, player, overruled,
                   late, spurious>>

(* Mutant: the handlers of the file notify like those of the camera. *)
NotifiesAlways(s) == TRUE

Notifies(s) == s \in on

(* The player thread reads a frame, and the handler finds the stream       *)
(* running.  It notifies later, whatever has happened to the stream.       *)
PlayerReads(s) ==
    /\ player = "read" /\ ~quit /\ ~eof /\ s \in HasStreams
    /\ Notifies(s) /\ player' = s
    /\ UNCHANGED <<userVars, user, todo, running, blocked, on, quit, device, eof, overruled, late,
                   spurious>>

(* A thread that is not waiting misses the notification.                   *)
Woken(s) == [device EXCEPT ![s] = IF @ = "waiting" THEN "woken" ELSE @]

PlayerNotifies ==
    /\ player \in Streams /\ player' = "read" /\ device' = Woken(player)
    /\ UNCHANGED <<userVars, user, todo, running, blocked, on, quit, eof, overruled, late,
                   spurious>>

(* The camera has made a frame while the thread waits.                     *)
NewDataAvailable(s) ==
    /\ ~HasPlayer /\ s \in on /\ device[s] = "waiting" /\ device' = Woken(s)
    /\ UNCHANGED <<userVars, user, todo, running, blocked, on, quit, player, eof, overruled, late,
                   spurious>>

SpuriousWakeup(s) ==
    /\ device[s] = "waiting" /\ spurious < MaxSpurious
    /\ device' = [device EXCEPT ![s] = "woken"] /\ spurious' = spurious + 1
    /\ UNCHANGED <<userVars, user, todo, running, blocked, on, quit, player, eof, overruled, late>>

(* One step of a data thread from one of its stops to the next. *)
DataStep(s, from, to) ==
    /\ device[s] = from /\ device' = [device EXCEPT ![s] = to]
    /\ UNCHANGED <<userVars, user, todo, running, blocked, on, quit, player, eof, overruled, spurious>>

Check(s) == DataStep(s, "check", IF quit THEN "ended" ELSE "waiting") /\ UNCHANGED late

(* Mutant: the thread ends when it finds its stream stopped. *)
FetchOrEnd(s) ==
    DataStep(s, "woken", IF quit \/ s \notin on THEN "ended" ELSE "fetched") /\ UNCHANGED late

Fetch(s) == DataStep(s, "woken", IF quit THEN "ended" ELSE "fetched") /\ UNCHANGED late

(* The callbacks registered get the frame; it is the grabber's if it is.   *)
CallBack(s) ==
    /\ DataStep(s, "fetched", "check")
    /\ late' = IF registered /\ s \notin on THEN [late EXCEPT ![s] = @ + 1] ELSE late

-----------------------------------------------------------------------------
UserCall ==
    \/ Start \/ StopByUser \/ Destroy
    \/ \E x \in Signals : RegisterCallback(x) \/ Disconnect(x)

UserReturn ==
    \/ StartStream \/ StartFails \/ Started \/ StopStream \/ StopFails \/ Stopped
    \/ Unregister \/ QuitPlayer \/ JoinPlayer \/ QuitThreads \/ JoinThreads

Player == PlayerStarts \/ PlayerEnds \/ PlayerNotifies
DataThread(s) == Check(s) \/ Fetch(s) \/ CallBack(s)

(* What OpenNI does: to read on, to come to the end, to make a frame.      *)
Frames(s) == PlayerReads(s) \/ NewDataAvailable(s)

Next ==
    \/ UserCall \/ UserReturn \/ Player \/ EndOfFile
    \/ \E s \in Streams : Frames(s) \/ SpuriousWakeup(s) \/ DataThread(s)

(* Threads that have begun something go on with it.  Frames come slower    *)
(* than they are handled, a file being played at the speed it was recorded *)
(* with, so a frame comes while the thread of its stream waits, again and  *)
(* again until the end of the file.                                        *)
Fairness ==
    /\ WF_vars(UserReturn) /\ WF_vars(Player)
    /\ \A s \in Streams : WF_vars(DataThread(s)) /\ SF_vars(Frames(s) /\ device[s] = "waiting")

Spec == Init /\ [][Next]_vars /\ Fairness

-----------------------------------------------------------------------------
(* Every variable has its type. *)
TypeOK ==
    /\ source \in Devices /\ calls \in 0 .. MaxCalls /\ spurious \in 0 .. MaxSpurious
    /\ user \in {"idle", "starting", "stopping", "destroying", "quitPlayer", "joinPlayer",
                 "quitThreads", "joinThreads", "gone"}
    /\ slots \subseteq Signals /\ todo \subseteq Streams /\ required \subseteq Streams
    /\ on \subseteq HasStreams
    /\ running \in BOOLEAN /\ blocked \in BOOLEAN /\ refused \in BOOLEAN /\ left \in BOOLEAN
    /\ registered \in BOOLEAN /\ quit \in BOOLEAN /\ overruled \in BOOLEAN
    /\ device \in [Streams -> {"check", "waiting", "woken", "fetched", "ended"}]
    /\ player \in {"start", "read", "ended"} \union Streams /\ eof \in BOOLEAN
    /\ late \in [Streams -> Nat]

(* After a stream has stopped the grabber gets the frame its thread was    *)
(* busy with, of a file also the one its handler had found the stream      *)
(* running for, and one for each spurious wake-up; no more, although a     *)
(* file is played on.                                                      *)
StopStops ==
    \A s \in Streams : late[s] <= (IF HasPlayer THEN 2 ELSE 1) + spurious

(* Between calls a running grabber has every stream running that any of    *)
(* its subscribers needs, whenever it came, unless an exception said no;   *)
(* OpenNIGrabber without one leaves out what its file does not have.       *)
SubscribersServed ==
    user = "idle" /\ running /\ ~refused => \A x \in slots : Needs(x) \subseteq on \union Missing

(* OpenNIGrabber runs image and infrared together only for a user who went *)
(* on after the exception, or when a subscriber has left: nobody stops the *)
(* stream it needed, and the next subscriber starts the other.             *)
NotIrAndImage == OpenNIGrabber /\ {"ir", "image"} \subseteq on => refused \/ left

(* Signals stay blocked after start() only if something has been thrown. *)
SignalsUnblocked == user = "idle" /\ blocked => refused

(* A stream that runs keeps its subscribers supplied until it is stopped   *)
(* or the file is at its end.                                              *)
FramesKeepComing ==
    \A s \in Streams : s \in on ~> device[s] = "fetched" \/ s \notin on \/ eof

(* The destructor returns, unless the player thread has cleared quit_      *)
(* after it was set.                                                       *)
DestructorReturns == user = "destroying" ~> user = "gone" \/ overruled
=============================================================================
