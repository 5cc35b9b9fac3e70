------------------------ MODULE DeviceStreamsProofs ------------------------
(***************************************************************************)
(* Proofs about the grabbers of an OpenNI device, for any number of calls  *)
(* and of spurious wake-ups and for every set of signals: who is served,   *)
(* what stop() stops, whom the destructor waits for, and that a stream     *)
(* that runs is supplied.                                                  *)
(***************************************************************************)
EXTENDS DeviceStreams, FiniteSetTheorems, TLAPS

(* The streams that run exist; what a call has yet to reach, and what      *)
(* anybody needs, does so too or is left out.                              *)
StreamsExist ==
    /\ on \subseteq HasStreams /\ todo \subseteq HasStreams \union Missing
    /\ \A x \in slots : Needs(x) \subseteq HasStreams \union Missing
    /\ required \subseteq HasStreams \union Missing

(* What start() looks at is what the subscribers need.  It is running, or  *)
(* will be started, or start() or stop() has thrown.                       *)
RequiredRuns ==
    /\ \A x \in slots : Needs(x) \subseteq NeededAtStart
    /\ user = "starting" => NeededAtStart \subseteq on \union todo \union Missing
    /\ user = "idle" /\ running /\ ~refused => NeededAtStart \subseteq on \union Missing

(* Signals are blocked while start() runs and for good once it has thrown. *)
BlockedWhileStarting == blocked => user = "starting" \/ refused

(* As long as nobody has left, nothing runs that is not required; and what *)
(* is required can run together unless signalsChanged() has thrown.        *)
OnlyRequiredRuns ==
    OpenNIGrabber =>
        /\ ~left => required = UNION {Needs(x) : x \in slots} /\ on \union todo \subseteq required
        /\ ~refused => ~({"ir", "image"} \subseteq required)

(* A frame that is on its way to the grabber, or about to be announced,    *)
(* counts with those it got late.                                          *)
OnTheWay(s) ==
    IF device[s] = "fetched" \/ (device[s] = "woken" /\ ~quit) THEN 1 ELSE 0

Announced(s) == IF player = s THEN 1 ELSE 0

(* A player is told to end when the callbacks are unregistered.            *)
FewLate ==
    /\ \A s \in Streams :
          IF registered /\ s \notin on
          THEN late[s] + OnTheWay(s) + Announced(s) <= (IF HasPlayer THEN 2 ELSE 1) + spurious
          ELSE late[s] <= (IF HasPlayer THEN 2 ELSE 1) + spurious
    /\ HasPlayer /\ (quit \/ user \in {"quitPlayer", "joinPlayer", "quitThreads"}) => ~registered
    /\ ~HasPlayer => player = "ended"

(* The inductive invariant. *)
StreamsInv ==
    /\ TypeOK /\ StreamsExist /\ RequiredRuns /\ BlockedWhileStarting /\ OnlyRequiredRuns
    /\ FewLate

(* What anybody can need are streams. *)
LEMMA NeedsStreams == \A x \in Signals : Needs(x) \subseteq Streams
BY StreamsAssumption DEF Needs, Streams

(* What a device may have. *)
LEMMA DeviceHas ==
    ASSUME source \in Devices
    PROVE  /\ HasStreams \subseteq Streams /\ Missing \subseteq Streams
           /\ source.kind \in {"camera", "file", "oni"}
           /\ source.kind = "camera" => "ir" \in HasStreams
BY StreamsAssumption DEF HasStreams, Missing

(* Whom registerCallback() accepts needs streams that exist, or that are   *)
(* left out.                                                               *)
LEMMA OffersWhatExists ==
    ASSUME source \in Devices, NEW x \in Signals, Offers(x)
    PROVE  /\ Needs(x) \subseteq HasStreams \union Missing
           /\ ~OpenNIGrabber => Needs(x) \subseteq HasStreams
<1>1. Needs(x) \subseteq Streams  BY NeedsStreams
<1>2. CASE ~OpenNIGrabber  BY <1>2 DEF Offers
<1>3. CASE source.kind = "camera"
  BY <1>3, DeviceHas DEF Offers, OpenNIGrabber
<1>4. CASE source.kind = "file"
  BY <1>1, <1>4 DEF Missing, OpenNIGrabber
<1> QED  BY <1>2, <1>3, <1>4 DEF OpenNIGrabber

(* Nothing runs yet. *)
LEMMA InitStreams == Init => StreamsInv
<1> SUFFICES ASSUME Init PROVE StreamsInv  OBVIOUS
<1>1. TypeOK
  <2>1. player \in {"start", "read", "ended"} \union Streams /\ eof \in BOOLEAN  BY DEF Init
  <2>2. device \in [Streams -> {"check", "waiting", "woken", "fetched", "ended"}]  BY DEF Init
  <2>3. late \in [Streams -> Nat]  BY DEF Init
  <2>4. /\ running \in BOOLEAN /\ blocked \in BOOLEAN /\ refused \in BOOLEAN /\ left \in BOOLEAN
        /\ registered \in BOOLEAN /\ quit \in BOOLEAN /\ overruled \in BOOLEAN
    BY DEF Init
  <2>5. /\ source \in Devices /\ calls \in 0 .. MaxCalls /\ spurious \in 0 .. MaxSpurious
        /\ user = "idle" /\ slots = {} /\ todo = {} /\ required = {} /\ on = {}
    BY StreamsAssumption DEF Init
  <2> QED  BY <2>1, <2>2, <2>3, <2>4, <2>5 DEF TypeOK
<1>2. StreamsExist /\ RequiredRuns /\ BlockedWhileStarting
  BY DEF Init, StreamsExist, RequiredRuns, BlockedWhileStarting
<1>3. required = UNION {Needs(x) : x \in slots}  BY DEF Init
<1>4. OnlyRequiredRuns  BY <1>3 DEF Init, OnlyRequiredRuns
<1>5. FewLate  BY StreamsAssumption DEF Init, FewLate, OnTheWay, Announced, Streams
<1> QED  BY <1>1, <1>2, <1>4, <1>5 DEF StreamsInv

(* The threads of the device and of the player touch nothing the user's    *)
(* thread decides.                                                         *)
LEMMA ThreadsLeaveUser ==
    ASSUME \/ Player \/ EndOfFile
           \/ \E s \in Streams : Frames(s) \/ SpuriousWakeup(s) \/ DataThread(s)
    PROVE  UNCHANGED <<userVars, user, todo, running, blocked, on>>
BY DEF Player, PlayerStarts, PlayerEnds, PlayerNotifies, EndOfFile, Frames, PlayerReads,
       NewDataAvailable, Woken, SpuriousWakeup, DataThread, Check, Fetch,
       CallBack, DataStep

(* Of the user's calls only those that stop or start leave the threads     *)
(* anything: a frame that is not late any more, or a wake-up.              *)
LEMMA UserLeavesThreads ==
    ASSUME UserCall \/ UserReturn
    PROVE  /\ UNCHANGED <<player, overruled, spurious, source, eof>>
           /\ Started \/ StopStream \/ QuitThreads \/ UNCHANGED late
           /\ QuitThreads \/ UNCHANGED device
           /\ QuitThreads \/ QuitPlayer \/ UNCHANGED quit
           /\ Unregister \/ UNCHANGED registered
           /\ StartStream \/ StopStream \/ QuitThreads \/ UNCHANGED on
BY DEF UserCall, UserReturn, Start, StopByUser, Destroy, RegisterCallback, Disconnect, StartStream,
       StartFails, Started, StopStream, StopFails, Stopped, Unregister, QuitPlayer, JoinPlayer,
   QuitThreads,
       JoinThreads, Stop, StartStreams, StartForSubscriber, userVars, threadVars

(* The types, and that streams exist, for what the user's thread does. *)
LEMMA UserTypes ==
    ASSUME StreamsInv, UserCall \/ UserReturn
    PROVE  TypeOK' /\ StreamsExist'
<1>0. HasStreams \subseteq Streams /\ Missing \subseteq Streams
  BY DeviceHas DEF StreamsInv, TypeOK
<1>same. HasStreams' = HasStreams /\ Missing' = Missing
  BY UserLeavesThreads DEF HasStreams, Missing
<1> USE StreamsAssumption, NeedsStreams, <1>0, <1>same
<1> USE DEF StreamsInv, TypeOK, StreamsExist, userVars, threadVars, Call
<1>1. CASE Start
  <2>1. todo' = NeededAtStart \ on /\ NeededAtStart \subseteq HasStreams \union Missing
    BY <1>1 DEF Start, StartStreams, NeededAtStart
  <2>2. /\ blocked' \in BOOLEAN /\ user' = "starting" /\ calls' \in 0 .. MaxCalls
        /\ UNCHANGED <<source, slots, required, registered, refused, left, running, on, quit,
                       threadVars>>
    BY <1>1 DEF Start, StartStreams
  <2>3. todo' \subseteq HasStreams \union Missing /\ todo' \subseteq Streams  BY <1>0, <2>1
  <2> QED  BY <2>2, <2>3
<1>2. CASE StopByUser \/ Destroy
  <2>1. /\ calls' \in 0 .. MaxCalls /\ user' \in {"stopping", "destroying"} /\ todo' = on
        /\ UNCHANGED <<source, slots, required, registered, refused, left, running, blocked, on, quit,
                       threadVars>>
    BY <1>2 DEF StopByUser, Destroy, Stop
  <2> QED  BY <1>0, <2>1
<1>3. ASSUME NEW x \in Signals, RegisterCallback(x)
      PROVE  TypeOK' /\ StreamsExist'
  <2> DEFINE all == HasStreams \union Missing
  <2>1. slots' = slots \union {x} /\ \A y \in slots' : y \in Signals /\ Needs(y) \subseteq all
    BY <1>3, OffersWhatExists DEF RegisterCallback
  <2>2. UNION {Needs(y) : y \in slots'} \subseteq all  BY <2>1
  <2>3. required' \subseteq all /\ required' \subseteq Streams
    <3>1. CASE OpenNIGrabber  BY <1>0, <1>3, <2>2, <3>1 DEF RegisterCallback
    <3>2. CASE ~OpenNIGrabber  BY <1>3, <3>2 DEF RegisterCallback
    <3> QED  BY <3>1, <3>2
  <2>4. /\ calls' \in 0 .. MaxCalls
        /\ UNCHANGED <<source, registered, left, running, on, quit, threadVars>>
    BY <1>3 DEF RegisterCallback
  <2>8. refused' \in BOOLEAN
    <3>1. refused' = refused \/ refused' = (refused \/ IrAndImage)  BY <1>3 DEF RegisterCallback
    <3> QED  BY <3>1 DEF IrAndImage
  <2>5. /\ user' \in {"idle", "starting"} /\ blocked' \in BOOLEAN
        /\ todo' = required' \ on \/ todo' = todo
    BY <1>3 DEF RegisterCallback, StartForSubscriber, StartStreams
  <2>6. todo' \subseteq all /\ todo' \subseteq Streams  BY <2>3, <2>5
  <2> QED  BY <1>0, <2>1, <2>3, <2>4, <2>5, <2>6, <2>8
<1>4. ASSUME NEW x \in Signals, Disconnect(x)
      PROVE  TypeOK' /\ StreamsExist'
  BY <1>4 DEF Disconnect
<1>5. CASE StartStream  BY <1>5 DEF StartStream
<1>6. CASE StartFails \/ StopFails  BY <1>6 DEF StartFails, StopFails
<1>7. CASE Started  BY <1>7 DEF Started
<1>8. CASE StopStream  BY <1>8 DEF StopStream
<1>9. CASE Stopped  BY <1>9 DEF Stopped
<1>10. CASE Unregister  BY <1>10 DEF Unregister, HasPlayer
<1>11. CASE QuitPlayer \/ JoinPlayer
  <2>1. CASE QuitPlayer  BY <2>1 DEF QuitPlayer
  <2>2. CASE JoinPlayer  BY <2>2 DEF JoinPlayer
  <2> QED  BY <1>11, <2>1, <2>2
<1>12. CASE QuitThreads  BY <1>12 DEF QuitThreads, WakeAll
<1>13. CASE JoinThreads  BY <1>13 DEF JoinThreads
<1> QED
  BY <1>1, <1>2, <1>3, <1>4, <1>5, <1>6, <1>7, <1>8, <1>9, <1>10, <1>11, <1>12, <1>13
  DEF UserCall, UserReturn

(* The same for what the other threads do. *)
LEMMA ThreadTypes ==
    ASSUME StreamsInv,
           \/ Player \/ EndOfFile
           \/ \E s \in Streams : Frames(s) \/ SpuriousWakeup(s) \/ DataThread(s)
    PROVE  TypeOK' /\ StreamsExist'
<1>1. UNCHANGED <<userVars, user, todo, running, blocked, on>>  BY ThreadsLeaveUser
<1>same. HasStreams' = HasStreams /\ Missing' = Missing
  BY <1>1 DEF HasStreams, Missing, userVars
<1> USE <1>1, <1>same DEF StreamsInv, TypeOK, StreamsExist, userVars
<1>2. CASE Player \/ EndOfFile
  <2>1. CASE PlayerStarts  BY <2>1 DEF PlayerStarts
  <2>2. CASE PlayerEnds  BY <2>2 DEF PlayerEnds
  <2>3. CASE PlayerNotifies  BY <2>3 DEF PlayerNotifies, Woken
  <2>4. CASE EndOfFile  BY <2>4 DEF EndOfFile
  <2> QED  BY <1>2, <2>1, <2>2, <2>3, <2>4 DEF Player
<1>3. ASSUME NEW s \in Streams, Frames(s) PROVE TypeOK' /\ StreamsExist'
  <2>1. CASE PlayerReads(s)  BY <2>1 DEF PlayerReads
  <2>2. CASE NewDataAvailable(s)  BY <2>2 DEF NewDataAvailable, Woken
  <2> QED  BY <1>3, <2>1, <2>2 DEF Frames
<1>4. ASSUME NEW s \in Streams, SpuriousWakeup(s) PROVE TypeOK' /\ StreamsExist'
  BY <1>4, StreamsAssumption DEF SpuriousWakeup
<1>5. ASSUME NEW s \in Streams, DataThread(s) PROVE TypeOK' /\ StreamsExist'
  BY <1>5 DEF DataThread, Check, Fetch, CallBack, DataStep
<1> QED  BY <1>2, <1>3, <1>4, <1>5

(* Whoever subscribes, starts or stops: what is required runs, nothing     *)
(* else does, and signals are not blocked for nothing.                     *)
LEMMA UserServes ==
    ASSUME StreamsInv, UserCall \/ UserReturn
    PROVE  RequiredRuns' /\ BlockedWhileStarting' /\ OnlyRequiredRuns'
<1> DEFINE Goal == RequiredRuns' /\ BlockedWhileStarting' /\ OnlyRequiredRuns'
<1>0. source \in Devices  BY DEF StreamsInv, TypeOK
<1> USE DEF StreamsInv, RequiredRuns, BlockedWhileStarting, OnlyRequiredRuns, OpenNIGrabber, Call,
            NeededAtStart, HasStreams, Missing, userVars, threadVars
<1>1. CASE Start  BY <1>1 DEF Start, StartStreams
<1>2. CASE StopByUser \/ Destroy  BY <1>2 DEF StopByUser, Destroy, Stop
<1>3. ASSUME NEW x \in Signals, RegisterCallback(x) PROVE Goal
  <2>1. /\ slots' = slots \union {x} /\ source' = source /\ on' = on /\ left' = left
        /\ running' = running /\ user = "idle" /\ x \in Signals /\ Offers(x)
    BY <1>3 DEF RegisterCallback
  <2>2. CASE ~OpenNIGrabber
    <3>1. Needs(x) \subseteq HasStreams  BY <1>0, <2>1, <2>2, OffersWhatExists
    <3>2. UNCHANGED <<required, refused, user, todo, blocked>>  BY <1>3, <2>2 DEF RegisterCallback
    <3> QED  BY <2>1, <2>2, <3>1, <3>2
  <2>3. CASE OpenNIGrabber
    <3>1. required' = UNION {Needs(y) : y \in slots'} /\ refused' = (refused \/ IrAndImage)
      BY <1>3, <2>3 DEF RegisterCallback
    <3>2. /\ UNION {Needs(y) : y \in slots} \subseteq required'
          /\ \A y \in slots' : Needs(y) \subseteq required'
      BY <2>1, <3>1
    <3>3. CASE running /\ ~IrAndImage
      <4>1. user' = "starting" /\ todo' = required' \ on
        BY <1>3, <2>3, <3>3 DEF RegisterCallback, StartForSubscriber, StartStreams
      <4>2. RequiredRuns' /\ BlockedWhileStarting'  BY <2>1, <2>3, <3>2, <4>1
      <4>3. OnlyRequiredRuns'  BY <2>1, <2>3, <3>1, <3>2, <3>3, <4>1 DEF IrAndImage
      <4> QED  BY <4>2, <4>3
    <3>4. CASE ~(running /\ ~IrAndImage)
      <4>1. UNCHANGED <<user, todo, blocked>>
        BY <1>3, <2>3, <3>4 DEF RegisterCallback
      <4>2. refused' <=> refused \/ {"ir", "image"} \subseteq required'
        BY <3>1 DEF IrAndImage
      <4>3. running => refused'  BY <3>4, <4>2 DEF IrAndImage
      <4>4. RequiredRuns' /\ BlockedWhileStarting'
        BY <2>1, <2>3, <3>2, <4>1, <4>2, <4>3
      <4>5. OnlyRequiredRuns'  BY <2>1, <3>1, <3>2, <4>1, <4>2
      <4> QED  BY <4>4, <4>5
    <3> QED  BY <3>3, <3>4
  <2> QED  BY <2>2, <2>3
<1>4. ASSUME NEW x \in Signals, Disconnect(x) PROVE Goal  BY <1>4 DEF Disconnect
<1>5. CASE StartStream  BY <1>5 DEF StartStream
<1>6. CASE StartFails \/ StopFails  BY <1>6 DEF StartFails, StopFails
<1>7. CASE Started  BY <1>7 DEF Started
<1>8. CASE StopStream  BY <1>8 DEF StopStream
<1>9. CASE Stopped  BY <1>9 DEF Stopped
<1>10. CASE Unregister  BY <1>10 DEF Unregister
<1>11. CASE QuitPlayer \/ JoinPlayer \/ QuitThreads \/ JoinThreads
  BY <1>11 DEF QuitPlayer, JoinPlayer, QuitThreads, JoinThreads
<1> QED
  BY <1>1, <1>2, <1>3, <1>4, <1>5, <1>6, <1>7, <1>8, <1>9, <1>10, <1>11 DEF UserCall, UserReturn

(* The grabber gets few frames of a stream it has stopped. *)
LEMMA LateFrames ==
    ASSUME StreamsInv, Next
    PROVE  FewLate'
<1> DEFINE most == (IF HasPlayer THEN 2 ELSE 1) + spurious
           few(s) == IF registered /\ s \notin on THEN late[s] + OnTheWay(s) + Announced(s) <= most
                                                 ELSE late[s] <= most
<1> USE DEF StreamsInv, FewLate, userVars, threadVars
<1>0. /\ late \in [Streams -> Nat] /\ spurious \in Nat /\ most \in Nat
      /\ DOMAIN device = Streams /\ \A s \in Streams : OnTheWay(s) \in 0 .. 1 /\ Announced(s) \in 0 .. 1
  BY StreamsAssumption DEF TypeOK, OnTheWay, Announced
<1>1. CASE UserCall \/ UserReturn
  <2>0. UNCHANGED <<spurious, source, player>> /\ HasPlayer' = HasPlayer /\ most' = most
    BY <1>1, UserLeavesThreads DEF HasPlayer
  <2>1. HasPlayer' /\ (quit' \/ user' \in {"quitPlayer", "joinPlayer", "quitThreads"}) => ~registered'
    <3>1. CASE Unregister  BY <3>1 DEF Unregister
    <3>2. CASE StopFails  BY <2>0, <3>2 DEF StopFails, HasPlayer
    <3>3. CASE QuitPlayer \/ JoinPlayer \/ QuitThreads \/ JoinThreads
      BY <2>0, <3>3 DEF QuitPlayer, JoinPlayer, QuitThreads, JoinThreads
    <3>4. CASE ~(Unregister \/ StopFails \/ QuitPlayer \/ JoinPlayer \/ QuitThreads \/ JoinThreads)
      <4>1. registered' = registered /\ quit' = quit  BY <1>1, <3>4, UserLeavesThreads
      <4>2. user' \notin {"quitPlayer", "joinPlayer", "quitThreads"}
        BY <1>1, <3>4
        DEF UserCall, UserReturn, Start, StopByUser, Destroy, RegisterCallback, Disconnect,
            StartStream, StartFails, Started, StopStream, Stopped, Stop, StartStreams,
            StartForSubscriber, Call
      <4> QED  BY <2>0, <4>1, <4>2
    <3> QED  BY <3>1, <3>2, <3>3, <3>4
  <2>2. ASSUME NEW s \in Streams PROVE few(s)'
    <3>0. Announced(s)' = Announced(s) /\ OnTheWay(s)' \in 0 .. 1
      BY <2>0 DEF Announced, OnTheWay
    <3>1. CASE Started
      <4>1. late'[s] = 0  BY <3>1 DEF Started
      <4>2. ~HasPlayer => Announced(s) = 0  BY DEF Announced, Streams
      <4> QED  BY <1>0, <2>0, <3>0, <4>1, <4>2
    <3>2. CASE StopStream
      <4>1. PICK t \in todo : /\ late' = [late EXCEPT ![t] = 0] /\ on' = on \ {t}
                              /\ device' = device /\ quit' = quit /\ registered' = registered
        BY <3>2 DEF StopStream
      <4>2. OnTheWay(s)' = OnTheWay(s)  BY <4>1 DEF OnTheWay
      <4>3. ~HasPlayer => Announced(s) = 0  BY DEF Announced, Streams
      <4>4. CASE s = t
        <5>1. late'[s] = 0  BY <1>0, <4>1, <4>4
        <5> QED  BY <1>0, <2>0, <3>0, <4>3, <5>1
      <4>5. CASE s # t
        <5>1. late'[s] = late[s] /\ (s \in on' <=> s \in on)  BY <1>0, <4>1, <4>5
        <5> QED  BY <1>0, <2>0, <3>0, <4>1, <4>2, <5>1
      <4> QED  BY <4>4, <4>5
    <3>3. CASE QuitThreads
      <4>1. /\ quit' /\ on' = {} /\ registered' = registered
            /\ late'[s] = IF s \in on THEN 0 ELSE late[s]
            /\ device'[s] = IF device[s] = "waiting" THEN "woken" ELSE device[s]
        BY <3>3 DEF QuitThreads, WakeAll
      <4>2. OnTheWay(s)' <= OnTheWay(s)  BY <4>1 DEF OnTheWay
      <4>3. ~HasPlayer => Announced(s) = 0  BY DEF Announced, Streams
      <4> QED  BY <1>0, <2>0, <3>0, <4>1, <4>2, <4>3
    <3>4. CASE ~(Started \/ StopStream \/ QuitThreads)
      <4>1. late' = late /\ device' = device /\ (registered' => registered) /\ on \subseteq on'
        <5>1. late' = late /\ device' = device  BY <1>1, <3>4, UserLeavesThreads
        <5>2. registered' => registered  BY <1>1, UserLeavesThreads DEF Unregister
        <5>3. on \subseteq on'  BY <1>1, <3>4, UserLeavesThreads DEF StartStream
        <5> QED  BY <5>1, <5>2, <5>3
      <4>2. quit' = quit \/ quit'
        <5>1. QuitPlayer \/ quit' = quit  BY <1>1, <3>4, UserLeavesThreads
        <5> QED  BY <5>1 DEF QuitPlayer
      <4>3. OnTheWay(s)' <= OnTheWay(s)  BY <4>1, <4>2 DEF OnTheWay
      <4> QED  BY <1>0, <2>0, <3>0, <4>1, <4>3
    <3> QED  BY <3>1, <3>2, <3>3, <3>4
  <2>3. ~HasPlayer' => player' = "ended"  BY <2>0
  <2> QED  BY <2>1, <2>2, <2>3
<1>2. CASE ~(UserCall \/ UserReturn)
  <2>0. /\ UNCHANGED <<userVars, user, todo, running, blocked, on>>
        /\ HasPlayer' = HasPlayer /\ registered' = registered
    BY <1>2, ThreadsLeaveUser DEF Next, HasPlayer
  <2>1. CASE PlayerStarts
    <3>1. /\ HasPlayer /\ ~quit' /\ player = "start" /\ player' = "read"
          /\ UNCHANGED <<device, late, spurious>>
      BY <2>1 DEF PlayerStarts
    <3>2. \A s \in Streams : Announced(s)' = Announced(s)  BY <3>1 DEF Announced, Streams
    <3>3. registered => \A s \in Streams : OnTheWay(s)' = OnTheWay(s)
      BY <3>1 DEF OnTheWay
    <3> QED  BY <1>0, <2>0, <3>1, <3>2, <3>3
  <2>2. CASE PlayerEnds
    <3>1. player = "read" /\ player' = "ended" /\ UNCHANGED <<device, late, spurious, quit>>
      BY <2>2 DEF PlayerEnds
    <3>2. \A s \in Streams : Announced(s)' = Announced(s) /\ OnTheWay(s)' = OnTheWay(s)
      BY <3>1 DEF Announced, OnTheWay, Streams
    <3> QED  BY <1>0, <2>0, <3>1, <3>2
  <2>3. CASE EndOfFile
    <3>1. UNCHANGED <<player, device, late, spurious, quit>>  BY <2>3 DEF EndOfFile
    <3>2. \A s \in Streams : Announced(s)' = Announced(s) /\ OnTheWay(s)' = OnTheWay(s)
      BY <3>1 DEF Announced, OnTheWay
    <3> QED  BY <1>0, <2>0, <3>1, <3>2
  <2>4. CASE PlayerNotifies
    <3>1. /\ player \in Streams /\ player' = "read" /\ device' = Woken(player)
          /\ UNCHANGED <<late, spurious, quit>>
      BY <2>4 DEF PlayerNotifies
    <3>2. \A s \in Streams : OnTheWay(s)' + Announced(s)' <= OnTheWay(s) + Announced(s)
      BY <1>0, <3>1 DEF OnTheWay, Announced, Woken, Streams
    <3>3. HasPlayer  BY <3>1 DEF Streams
    <3>4. \A s \in Streams : few(s)'
      <4> SUFFICES ASSUME NEW s \in Streams PROVE few(s)'  OBVIOUS
      <4>1. OnTheWay(s)' + Announced(s)' <= OnTheWay(s) + Announced(s)  BY <3>2
      <4>2. OnTheWay(s)' \in 0 .. 1 /\ Announced(s)' \in 0 .. 1  BY DEF OnTheWay, Announced
      <4> QED  BY <1>0, <2>0, <3>1, <4>1, <4>2
    <3> QED  BY <2>0, <3>1, <3>3, <3>4
  <2>5. ASSUME NEW t \in Streams, PlayerReads(t) PROVE FewLate'
    <3>1. /\ t \in on /\ player = "read" /\ player' = t /\ UNCHANGED <<device, late, spurious, quit>>
      BY <2>5 DEF PlayerReads, Notifies
    <3>2. \A s \in Streams \ on : Announced(s)' = Announced(s) /\ OnTheWay(s)' = OnTheWay(s)
      BY <3>1 DEF Announced, OnTheWay, Streams
    <3> QED  BY <1>0, <2>0, <3>1, <3>2
  <2>6. ASSUME NEW t \in Streams, NewDataAvailable(t) PROVE FewLate'
    <3>1. t \in on /\ device' = Woken(t) /\ UNCHANGED <<player, late, spurious, quit>>
      BY <2>6 DEF NewDataAvailable
    <3>2. \A s \in Streams \ on : Announced(s)' = Announced(s) /\ OnTheWay(s)' = OnTheWay(s)
      BY <1>0, <3>1 DEF Announced, OnTheWay, Woken
    <3> QED  BY <1>0, <2>0, <3>1, <3>2
  <2>7. ASSUME NEW t \in Streams, SpuriousWakeup(t) PROVE FewLate'
    <3>1. /\ device' = [device EXCEPT ![t] = "woken"] /\ spurious' = spurious + 1
          /\ UNCHANGED <<player, late, quit>>
      BY <2>7 DEF SpuriousWakeup
    <3>2. \A s \in Streams : Announced(s)' = Announced(s) /\ OnTheWay(s)' <= OnTheWay(s) + 1
                             /\ OnTheWay(s)' \in 0 .. 1
      BY <1>0, <3>1 DEF Announced, OnTheWay
    <3>3. most' = most + 1  BY <1>0, <2>0, <3>1
    <3>4. ASSUME NEW s \in Streams PROVE few(s)'
      BY <1>0, <2>0, <3>1, <3>2, <3>3
    <3> QED  BY <2>0, <3>1, <3>4
  <2>8. ASSUME NEW t \in Streams, DataThread(t) PROVE FewLate'
    <3>1. UNCHANGED <<player, spurious, quit>>
      BY <2>8 DEF DataThread, Check, Fetch, CallBack, DataStep
    <3>2. \A s \in Streams : Announced(s)' = Announced(s)  BY <3>1 DEF Announced
    <3>3. CASE Check(t) \/ Fetch(t)
      <4>1. late' = late /\ \A s \in Streams : OnTheWay(s)' = OnTheWay(s)
        BY <1>0, <3>1, <3>3 DEF Check, Fetch, DataStep, OnTheWay
      <4> QED  BY <1>0, <2>0, <3>1, <3>2, <4>1
    <3>4. CASE CallBack(t)
      <4>1. /\ device[t] = "fetched" /\ device' = [device EXCEPT ![t] = "check"]
            /\ late' = IF registered /\ t \notin on THEN [late EXCEPT ![t] = @ + 1] ELSE late
        BY <3>4 DEF CallBack, DataStep
      <4>2. ASSUME NEW s \in Streams PROVE few(s)'
        <5>1. CASE s = t
          <6>1. OnTheWay(s) = 1 /\ OnTheWay(s)' = 0  BY <1>0, <4>1, <5>1 DEF OnTheWay
          <6>2. late'[s] = IF registered /\ s \notin on THEN late[s] + 1 ELSE late[s]
            BY <1>0, <4>1, <5>1
          <6> QED  BY <1>0, <2>0, <3>1, <3>2, <6>1, <6>2
        <5>2. CASE s # t
          <6>1. OnTheWay(s)' = OnTheWay(s) /\ late'[s] = late[s]
            BY <1>0, <3>1, <4>1, <5>2 DEF OnTheWay
          <6> QED  BY <1>0, <2>0, <3>1, <3>2, <6>1
        <5> QED  BY <5>1, <5>2
      <4> QED  BY <2>0, <3>1, <4>2
    <3> QED  BY <2>8, <3>3, <3>4 DEF DataThread
  <2> QED  BY <1>2, <2>1, <2>2, <2>3, <2>4, <2>5, <2>6, <2>7, <2>8 DEF Next, Player, Frames
<1> QED  BY <1>1, <1>2

(* Every step keeps the invariant, for any number of calls. *)
THEOREM StreamsInvariant == Spec => []StreamsInv
<1>1. StreamsInv /\ [Next]_vars => StreamsInv'
  <2> SUFFICES ASSUME StreamsInv, [Next]_vars PROVE StreamsInv'  OBVIOUS
  <2>1. CASE UserCall \/ UserReturn
    BY <2>1, UserTypes, UserServes, LateFrames DEF StreamsInv, Next
  <2>2. CASE \/ Player \/ EndOfFile
             \/ \E s \in Streams : Frames(s) \/ SpuriousWakeup(s) \/ DataThread(s)
    <3>1. TypeOK' /\ StreamsExist' /\ FewLate'  BY <2>2, ThreadTypes, LateFrames DEF Next
    <3>2. UNCHANGED <<userVars, user, todo, running, blocked, on>>  BY <2>2, ThreadsLeaveUser
    <3>3. RequiredRuns' /\ BlockedWhileStarting' /\ OnlyRequiredRuns'
      BY <3>2 DEF StreamsInv, RequiredRuns, BlockedWhileStarting, OnlyRequiredRuns, OpenNIGrabber,
                  NeededAtStart, HasStreams, Missing, userVars
    <3> QED  BY <3>1, <3>3 DEF StreamsInv
  <2>3. CASE UNCHANGED vars
    BY <2>3 DEF vars, userVars, threadVars, StreamsInv, TypeOK, StreamsExist, RequiredRuns,
                BlockedWhileStarting, OnlyRequiredRuns, FewLate, OnTheWay, Announced, OpenNIGrabber,
                HasPlayer, HasStreams, NeededAtStart, Missing
  <2> QED  BY <2>1, <2>2, <2>3 DEF Next
<1> QED  BY <1>1, InitStreams, PTL DEF Spec

-----------------------------------------------------------------------------
(* Every variable has its type. *)
THEOREM TypeCorrect == Spec => []TypeOK
<1>1. StreamsInv => TypeOK  BY DEF StreamsInv
<1> QED  BY <1>1, StreamsInvariant, PTL

(* A running grabber has every stream running that a subscriber needs,     *)
(* unless an exception said no or its file does not have it.               *)
THEOREM ServesSubscribers == Spec => []SubscribersServed
<1>1. StreamsInv => SubscribersServed  BY DEF StreamsInv, RequiredRuns, SubscribersServed
<1> QED  BY <1>1, StreamsInvariant, PTL

(* Signals stay blocked only if start() has thrown. *)
THEOREM UnblocksSignals == Spec => []SignalsUnblocked
<1>1. StreamsInv => SignalsUnblocked  BY DEF StreamsInv, BlockedWhileStarting, SignalsUnblocked
<1> QED  BY <1>1, StreamsInvariant, PTL

(* OpenNIGrabber never runs image and infrared behind the user's back.     *)
THEOREM ExcludesIrAndImage == Spec => []NotIrAndImage
<1>1. StreamsInv => NotIrAndImage  BY DEF StreamsInv, OnlyRequiredRuns, NotIrAndImage
<1> QED  BY <1>1, StreamsInvariant, PTL

(* After a stream has stopped the grabber gets the frame on its way, of a  *)
(* file also the one announced, and no more but for spurious wake-ups.     *)
THEOREM StopsStreams == Spec => []StopStops
<1>1. StreamsInv => StopStops
  <2> SUFFICES ASSUME StreamsInv, NEW s \in Streams
               PROVE  late[s] <= (IF HasPlayer THEN 2 ELSE 1) + spurious
    BY DEF StopStops
  <2>1. late[s] \in Nat /\ spurious \in Nat  BY StreamsAssumption DEF StreamsInv, TypeOK
  <2>2. OnTheWay(s) \in 0 .. 1 /\ Announced(s) \in 0 .. 1  BY DEF OnTheWay, Announced
  <2> QED  BY <2>1, <2>2 DEF StreamsInv, FewLate
<1> QED  BY <1>1, StreamsInvariant, PTL

-----------------------------------------------------------------------------
(* How the destructor comes to its end. *)
Leaving == user \in {"quitPlayer", "joinPlayer", "quitThreads", "joinThreads", "gone"}

Destroying ==
    user \in {"destroying", "quitPlayer", "joinPlayer", "quitThreads", "joinThreads"}

(* The streams stop before any thread is told to end, but for those of a   *)
(* camera that did not let itself be stopped: ~OpenNIDevice() stops them.  *)
QuitWhenStopped ==
    /\ quit => \/ user \in {"joinPlayer", "joinThreads", "gone"}
               \/ user = "quitThreads" /\ HasPlayer
    /\ user = "destroying" => on \subseteq todo
    /\ Leaving => on = {} \/ (user = "quitThreads" /\ ~HasPlayer)

(* The player thread ends because of quit_, and the device joins its other *)
(* threads after it.  quit_ is cleared once the destructor has set it only *)
(* by a player thread that starts then, and nobody sets it again.          *)
PlayerJoined ==
    /\ player # "ended" \/ user = "quitPlayer" => HasPlayer
    /\ HasPlayer /\ player = "ended" => quit
    /\ user = "joinPlayer" => HasPlayer /\ (quit <=> ~overruled)
    /\ user = "quitThreads" /\ HasPlayer => quit
    /\ user \in {"quitThreads", "joinThreads", "gone"} => player = "ended"
    /\ overruled => user = "joinPlayer" /\ player = "read" /\ ~quit

(* A data thread ends because of quit_ only, and none of those the         *)
(* destructor joins waits for a notification.                              *)
ThreadsJoined ==
    /\ user \in {"joinThreads", "gone"} => quit /\ \A s \in Streams : device[s] # "waiting"
    /\ \A s \in HasStreams : device[s] = "ended" => quit \/ overruled

LeaveInv == QuitWhenStopped /\ PlayerJoined /\ ThreadsJoined

LEMMA LeaveInit == Init => LeaveInv
<1>1. ASSUME Init PROVE HasStreams \subseteq Streams  BY <1>1, DeviceHas DEF Init
<1> QED
  BY <1>1
  DEF Init, LeaveInv, QuitWhenStopped, Leaving, PlayerJoined, ThreadsJoined, HasPlayer, HasStreams

(* A call that does not belong to the destructor, and what remains of it:  *)
(* the threads of the device do not see it.                                *)
LEMMA LeaveCalls ==
    ASSUME LeaveInv, UserCall \/ UserReturn,
           ~(\/ Unregister \/ QuitPlayer \/ JoinPlayer \/ QuitThreads \/ JoinThreads
             \/ StopFails /\ user = "destroying")
    PROVE  LeaveInv'
<1>1. /\ UNCHANGED <<player, overruled, source, quit, device>>
      /\ user \in {"idle", "starting", "stopping", "destroying"}
      /\ user' \in {"idle", "starting", "stopping", "destroying"}
  BY DEF UserCall, UserReturn, Start, StopByUser, Destroy, RegisterCallback, Disconnect,
         StartStream,
         StartFails, Started, StopStream, StopFails, Stopped, Stop, StartStreams,
   StartForSubscriber, Call,
         userVars, threadVars
<1>2. user' = "destroying" => on' \subseteq todo'
  <2>1. CASE Destroy  BY <2>1 DEF Destroy, Stop
  <2>2. CASE StopStream
    BY <2>2 DEF StopStream, LeaveInv, QuitWhenStopped
  <2>3. CASE ~Destroy /\ ~StopStream
    BY <2>3 DEF UserCall, UserReturn, Start, StopByUser, RegisterCallback, Disconnect, StartStream,
                StartFails, Started, StopFails, Stopped, Stop, StartStreams, StartForSubscriber,
   Call, userVars
  <2> QED  BY <2>1, <2>2, <2>3
<1>3. ~quit /\ ~overruled
  BY <1>1 DEF LeaveInv, QuitWhenStopped, PlayerJoined
<1>4. QuitWhenStopped'  BY <1>1, <1>2, <1>3 DEF QuitWhenStopped, Leaving
<1>5. PlayerJoined'  BY <1>1, <1>3 DEF LeaveInv, PlayerJoined, HasPlayer
<1>6. ThreadsJoined'  BY <1>1, <1>3 DEF LeaveInv, ThreadsJoined, HasStreams
<1> QED  BY <1>4, <1>5, <1>6 DEF LeaveInv

(* The steps of the destructors behind the last stream. *)
LEMMA LeaveReturns ==
    ASSUME LeaveInv, TypeOK,
           \/ Unregister \/ QuitPlayer \/ JoinPlayer \/ QuitThreads \/ JoinThreads
           \/ StopFails /\ user = "destroying"
    PROVE  LeaveInv'
<1> USE DEF LeaveInv, QuitWhenStopped, Leaving, PlayerJoined, ThreadsJoined, HasPlayer, HasStreams,
            userVars, threadVars
<1>0. source.kind \in {"camera", "file", "oni"}  BY StreamsAssumption DEF TypeOK
<1>1. CASE Unregister
  <2>1. on = {} /\ ~quit /\ ~overruled  BY <1>1 DEF Unregister
  <2> QED  BY <1>0, <1>1, <2>1 DEF Unregister
<1>2. CASE QuitPlayer  BY <1>0, <1>2 DEF QuitPlayer
<1>3. CASE JoinPlayer  BY <1>3 DEF JoinPlayer
<1>4. CASE QuitThreads
  <2>1. /\ user = "quitThreads" /\ user' = "joinThreads" /\ quit' /\ ~overruled
        /\ on' = {} /\ UNCHANGED <<source, player, overruled>>
    BY <1>4 DEF QuitThreads
  <2>2. \A s \in Streams : device'[s] # "waiting"  BY <1>4 DEF QuitThreads, WakeAll
  <2> QED  BY <2>1, <2>2
<1>5. CASE JoinThreads  BY <1>5 DEF JoinThreads
<1>6. CASE StopFails /\ user = "destroying"
  <2>1. /\ source.kind = "camera" /\ user' = "quitThreads" /\ ~quit /\ ~overruled
        /\ UNCHANGED <<source, on, quit, threadVars>>
    BY <1>6 DEF StopFails
  <2> QED  BY <2>1
<1> QED  BY <1>1, <1>2, <1>3, <1>4, <1>5, <1>6

(* The steps of the player thread and of the data threads. *)
LEMMA LeaveThreads ==
    ASSUME LeaveInv, TypeOK,
           \/ Player \/ EndOfFile
           \/ \E s \in Streams : Frames(s) \/ SpuriousWakeup(s) \/ DataThread(s)
    PROVE  LeaveInv'
<1>1. UNCHANGED <<userVars, user, todo, on>>  BY ThreadsLeaveUser
<1>2. HasPlayer' = HasPlayer /\ HasStreams' = HasStreams /\ Leaving' = Leaving
  BY <1>1 DEF HasPlayer, HasStreams, Leaving, userVars
<1> USE DEF LeaveInv, QuitWhenStopped, PlayerJoined, ThreadsJoined
<1>3. CASE PlayerStarts
  <2>1. player = "start" /\ player' = "read" /\ ~quit' /\ overruled' = (overruled \/ quit)
        /\ device' = device
    BY <1>3 DEF PlayerStarts
  <2>2. ~overruled  BY <2>1
  <2>3. quit => user = "joinPlayer"  BY <2>1
  <2>4. user \notin {"quitThreads", "joinThreads", "gone"}  BY <2>1
  <2>5. QuitWhenStopped'  BY <1>1, <1>2, <2>1
  <2>6. PlayerJoined'  BY <1>1, <1>2, <2>1, <2>2, <2>3, <2>4
  <2>7. ThreadsJoined'  BY <1>1, <1>2, <2>1, <2>4
  <2> QED  BY <2>5, <2>6, <2>7
<1>4. CASE PlayerEnds  BY <1>1, <1>2, <1>4 DEF PlayerEnds
<1>5. CASE EndOfFile  BY <1>1, <1>2, <1>5 DEF EndOfFile
<1>6. CASE PlayerNotifies
  <2>1. /\ player \in Streams /\ player' = "read" /\ UNCHANGED <<quit, overruled>>
        /\ device' = Woken(player)
    BY <1>6 DEF PlayerNotifies
  <2>2. player \notin {"start", "read", "ended"}  BY <2>1 DEF Streams
  <2>3. user \notin {"quitThreads", "joinThreads", "gone"} /\ ~overruled  BY <2>2
  <2>4. QuitWhenStopped' /\ PlayerJoined'  BY <1>1, <1>2, <2>1, <2>2, <2>3
  <2>5. \A t \in Streams : device'[t] = "ended" => device[t] = "ended"
    BY <2>1 DEF Woken, TypeOK
  <2>6. HasStreams \subseteq Streams  BY DeviceHas DEF TypeOK
  <2>7. ThreadsJoined'  BY <1>1, <1>2, <2>1, <2>3, <2>5, <2>6
  <2> QED  BY <2>4, <2>7
<1>7. ASSUME NEW s \in Streams, PlayerReads(s) PROVE LeaveInv'
  <2>1. /\ player = "read" /\ player' \in Streams /\ ~quit /\ s \in on
        /\ UNCHANGED <<quit, overruled, device>>
    BY <1>7 DEF PlayerReads, Notifies
  <2>2. HasPlayer /\ player' \notin {"start", "read", "ended"}  BY <2>1 DEF Streams
  <2>3. ~Leaving  BY <2>1, <2>2 DEF Leaving
  <2>4. ~overruled  BY <2>3 DEF Leaving
  <2>5. QuitWhenStopped' /\ PlayerJoined' /\ ThreadsJoined'
    BY <1>1, <1>2, <2>1, <2>2, <2>3, <2>4 DEF Leaving
  <2> QED  BY <2>5
<1>8. ASSUME NEW s \in Streams, NewDataAvailable(s) \/ SpuriousWakeup(s) \/ DataThread(s)
      PROVE  LeaveInv'
  <2>1. UNCHANGED <<quit, player, overruled>>
    BY <1>8 DEF NewDataAvailable, SpuriousWakeup, DataThread, Check, Fetch, CallBack, DataStep
  <2>2. QuitWhenStopped' /\ PlayerJoined'  BY <1>1, <1>2, <2>1
  <2>3. \A t \in Streams : /\ device'[t] = "waiting" => device[t] = "waiting" \/ ~quit
                           /\ device'[t] = "ended" => device[t] = "ended" \/ quit
    BY <1>8 DEF NewDataAvailable, Woken, SpuriousWakeup, DataThread, Check, Fetch, CallBack, DataStep,
                TypeOK
  <2>4. HasStreams \subseteq Streams  BY DeviceHas DEF TypeOK
  <2>5. ThreadsJoined'  BY <1>1, <1>2, <2>1, <2>3, <2>4
  <2> QED  BY <2>2, <2>5
<1> QED  BY <1>3, <1>4, <1>5, <1>6, <1>7, <1>8 DEF Player, Frames

LEMMA LeaveInvariant == Spec => [](StreamsInv /\ LeaveInv)
<1>1. LeaveInv /\ StreamsInv /\ [Next]_vars => LeaveInv'
  <2> SUFFICES ASSUME LeaveInv, StreamsInv, [Next]_vars PROVE LeaveInv'  OBVIOUS
  <2>1. TypeOK  BY DEF StreamsInv
  <2>2. CASE UserCall \/ UserReturn  BY <2>1, <2>2, LeaveCalls, LeaveReturns
  <2>3. CASE \/ Player \/ EndOfFile
             \/ \E s \in Streams : Frames(s) \/ SpuriousWakeup(s) \/ DataThread(s)
    BY <2>1, <2>3, LeaveThreads
  <2>4. CASE UNCHANGED vars
    BY <2>4 DEF vars, userVars, threadVars, LeaveInv, QuitWhenStopped, Leaving, PlayerJoined,
                ThreadsJoined, HasPlayer, HasStreams
  <2> QED  BY <2>2, <2>3, <2>4 DEF Next
<1> QED  BY <1>1, LeaveInit, StreamsInvariant, PTL DEF Spec

(* The destructor that has to wait waits for a thread that goes on: for    *)
(* the player thread, which finds quit_ set, or for data threads that were *)
(* all notified.                                                           *)
JoinsWhoEnds ==
    /\ user = "joinPlayer" => player \in {"start", "ended"} \/ quit \/ overruled
    /\ user = "joinThreads" => quit /\ \A s \in Streams : device[s] # "waiting"

(* Once the player thread has cleared quit_ it plays for good: the         *)
(* destructor waits for it and nobody sets quit_ again.                    *)
OverruledForGood ==
    /\ [](overruled => user = "joinPlayer" /\ player = "read" /\ ~quit)
    /\ [][overruled => overruled']_vars

(* The steps that are left to the destructor and to those it waits for.    *)
UserSteps ==
    CASE user = "destroying"  -> 5 + Cardinality(todo)
      [] user = "quitPlayer"  -> 4
      [] user = "joinPlayer"  -> 3
      [] user = "quitThreads" -> 2
      [] user = "joinThreads" -> 1
      [] OTHER                -> 0

PlayerSteps ==
    CASE player \in {"start"} \union Streams -> 2
      [] player = "read"                    -> 1
      [] OTHER                              -> 0

DataSteps(s) ==
    CASE device[s] = "fetched"            -> 2
      [] device[s] \in {"check", "woken"} -> 1
      [] OTHER                            -> 0

(* Each step of the destructor, and of a thread it joins, is one less to   *)
(* take; while streams run the player thread may still read.               *)
DestructorMovesOn ==
    [][Destroying =>
         /\ UserSteps' <= UserSteps /\ (UserReturn => UserSteps' < UserSteps)
         /\ on = {} => PlayerSteps' <= PlayerSteps /\ (Player => PlayerSteps' < PlayerSteps)
         /\ user = "joinThreads" /\ user' # "gone" =>
              /\ \A s \in Streams : DataSteps(s)' <= DataSteps(s)
              /\ \E s \in Streams : DataSteps(s)' < DataSteps(s)]_vars

LEMMA StreamsFinite == IsFiniteSet(Streams)
<1>1. IsFiniteSet(((({} \union {"image"}) \union {"depth"}) \union {"ir"}))
  BY FS_EmptySet, FS_AddElement, Zenon
<1>2. Streams = ((({} \union {"image"}) \union {"depth"}) \union {"ir"})  BY DEF Streams
<1> QED  BY <1>1, <1>2, Zenon

LEMMA UserMoves ==
    ASSUME TypeOK, Destroying, UserCall \/ UserReturn
    PROVE  UserSteps' < UserSteps /\ UserReturn /\ ~Player /\ player' = player
<1>1. player' = player /\ ~Player
  BY UserLeavesThreads DEF Player, PlayerStarts, PlayerEnds, PlayerNotifies, Streams
<1>2. /\ UserReturn
      /\ \/ StopStream \/ StopFails \/ Unregister \/ QuitPlayer \/ JoinPlayer \/ QuitThreads
         \/ JoinThreads
  BY DEF Destroying, UserCall, UserReturn, Start, StopByUser, Destroy, RegisterCallback, Disconnect,
         StartStream, StartFails, Started, Stopped, Call
<1>3. IsFiniteSet(todo) /\ Cardinality(todo) \in Nat
  <2>1. IsFiniteSet(Streams)  BY StreamsFinite
  <2>2. todo \subseteq Streams  BY DEF TypeOK
  <2> QED  BY <2>1, <2>2, FS_Subset, FS_CardinalityType
<1>4. CASE StopStream
  <2>1. PICK s \in todo : todo' = todo \ {s} /\ user' = user  BY <1>4 DEF StopStream
  <2>2. user = "destroying"  BY <1>4 DEF StopStream, Destroying
  <2>3. Cardinality(todo') = Cardinality(todo) - 1  BY <1>3, <2>1, FS_RemoveElement
  <2>4. UserSteps = 5 + Cardinality(todo) /\ UserSteps' = 5 + Cardinality(todo')
    BY <2>1, <2>2 DEF UserSteps
  <2> QED  BY <1>1, <1>2, <1>3, <2>3, <2>4
<1>5. CASE Unregister
  <2>1. user = "destroying" /\ user' \in {"quitPlayer", "quitThreads"}  BY <1>5 DEF Unregister
  <2> QED  BY <1>1, <1>2, <1>3, <2>1 DEF UserSteps
<1>10. CASE StopFails
  <2>1. user = "destroying" /\ user' = "quitThreads"  BY <1>10 DEF StopFails, Destroying
  <2> QED  BY <1>1, <1>2, <1>3, <2>1 DEF UserSteps
<1>6. CASE QuitPlayer  BY <1>1, <1>2, <1>6 DEF QuitPlayer, UserSteps
<1>7. CASE JoinPlayer  BY <1>1, <1>2, <1>7 DEF JoinPlayer, UserSteps
<1>8. CASE QuitThreads  BY <1>1, <1>2, <1>8 DEF QuitThreads, UserSteps
<1>9. CASE JoinThreads  BY <1>1, <1>2, <1>9 DEF JoinThreads, UserSteps
<1> QED  BY <1>2, <1>4, <1>5, <1>6, <1>7, <1>8, <1>9, <1>10

LEMMA ThreadsMove ==
    ASSUME StreamsInv, LeaveInv,
           \/ Player \/ EndOfFile
           \/ \E s \in Streams : Frames(s) \/ SpuriousWakeup(s) \/ DataThread(s)
    PROVE  /\ UserSteps' = UserSteps
           /\ on = {} => PlayerSteps' <= PlayerSteps /\ (Player => PlayerSteps' < PlayerSteps)
           /\ user = "joinThreads" =>
                /\ \A s \in Streams : DataSteps(s)' <= DataSteps(s)
                /\ \E s \in Streams : DataSteps(s)' < DataSteps(s)
<1>1. UserSteps' = UserSteps /\ user' = user  BY ThreadsLeaveUser DEF UserSteps
<1>2. CASE Player
  <2>1. /\ \/ player = "start" /\ player' = "read"
           \/ player = "read" /\ player' = "ended"
           \/ player \in Streams /\ player' = "read"
    BY <1>2 DEF Player, PlayerStarts, PlayerEnds, PlayerNotifies
  <2>2. user # "joinThreads"  BY <2>1 DEF LeaveInv, PlayerJoined, Streams
  <2>3. PlayerSteps' < PlayerSteps /\ PlayerSteps' <= PlayerSteps
    BY <2>1 DEF PlayerSteps, Streams
  <2> QED  BY <1>1, <2>2, <2>3
<1>4. PlayerSteps \in Nat  BY DEF PlayerSteps
<1>5. CASE EndOfFile \/ \E s \in Streams : PlayerReads(s)
  <2>1. user # "joinThreads" /\ player = "read"
    BY <1>5 DEF EndOfFile, PlayerReads, LeaveInv, PlayerJoined
  <2>2. on = {} => player' = player
    BY <1>5 DEF EndOfFile, PlayerReads, Notifies
  <2>3. on = {} => PlayerSteps' = PlayerSteps  BY <2>2 DEF PlayerSteps
  <2>4. ~Player \/ on # {}
    BY <1>5, <2>2 DEF Player, PlayerStarts, PlayerEnds, PlayerNotifies, Streams
  <2> QED  BY <1>1, <1>4, <2>1, <2>3, <2>4
<1>3. ASSUME NEW s \in Streams, NewDataAvailable(s) \/ SpuriousWakeup(s) \/ DataThread(s)
      PROVE  /\ player' = player /\ ~Player
             /\ user = "joinThreads" =>
                  /\ \A t \in Streams : DataSteps(t)' <= DataSteps(t)
                  /\ \E t \in Streams : DataSteps(t)' < DataSteps(t)
  <2>1. player' = player
    BY <1>3 DEF NewDataAvailable, SpuriousWakeup, DataThread, Check, Fetch, CallBack, DataStep
  <2>2. ~Player  BY <2>1 DEF Player, PlayerStarts, PlayerEnds, PlayerNotifies, Streams
  <2>3. ASSUME user = "joinThreads"
        PROVE  /\ \A t \in Streams : DataSteps(t)' <= DataSteps(t)
               /\ \E t \in Streams : DataSteps(t)' < DataSteps(t)
    <3>1. quit /\ device[s] # "waiting"  BY <2>3 DEF LeaveInv, ThreadsJoined
    <3>2. DOMAIN device = Streams  BY DEF StreamsInv, TypeOK
    <3>3. PICK to \in {"ended", "check"} :
             /\ device' = [device EXCEPT ![s] = to]
             /\ \/ device[s] = "fetched" /\ to = "check"
                \/ device[s] \in {"check", "woken"} /\ to = "ended"
      BY <1>3, <3>1 DEF Frames, PlayerReads, NewDataAvailable, Woken, SpuriousWakeup, DataThread,
                        Check, Fetch, CallBack, DataStep
    <3>4. \A t \in Streams \ {s} : device'[t] = device[t]  BY <3>2, <3>3
    <3>5. \A t \in Streams \ {s} : DataSteps(t)' = DataSteps(t)  BY <3>4 DEF DataSteps
    <3>6. device'[s] = to  BY <3>2, <3>3
    <3>7. DataSteps(s)' < DataSteps(s)  BY <3>3, <3>6 DEF DataSteps
    <3>8. \A t \in Streams : DataSteps(t) \in Nat  BY DEF DataSteps
    <3>9. \A t \in Streams : DataSteps(t)' \in Nat  BY DEF DataSteps
    <3>10. ASSUME NEW t \in Streams PROVE DataSteps(t)' <= DataSteps(t)
      <4>1. CASE t = s  BY <3>7, <3>8, <3>9, <4>1
      <4>2. CASE t # s
        <5>1. DataSteps(t)' = DataSteps(t)  BY <3>5, <4>2
        <5> QED  BY <3>8, <5>1
      <4> QED  BY <4>1, <4>2
    <3> QED  BY <3>7, <3>10
  <2> QED  BY <2>1, <2>2, <2>3
<1> QED
  <2>1. CASE Player \/ EndOfFile \/ \E s \in Streams : PlayerReads(s)  BY <1>2, <1>5, <2>1
  <2>2. CASE ~(Player \/ EndOfFile \/ \E s \in Streams : PlayerReads(s))
    <3>0. \E s \in Streams : NewDataAvailable(s) \/ SpuriousWakeup(s) \/ DataThread(s)
      BY <2>2 DEF Frames
    <3>1. player' = player  BY <1>3, <3>0
    <3>2. PlayerSteps' = PlayerSteps  BY <3>1 DEF PlayerSteps
    <3> QED  BY <1>1, <1>3, <1>4, <2>2, <3>0, <3>2
  <2> QED  BY <2>1, <2>2

(* The destructor returns after a bounded number of its own steps and of   *)
(* those of the threads it joins, and meets nobody who does not go on but  *)
(* a player thread that has cleared quit_; that one it meets for ever.     *)
(* What DestructorReturns says but for fairness.                           *)
THEOREM DestructorJoins ==
    Spec => []JoinsWhoEnds /\ OverruledForGood /\ DestructorMovesOn
<1>1. LeaveInv => JoinsWhoEnds
  BY DEF LeaveInv, PlayerJoined, ThreadsJoined, JoinsWhoEnds
<1>2. LeaveInv => (overruled => user = "joinPlayer" /\ player = "read" /\ ~quit)
  BY DEF LeaveInv, PlayerJoined
<1>3. [Next]_vars => [overruled => overruled']_vars
  <2> SUFFICES ASSUME Next, overruled PROVE overruled'  OBVIOUS
  <2>1. CASE UserCall \/ UserReturn  BY <2>1, UserLeavesThreads
  <2>2. CASE ~(UserCall \/ UserReturn)
    BY <2>2 DEF Next, Player, PlayerStarts, PlayerEnds, PlayerNotifies, EndOfFile, Frames,
                PlayerReads, NewDataAvailable, Woken, SpuriousWakeup, DataThread,
                Check, Fetch, CallBack, DataStep
  <2> QED  BY <2>1, <2>2
<1> DEFINE Moves ==
      /\ UserSteps' <= UserSteps /\ (UserReturn => UserSteps' < UserSteps)
      /\ on = {} => PlayerSteps' <= PlayerSteps /\ (Player => PlayerSteps' < PlayerSteps)
      /\ user = "joinThreads" /\ user' # "gone" =>
           /\ \A s \in Streams : DataSteps(s)' <= DataSteps(s)
           /\ \E s \in Streams : DataSteps(s)' < DataSteps(s)
<1>4. StreamsInv /\ LeaveInv /\ [Next]_vars => [Destroying => Moves]_vars
  <2> SUFFICES ASSUME StreamsInv, LeaveInv, Next, Destroying PROVE Moves  OBVIOUS
  <2>1. TypeOK  BY DEF StreamsInv
  <2>2. PlayerSteps \in Nat  BY DEF PlayerSteps
  <2>3. UserSteps \in Nat
    <3>1. IsFiniteSet(Streams)  BY StreamsFinite
    <3>2. todo \subseteq Streams  BY <2>1 DEF TypeOK
    <3>3. Cardinality(todo) \in Nat  BY <3>1, <3>2, FS_Subset, FS_CardinalityType
    <3> QED  BY <3>3 DEF UserSteps
  <2>4. CASE UserCall \/ UserReturn
    <3>1. UserSteps' < UserSteps /\ ~Player /\ player' = player  BY <2>1, <2>4, UserMoves
    <3>2. PlayerSteps' = PlayerSteps  BY <3>1 DEF PlayerSteps
    <3>3. user = "joinThreads" => user' = "gone"
      BY <2>4 DEF UserCall, UserReturn, Start, StopByUser, Destroy, RegisterCallback, Disconnect,
                  StartStream, StartFails, Started, StopStream, StopFails, Stopped, Unregister,
   QuitPlayer,
                  JoinPlayer, QuitThreads, JoinThreads, Call
    <3>4. UserSteps' <= UserSteps
      <4>1. UserSteps' \in Nat
        <5>1. TypeOK'  BY <2>4, UserTypes
        <5>2. IsFiniteSet(Streams) /\ todo' \subseteq Streams  BY <5>1, StreamsFinite DEF TypeOK
        <5>3. Cardinality(todo') \in Nat  BY <5>2, FS_Subset, FS_CardinalityType
        <5> QED  BY <5>3 DEF UserSteps
      <4> QED  BY <2>3, <3>1, <4>1
    <3> QED  BY <2>2, <3>1, <3>2, <3>3, <3>4
  <2>5. CASE ~(UserCall \/ UserReturn)
    <3>1. \/ Player \/ EndOfFile
          \/ \E s \in Streams : Frames(s) \/ SpuriousWakeup(s) \/ DataThread(s)
      BY <2>5 DEF Next
    <3> QED  BY <2>3, <2>5, <3>1, ThreadsMove
  <2> QED  BY <2>4, <2>5
<1>5. QED
  BY <1>1, <1>2, <1>3, <1>4, LeaveInvariant, PTL DEF Spec, OverruledForGood, DestructorMovesOn

-----------------------------------------------------------------------------
(* How far a data thread is from its next frame. *)
FetchSteps(s) ==
    CASE device[s] = "check"                 -> 4
      [] device[s] = "waiting" /\ player # s -> 3
      [] device[s] = "waiting" /\ player = s -> 2
      [] device[s] = "woken"                 -> 1
      [] OTHER                               -> 0

(* A stream that runs has a data thread that has not ended, quit_ is not   *)
(* set, and the player thread reads on once it has started.                *)
RunningSupplied ==
    on # {} => ~quit /\ (\A s \in on : device[s] # "ended") /\ (HasPlayer => player # "ended")

(* A step towards the next frame of a stream: of its data thread, or a     *)
(* frame that is read, or announced, while that thread waits.              *)
SupplyStep(s) ==
    DataThread(s) \/ (device[s] = "waiting" /\ (Frames(s) \/ (PlayerNotifies /\ player = s)))

(* The data thread of a stream that runs comes nearer to its next frame    *)
(* with each such step, and gets no further from it by anybody else's.     *)
SupplyMovesOn ==
    [][\A s \in on \intersect on' : device[s] # "fetched" =>
         FetchSteps(s)' <= FetchSteps(s) /\ (SupplyStep(s) => FetchSteps(s)' < FetchSteps(s))]_vars

(* Nothing but the frame it waits for, and the player thread that          *)
(* announces it, stands between a stream that runs and its subscribers:    *)
(* what FramesKeepComing says but for fairness.                            *)
THEOREM SuppliesStreams == Spec => []RunningSupplied /\ SupplyMovesOn
<1>1. StreamsInv /\ LeaveInv => RunningSupplied
  <2> SUFFICES ASSUME StreamsInv, LeaveInv, on # {} PROVE RunningSupplied
    BY DEF RunningSupplied
  <2>1. on \subseteq HasStreams  BY DEF StreamsInv, TypeOK
  <2>2. ~Leaving \/ (user = "quitThreads" /\ ~HasPlayer)  BY DEF LeaveInv, QuitWhenStopped
  <2>3. ~quit /\ ~overruled  BY <2>2 DEF LeaveInv, QuitWhenStopped, PlayerJoined, Leaving
  <2> QED  BY <2>1, <2>3 DEF LeaveInv, PlayerJoined, ThreadsJoined, RunningSupplied
<1> DEFINE Moves ==
      \A s \in on \intersect on' : device[s] # "fetched" =>
        FetchSteps(s)' <= FetchSteps(s) /\ (SupplyStep(s) => FetchSteps(s)' < FetchSteps(s))
<1>2. StreamsInv /\ LeaveInv /\ [Next]_vars => [Moves]_vars
  <2> SUFFICES ASSUME StreamsInv, LeaveInv, Next,
                      NEW s \in on \intersect on', device[s] # "fetched"
               PROVE  /\ FetchSteps(s)' <= FetchSteps(s)
                      /\ SupplyStep(s) => FetchSteps(s)' < FetchSteps(s)
    OBVIOUS
  <2>1. s \in Streams /\ device \in [Streams -> {"check", "waiting", "woken", "fetched", "ended"}]
    BY DeviceHas DEF StreamsInv, TypeOK
  <2>2. ~quit /\ device[s] # "ended"  BY <1>1 DEF RunningSupplied
  <2>3. FetchSteps(s) \in Nat  BY DEF FetchSteps
  <2>4. CASE UserCall \/ UserReturn
    <3>1. ~QuitThreads  BY DEF QuitThreads
    <3>2. device' = device /\ player' = player  BY <2>4, <3>1, UserLeavesThreads
    <3>3. FetchSteps(s)' = FetchSteps(s)  BY <3>2 DEF FetchSteps
    <3>4. ~SupplyStep(s)
      BY <2>1, <2>2, <3>2
      DEF SupplyStep, DataThread, Check, Fetch, CallBack, DataStep, Frames, PlayerReads,
          NewDataAvailable, Woken, PlayerNotifies, Streams
    <3> QED  BY <2>3, <3>3, <3>4
  <2>5. CASE PlayerStarts \/ PlayerEnds \/ EndOfFile
    <3>1. /\ device' = device /\ player \in {"start", "read"} /\ player' \in {"read", "ended"}
          /\ player \notin Streams /\ player' \notin Streams
      BY <2>5 DEF PlayerStarts, PlayerEnds, EndOfFile, Streams
    <3>2. FetchSteps(s)' = FetchSteps(s)  BY <2>1, <3>1 DEF FetchSteps
    <3>3. ~SupplyStep(s)
      BY <2>1, <2>2, <3>1
      DEF SupplyStep, DataThread, Check, Fetch, CallBack, DataStep, Frames, PlayerReads,
          NewDataAvailable, Woken, PlayerNotifies
    <3> QED  BY <2>3, <3>2, <3>3
  <2>6. CASE PlayerNotifies
    <3>1. player \in Streams /\ player' = "read" /\ "read" \notin Streams /\ device' = Woken(player)
      BY <2>6 DEF PlayerNotifies, Streams
    <3>2. CASE player = s /\ device[s] = "waiting"
      <4>1. device'[s] = "woken"  BY <2>1, <3>1, <3>2 DEF Woken
      <4> QED  BY <3>2, <4>1 DEF FetchSteps
    <3>3. CASE ~(player = s /\ device[s] = "waiting")
      <4>1. device'[s] = device[s]  BY <2>1, <3>1, <3>3 DEF Woken
      <4>2. FetchSteps(s)' = FetchSteps(s)  BY <2>1, <3>1, <3>3, <4>1 DEF FetchSteps
      <4>3. ~SupplyStep(s)
        BY <2>1, <2>2, <3>1, <3>3, <4>1
        DEF SupplyStep, DataThread, Check, Fetch, CallBack, DataStep, Frames, PlayerReads,
            NewDataAvailable, Woken
      <4> QED  BY <2>3, <4>2, <4>3
    <3> QED  BY <3>2, <3>3
  <2>7. ASSUME NEW t \in Streams, PlayerReads(t)
        PROVE  FetchSteps(s)' <= FetchSteps(s) /\ (SupplyStep(s) => FetchSteps(s)' < FetchSteps(s))
    <3>1. player = "read" /\ "read" \notin Streams /\ player' = t /\ device' = device
      BY <2>7 DEF PlayerReads, Streams
    <3>2. CASE t = s /\ device[s] = "waiting"
      <4>1. FetchSteps(s) = 3 /\ FetchSteps(s)' = 2  BY <2>1, <3>1, <3>2 DEF FetchSteps
      <4> QED  BY <4>1
    <3>3. CASE ~(t = s /\ device[s] = "waiting")
      <4>1. FetchSteps(s)' = FetchSteps(s)  BY <2>1, <3>1, <3>3 DEF FetchSteps
      <4>2. ~SupplyStep(s)
        BY <2>1, <2>2, <3>1, <3>3
        DEF SupplyStep, DataThread, Check, Fetch, CallBack, DataStep, Frames, PlayerReads,
            NewDataAvailable, Woken, PlayerNotifies
      <4> QED  BY <2>3, <4>1, <4>2
    <3> QED  BY <3>2, <3>3
  <2>8. ASSUME NEW t \in Streams, NewDataAvailable(t) \/ SpuriousWakeup(t) \/ DataThread(t)
        PROVE  FetchSteps(s)' <= FetchSteps(s) /\ (SupplyStep(s) => FetchSteps(s)' < FetchSteps(s))
    <3>1. player' = player
      BY <2>8 DEF NewDataAvailable, SpuriousWakeup, DataThread, Check, Fetch, CallBack, DataStep
    <3>2. CASE device'[s] = device[s]
      <4>1. FetchSteps(s)' = FetchSteps(s)  BY <3>1, <3>2 DEF FetchSteps
      <4>2. ~SupplyStep(s)
        BY <2>1, <2>2, <3>1, <3>2
        DEF SupplyStep, DataThread, Check, Fetch, CallBack, DataStep, Frames, PlayerReads,
            NewDataAvailable, Woken, PlayerNotifies, Streams
      <4> QED  BY <2>3, <4>1, <4>2
    <3>3. CASE device'[s] # device[s]
      <4>1. \/ device[s] = "check" /\ device'[s] = "waiting"
            \/ device[s] = "waiting" /\ device'[s] = "woken"
            \/ device[s] = "woken" /\ device'[s] = "fetched"
        BY <2>1, <2>2, <2>8, <3>3
        DEF NewDataAvailable, Woken, SpuriousWakeup, DataThread, Check, Fetch, CallBack, DataStep
      <4> QED  BY <3>1, <4>1 DEF FetchSteps
    <3> QED  BY <3>2, <3>3
  <2> QED  BY <2>4, <2>5, <2>6, <2>7, <2>8 DEF Next, Player, Frames
<1> QED  BY <1>1, <1>2, LeaveInvariant, PTL DEF Spec, SupplyMovesOn
=============================================================================
