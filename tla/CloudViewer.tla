---------------------------- MODULE CloudViewer ----------------------------
(***************************************************************************)
(* CloudViewer: clients hand clouds and callables to a visualizer thread,  *)
(* which runs until its window is closed or the viewer destroyed.          *)
(* showCloud() returns when its cloud is on the screen.  A critical        *)
(* section of a client is one step; those of the visualizer thread are     *)
(* several, in which the client waits.  All clouds have the same name.     *)
(***************************************************************************)
EXTENDS Integers, Sequences, SequencesExt, FiniteSets

CONSTANTS
    Clients,   \* threads that use the viewer
    Keys,      \* names of callables
    MaxCalls   \* bound: calls of one client

ASSUME ViewerAssumption == MaxCalls \in Nat /\ IsFiniteSet(Keys)

VARIABLES
    owner,          \* where the thread is that constructs and destroys the viewer
    pc,             \* where a client is
    calls,          \* how many calls a client has begun
    viz,            \* where the visualizer thread is
    viewer,         \* viewer_, seen from other threads: not yet, there or reset
    stopped,        \* viewer_->wasStopped()
    quit,           \* quit_
    cloudShows,     \* cloud_shows_, of clouds <<client, call>>
    callablesOnce,  \* callables_once
    callables,      \* callables, or NoCallable
    todo,           \* callables that BOOST_FOREACH has yet to reach
    shown,          \* the clouds popped, in order
    ranOnce,        \* the callables of callables_once that ran
    called          \* the last callable of callables that ran

clientVars == <<pc, calls, cloudShows, callablesOnce, callables>>
lifeVars == <<owner, viewer, stopped, quit>>
historyVars == <<shown, ranOnce, called>>
vars == <<owner, pc, calls, viz, viewer, stopped, quit, cloudShows, callablesOnce, callables,
          todo, shown, ranOnce, called>>

NoCallable == <<>>

-----------------------------------------------------------------------------
Init ==
    /\ owner = "constructing" /\ pc = [c \in Clients |-> "idle"] /\ calls = [c \in Clients |-> 0]
    /\ viz = "start" /\ viewer = "none" /\ stopped = FALSE /\ quit = FALSE
    /\ cloudShows = <<>> /\ callablesOnce = <<>> /\ callables = [k \in Keys |-> NoCallable]
    /\ todo = {} /\ shown = <<>> /\ ranOnce = <<>> /\ called = NoCallable

(* Mutant: the visualizer thread does not lock. *)
Unlocked == FALSE

(* The mutexes of the visualizer thread, as clients meet them. *)
MtxHeld == viz \in {"clouds", "popped"}
OnceMtxHeld == viz \in {"once", "clear"}
CMtxHeld == viz = "each"

Latest(c) == <<c, calls'[c]>>

Begin(c, from, to) ==
    /\ pc[c] = from /\ pc' = [pc EXCEPT ![c] = to]
    /\ UNCHANGED <<lifeVars, viz, todo, historyVars>>

Call(c) == calls[c] < MaxCalls /\ owner = "open" /\ calls' = [calls EXCEPT ![c] = @ + 1]

(* showCloud(): nothing happens without a viewer, or with a closed window. *)
ShowCloud(c) ==
    /\ Call(c)
    /\ Begin(c, "idle", IF viewer = "shown" THEN "check" ELSE "idle")
    /\ UNCHANGED <<cloudShows, callablesOnce, callables>>

(* The viewer may be reset since: then a null pointer is followed. *)
CheckStopped(c) ==
    /\ Begin(c, "check", IF viewer # "shown" THEN "undefined" ELSE IF stopped THEN "idle" ELSE "post")
    /\ UNCHANGED <<calls, cloudShows, callablesOnce, callables>>

(* Mutant: nonblock_post_cloud(). *)
PostedAt == "idle"

(* block_post_cloud() and then the loop on popped(). *)
WaitsAt == "spin"

Post(c) ==
    /\ ~MtxHeld
    /\ Begin(c, "post", WaitsAt)
    /\ cloudShows' = Append(cloudShows, <<c, calls[c]>>)
    /\ UNCHANGED <<calls, callablesOnce, callables>>

Popped(c) ==
    /\ <<c, calls[c]>> \in Range(shown)
    /\ Begin(c, "spin", "idle")
    /\ UNCHANGED <<calls, cloudShows, callablesOnce, callables>>

RunOnVisualizationThread(c, k) ==
    /\ ~CMtxHeld /\ Call(c) /\ Begin(c, "idle", "idle")
    /\ callables' = [callables EXCEPT ![k] = Latest(c)]
    /\ UNCHANGED <<cloudShows, callablesOnce>>

RunOnVisualizationThreadOnce(c) ==
    /\ ~OnceMtxHeld /\ Call(c) /\ Begin(c, "idle", "idle")
    /\ callablesOnce' = Append(callablesOnce, Latest(c))
    /\ UNCHANGED <<cloudShows, callables>>

RemoveVisualizationCallable(c, k) ==
    /\ ~CMtxHeld /\ Call(c) /\ Begin(c, "idle", "idle")
    /\ callables' = [callables EXCEPT ![k] = NoCallable]
    /\ UNCHANGED <<cloudShows, callablesOnce>>

-----------------------------------------------------------------------------
(* The constructor waits for the viewer, the destructor for the thread.    *)
Constructed ==
    /\ owner = "constructing" /\ viewer = "shown"
    /\ owner' = "open"
    /\ UNCHANGED <<clientVars, viz, viewer, stopped, quit, todo, historyVars>>

Destroy ==
    /\ owner = "open" /\ \A c \in Clients : pc[c] = "idle"
    /\ owner' = "destroying" /\ quit' = TRUE
    /\ UNCHANGED <<clientVars, viz, viewer, stopped, todo, historyVars>>

Join ==
    /\ owner = "destroying" /\ viz = "ended"
    /\ owner' = "gone"
    /\ UNCHANGED <<clientVars, viz, viewer, stopped, quit, todo, historyVars>>

(* The user closes the window; the thread sees it in spinOnce(). *)
CloseWindow ==
    /\ viz = "spinOnce" /\ ~stopped
    /\ stopped' = TRUE
    /\ UNCHANGED <<owner, clientVars, viz, viewer, quit, todo, historyVars>>

-----------------------------------------------------------------------------
VizStep(from, to) == viz = from /\ viz' = to /\ UNCHANGED <<owner, pc, calls, stopped>>

CreateViewer ==
    /\ VizStep("start", "loop") /\ viewer' = "shown"
    /\ UNCHANGED <<quit, cloudShows, callablesOnce, callables, todo, historyVars>>

Loop ==
    /\ VizStep("loop", IF quit THEN "reset" ELSE "clouds")
    /\ UNCHANGED <<viewer, quit, cloudShows, callablesOnce, callables, todo, historyVars>>

(* The last cloud is shown and then taken from the list. *)
ShowLast ==
    /\ cloudShows # <<>> /\ VizStep("clouds", "popped")
    /\ shown' = Append(shown, Last(cloudShows))
    /\ UNCHANGED <<viewer, quit, cloudShows, callablesOnce, callables, todo, ranOnce, called>>

PopBack ==
    /\ VizStep("popped", "clouds")
    /\ cloudShows' = Front(cloudShows)
    /\ UNCHANGED <<viewer, quit, callablesOnce, callables, todo, historyVars>>

NoMoreClouds ==
    /\ cloudShows = <<>> /\ VizStep("clouds", "once")
    /\ UNCHANGED <<viewer, quit, cloudShows, callablesOnce, callables, todo, historyVars>>

RunOnce ==
    /\ VizStep("once", "clear")
    /\ ranOnce' = ranOnce \o callablesOnce
    /\ UNCHANGED <<viewer, quit, cloudShows, callablesOnce, callables, todo, shown, called>>

ClearOnce ==
    /\ VizStep("clear", "each")
    /\ callablesOnce' = <<>>
    /\ todo' = {k \in Keys : callables[k] # NoCallable}
    /\ UNCHANGED <<viewer, quit, cloudShows, callables, historyVars>>

RunEach ==
    \E k \in todo :
        /\ VizStep("each", "each")
        /\ todo' = todo \ {k} /\ called' = callables[k]
        /\ UNCHANGED <<viewer, quit, cloudShows, callablesOnce, callables, shown, ranOnce>>

AllRun ==
    /\ todo = {} /\ VizStep("each", IF stopped THEN "loop" ELSE "spinOnce")
    /\ quit' = (quit \/ stopped)
    /\ UNCHANGED <<viewer, cloudShows, callablesOnce, callables, todo, historyVars>>

Spun ==
    /\ VizStep("spinOnce", "loop")
    /\ UNCHANGED <<viewer, quit, cloudShows, callablesOnce, callables, todo, historyVars>>

ResetViewer ==
    /\ VizStep("reset", "ended") /\ viewer' = "reset"
    /\ UNCHANGED <<quit, cloudShows, callablesOnce, callables, todo, historyVars>>

-----------------------------------------------------------------------------
Show(c) == CheckStopped(c) \/ Post(c) \/ Popped(c)

Client(c) ==
    \/ ShowCloud(c) \/ Show(c) \/ RunOnVisualizationThreadOnce(c)
    \/ \E k \in Keys : RunOnVisualizationThread(c, k) \/ RemoveVisualizationCallable(c, k)

Visualizer ==
    \/ CreateViewer \/ Loop \/ ShowLast \/ PopBack \/ NoMoreClouds \/ RunOnce \/ ClearOnce
    \/ RunEach \/ AllRun \/ Spun \/ ResetViewer

Next == Constructed \/ Destroy \/ Join \/ CloseWindow \/ Visualizer \/ \E c \in Clients : Client(c)

(* Every thread runs.  A client gets the mutex, which is free while the    *)
(* visualizer handles the events of its window.  Nobody has to call.       *)
Fairness ==
    /\ WF_vars(Visualizer) /\ WF_vars(Constructed) /\ WF_vars(Join)
    /\ \A c \in Clients : WF_vars(CheckStopped(c) \/ Popped(c)) /\ SF_vars(Post(c))

Spec == Init /\ [][Next]_vars /\ Fairness

-----------------------------------------------------------------------------
(* The client of this cloud of the list is in the call that posted it. *)
AwaitedAt(i) ==
    LET c == cloudShows[i][1] IN pc[c] = "spin" /\ cloudShows[i][2] = calls[c]

(* Every variable has its type, and the list holds no clouds but those a   *)
(* client waits for and the one just shown: it cannot grow.                *)
TypeOK ==
    LET Ids == Clients \X (1 .. MaxCalls) IN
    /\ owner \in {"constructing", "open", "destroying", "gone"}
    /\ pc \in [Clients -> {"idle", "check", "post", "spin", "undefined"}]
    /\ calls \in [Clients -> 0 .. MaxCalls]
    /\ viz \in {"start", "loop", "clouds", "popped", "once", "clear", "each", "spinOnce", "reset",
                "ended"}
    /\ viewer \in {"none", "shown", "reset"} /\ stopped \in BOOLEAN /\ quit \in BOOLEAN
    /\ cloudShows \in Seq(Ids)
    /\ \A i \in DOMAIN cloudShows : AwaitedAt(i) \/ (i = Len(cloudShows) /\ viz = "popped")
    /\ callablesOnce \in Seq(Ids)
    /\ callables \in [Keys -> Ids \union {NoCallable}] /\ todo \subseteq Keys

(* Although clouds are shown from the last to the first, those of one      *)
(* client reach the screen in the order of its calls, each once.           *)
ShownInOrder ==
    \A i, j \in DOMAIN shown : i < j /\ shown[i][1] = shown[j][1] => shown[i][2] < shown[j][2]

(* A callable that has been removed is not called any more, and one that   *)
(* was replaced neither, although the thread goes through the map while    *)
(* others change it.                                                       *)
RemovedNotCalled ==
    [][todo' # todo /\ viz = "each" => called' # NoCallable /\ called' \in Range(callables)]_vars

(* A callable to be run once runs before the thread ends or is never       *)
(* reached, and it does not run twice.                                     *)
NotTwice == \A i, j \in DOMAIN ranOnce : i # j => ranOnce[i] # ranOnce[j]
RunExactlyOnce ==
    /\ []NotTwice
    /\ \A c \in Clients, n \in 1 .. MaxCalls :
           <<c, n>> \in Range(callablesOnce) ~> <<c, n>> \in Range(ranOnce) \/ viz = "ended"

(* showCloud() and the constructor return, if not the visualizer thread    *)
(* has ended, and the destructor returns always.                           *)
CallsReturn ==
    /\ owner = "constructing" ~> owner = "open" \/ viz = "ended"
    /\ \A c \in Clients : pc[c] # "idle" ~> pc[c] = "idle" \/ viz = "ended"
    /\ owner = "destroying" ~> owner = "gone"
=============================================================================
