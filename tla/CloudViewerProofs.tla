------------------------- MODULE CloudViewerProofs -------------------------
(***************************************************************************)
(* Proofs about the viewer: the list of clouds, the order they are shown   *)
(* in, the map of callables and the list of those to be run once, and that *)
(* nobody waits for a thread that does not come to him: each round serves  *)
(* all who wait and is bounded.  For any number of clients and calls.      *)
(***************************************************************************)
EXTENDS CloudViewer, FiniteSetTheorems, SequenceTheorems, TLAPS

Ids == Clients \X (1 .. MaxCalls)

(* No cloud of the client that waits for this one was shown after it. *)
NotYetShown(id) == \A j \in DOMAIN shown : shown[j][1] = id[1] => shown[j][2] < id[2]

(* Each client has one cloud in the list at most, which is still to be     *)
(* shown unless the thread is just about to remove it.                     *)
ListInv ==
    /\ \A i, j \in DOMAIN cloudShows : i # j => cloudShows[i][1] # cloudShows[j][1]
    /\ \A i \in DOMAIN cloudShows :
          NotYetShown(cloudShows[i]) \/ (i = Len(cloudShows) /\ viz = "popped")
    /\ viz = "popped" => cloudShows # <<>>

(* The calls a client is in, or has done. *)
CallsInv ==
    /\ \A c \in Clients : pc[c] \in {"check", "post", "spin"} => calls[c] > 0
    /\ \A c \in Clients : pc[c] \in {"check", "post"} => NotYetShown(<<c, calls[c]>>)
    /\ shown \in Seq(Ids)
    /\ \A j \in DOMAIN shown : shown[j][2] <= calls[shown[j][1]]

(* What is left of the map is still in it. *)
TodoInv == viz = "each" => \A k \in todo : callables[k] # NoCallable

ViewerInv == TypeOK /\ ListInv /\ CallsInv /\ TodoInv /\ ShownInOrder

LEMMA InitViewer == Init => ViewerInv
<1> SUFFICES ASSUME Init PROVE ViewerInv  OBVIOUS
<1> USE ViewerAssumption DEF Init
<1>1. TypeOK
  <2>1. callables \in [Keys -> Ids \union {NoCallable}] /\ calls \in [Clients -> 0 .. MaxCalls]
    OBVIOUS
  <2>2. cloudShows \in Seq(Ids) /\ callablesOnce \in Seq(Ids) /\ DOMAIN cloudShows = {}
    OBVIOUS
  <2>3. pc \in [Clients -> {"idle", "check", "post", "spin", "undefined"}]  OBVIOUS
  <2> HIDE DEF Ids
  <2> QED  BY <2>1, <2>2, <2>3 DEF TypeOK, Ids
<1>2. ListInv /\ CallsInv /\ TodoInv /\ ShownInOrder
  BY DEF ListInv, CallsInv, TodoInv, ShownInOrder
<1> QED  BY <1>1, <1>2 DEF ViewerInv

(* The thread that constructs and destroys, and the user. *)
LEMMA OwnerViews ==
    ASSUME ViewerInv, Constructed \/ Destroy \/ Join \/ CloseWindow
    PROVE  ViewerInv'
<1>1. UNCHANGED <<clientVars, viz, todo, historyVars>>
  BY DEF Constructed, Destroy, Join, CloseWindow
<1>2. /\ owner' \in {"constructing", "open", "destroying", "gone"} /\ viewer' = viewer
      /\ stopped' \in {stopped, TRUE} /\ quit' \in {quit, TRUE}
  BY DEF Constructed, Destroy, Join, CloseWindow, ViewerInv, TypeOK
<1>3. stopped' \in BOOLEAN /\ quit' \in BOOLEAN  BY <1>2 DEF ViewerInv, TypeOK
<1>4. TypeOK'  BY <1>1, <1>2, <1>3 DEF ViewerInv, TypeOK, AwaitedAt, clientVars
<1>5. (ListInv /\ CallsInv /\ TodoInv /\ ShownInOrder)'
  BY <1>1 DEF ViewerInv, ListInv, CallsInv, TodoInv, ShownInOrder, NotYetShown, clientVars, historyVars
<1> QED  BY <1>4, <1>5 DEF ViewerInv

(* A client. *)
LEMMA ClientViews ==
    ASSUME ViewerInv, NEW c \in Clients, Client(c)
    PROVE  ViewerInv'
<1> USE ViewerAssumption
<1>1. /\ UNCHANGED <<lifeVars, viz, todo, historyVars>>
      /\ \E to \in {"idle", "check", "post", "spin", "undefined"} : pc' = [pc EXCEPT ![c] = to]
  BY DEF Client, Show, ShowCloud, CheckStopped, Post, Popped, RunOnVisualizationThread,
         RunOnVisualizationThreadOnce, RemoveVisualizationCallable, Begin, WaitsAt
<1>2. /\ calls \in [Clients -> 0 .. MaxCalls] /\ cloudShows \in Seq(Ids) /\ callablesOnce \in Seq(Ids)
      /\ callables \in [Keys -> Ids \union {NoCallable}]
      /\ pc \in [Clients -> {"idle", "check", "post", "spin", "undefined"}]
      /\ shown \in Seq(Ids)
  BY DEF ViewerInv, TypeOK, CallsInv, Ids
<1>3. \/ /\ pc[c] = "idle" /\ pc'[c] \in {"idle", "check"} /\ calls' = [calls EXCEPT ![c] = @ + 1]
         /\ calls'[c] \in 1 .. MaxCalls /\ cloudShows' = cloudShows
         /\ \/ UNCHANGED callables
            \/ viz # "each" /\ \E k \in Keys : callables' = [callables EXCEPT ![k] = <<c, calls'[c]>>]
            \/ viz # "each" /\ \E k \in Keys : callables' = [callables EXCEPT ![k] = NoCallable]
         /\ callablesOnce' \in {callablesOnce, Append(callablesOnce, <<c, calls'[c]>>)}
      \/ /\ pc[c] = "check" /\ pc'[c] \in {"undefined", "idle", "post"}
         /\ UNCHANGED <<calls, cloudShows, callablesOnce, callables>>
      \/ /\ pc[c] = "post" /\ pc'[c] = "spin" /\ viz # "popped"
         /\ cloudShows' = Append(cloudShows, <<c, calls[c]>>)
         /\ UNCHANGED <<calls, callablesOnce, callables>>
      \/ /\ pc[c] = "spin" /\ pc'[c] = "idle" /\ <<c, calls[c]>> \in Range(shown)
         /\ UNCHANGED <<calls, cloudShows, callablesOnce, callables>>
  <2> USE <1>2 DEF Begin, Call, Latest
  <2>1. CASE ShowCloud(c)  BY <2>1 DEF ShowCloud
  <2>2. CASE CheckStopped(c)  BY <2>2 DEF CheckStopped
  <2>3. CASE Post(c)  BY <2>3 DEF Post, MtxHeld, WaitsAt
  <2>4. CASE Popped(c)  BY <2>4 DEF Popped
  <2>5. ASSUME NEW k \in Keys, RunOnVisualizationThread(c, k)
        PROVE  /\ pc[c] = "idle" /\ pc'[c] = "idle" /\ calls' = [calls EXCEPT ![c] = @ + 1]
               /\ calls'[c] \in 1 .. MaxCalls /\ cloudShows' = cloudShows /\ viz # "each"
               /\ callables' = [callables EXCEPT ![k] = <<c, calls'[c]>>]
               /\ callablesOnce' = callablesOnce
    BY <2>5 DEF RunOnVisualizationThread, CMtxHeld
  <2>6. CASE RunOnVisualizationThreadOnce(c)  BY <2>6 DEF RunOnVisualizationThreadOnce
  <2>7. ASSUME NEW k \in Keys, RemoveVisualizationCallable(c, k)
        PROVE  /\ pc[c] = "idle" /\ pc'[c] = "idle" /\ calls' = [calls EXCEPT ![c] = @ + 1]
               /\ calls'[c] \in 1 .. MaxCalls /\ cloudShows' = cloudShows /\ viz # "each"
               /\ callables' = [callables EXCEPT ![k] = NoCallable]
               /\ callablesOnce' = callablesOnce
    BY <2>7 DEF RemoveVisualizationCallable, CMtxHeld
  <2> QED  BY <2>1, <2>2, <2>3, <2>4, <2>5, <2>6, <2>7 DEF Client, Show
<1>4. \A d \in Clients \ {c} : pc'[d] = pc[d] /\ calls'[d] = calls[d]  BY <1>1, <1>2, <1>3
<1>5. calls' \in [Clients -> 0 .. MaxCalls]
  <2>1. calls' = calls \/ (calls' = [calls EXCEPT ![c] = @ + 1] /\ calls'[c] \in 0 .. MaxCalls)
    BY <1>2, <1>3
  <2> QED  BY <1>2, <2>1
<1>6. \A d \in Clients : calls[d] <= calls'[d]
  <2>1. \A d \in Clients : calls[d] \in Int /\ calls'[d] \in {calls[d], calls[d] + 1}
    BY <1>2, <1>3
  <2> QED  BY <2>1
(* No cloud of this client waits in the list. *)
<1>7. \A i \in DOMAIN cloudShows :
         (i = Len(cloudShows) /\ viz = "popped") \/ (cloudShows[i][1] # c /\ AwaitedAt(i))
  <2> SUFFICES ASSUME NEW i \in DOMAIN cloudShows, ~(i = Len(cloudShows) /\ viz = "popped")
               PROVE  cloudShows[i][1] # c /\ AwaitedAt(i)
    OBVIOUS
  <2>1. AwaitedAt(i) /\ NotYetShown(cloudShows[i])  BY DEF ViewerInv, TypeOK, ListInv
  <2>2. ASSUME cloudShows[i][1] = c PROVE FALSE
    <3>1. pc[c] = "spin" /\ cloudShows[i][2] = calls[c]  BY <2>1, <2>2 DEF AwaitedAt
    <3>2. <<c, calls[c]>> \in Range(shown)  BY <1>3, <3>1
    <3>3. PICK j \in DOMAIN shown : shown[j] = <<c, calls[c]>>  BY <3>2 DEF Range
    <3>4. calls[c] < calls[c]  BY <2>1, <2>2, <3>1, <3>3 DEF NotYetShown
    <3> QED  BY <1>2, <3>4
  <2> QED  BY <2>1, <2>2
<1>8. TypeOK'
  <2>1. pc' \in [Clients -> {"idle", "check", "post", "spin", "undefined"}]  BY <1>1, <1>2
  <2>2. cloudShows' \in Seq(Ids) /\ callablesOnce' \in Seq(Ids)
    <3>1. pc[c] = "post" => <<c, calls[c]>> \in Ids  BY <1>2 DEF ViewerInv, CallsInv, Ids
    <3>2. calls'[c] \in 1 .. MaxCalls => <<c, calls'[c]>> \in Ids  BY DEF Ids
    <3> HIDE DEF Ids
    <3>3. cloudShows' = cloudShows \/ (pc[c] = "post" /\ cloudShows' = Append(cloudShows, <<c, calls[c]>>))
      BY <1>3
    <3>4. \/ callablesOnce' = callablesOnce
          \/ calls'[c] \in 1 .. MaxCalls /\ callablesOnce' = Append(callablesOnce, <<c, calls'[c]>>)
      BY <1>3
    <3>0. \A q \in Seq(Ids), e \in Ids : Append(q, e) \in Seq(Ids)  OBVIOUS
    <3>5. cloudShows' \in Seq(Ids)  BY <1>2, <3>0, <3>1, <3>3, Zenon
    <3>6. callablesOnce' \in Seq(Ids)  BY <1>2, <3>0, <3>2, <3>4, Zenon
    <3> QED  BY <3>5, <3>6
  <2>3. callables' \in [Keys -> Ids \union {NoCallable}]
    <3>1. \/ callables' = callables
          \/ \E k \in Keys, f \in Ids \union {NoCallable} : callables' = [callables EXCEPT ![k] = f]
      BY <1>3 DEF Ids
    <3> HIDE DEF Ids
    <3> QED  BY <1>2, <3>1
  <2>4. \A i \in DOMAIN cloudShows' :
           AwaitedAt(i)' \/ (i = Len(cloudShows') /\ viz' = "popped")
    <3> SUFFICES ASSUME NEW i \in DOMAIN cloudShows', ~(i = Len(cloudShows') /\ viz' = "popped")
                 PROVE  AwaitedAt(i)'
      OBVIOUS
    <3>1. CASE cloudShows' = cloudShows
      <4>1. cloudShows[i][1] # c /\ AwaitedAt(i)  BY <1>1, <1>7, <3>1
      <4>2. cloudShows[i][1] \in Clients  BY <1>2, <3>1 DEF Ids
      <4> QED  BY <1>4, <3>1, <4>1, <4>2 DEF AwaitedAt
    <3>2. CASE /\ pc[c] = "post" /\ pc'[c] = "spin" /\ viz # "popped" /\ calls' = calls
               /\ cloudShows' = Append(cloudShows, <<c, calls[c]>>)
      <4>1. CASE i \in DOMAIN cloudShows
        <5>1. cloudShows'[i] = cloudShows[i]  BY <1>2, <3>2, <4>1
        <5>2. cloudShows[i][1] # c /\ AwaitedAt(i) /\ cloudShows[i][1] \in Clients
          BY <1>2, <1>7, <3>2, <4>1 DEF Ids
        <5> QED  BY <1>4, <5>1, <5>2 DEF AwaitedAt
      <4>2. CASE i = Len(cloudShows) + 1
        <5>1. cloudShows'[i] = <<c, calls[c]>>  BY <1>2, <3>2, <4>2
        <5> QED  BY <3>2, <5>1 DEF AwaitedAt
      <4>3. DOMAIN cloudShows' = 1 .. Len(cloudShows) + 1 /\ DOMAIN cloudShows = 1 .. Len(cloudShows)
        BY <1>2, <3>2
      <4>4. Len(cloudShows) \in Nat  BY <1>2
      <4> QED  BY <4>1, <4>2, <4>3, <4>4
    <3> QED  BY <1>3, <3>1, <3>2
  <2>5. UNCHANGED <<owner, viz, viewer, stopped, quit, todo>>  BY <1>1 DEF lifeVars
  <2> HIDE DEF Ids
  <2> QED  BY <1>5, <2>1, <2>2, <2>3, <2>4, <2>5 DEF ViewerInv, TypeOK, Ids
<1>9. ListInv'
  <2>1. CASE cloudShows' = cloudShows
    BY <1>1, <2>1 DEF ViewerInv, ListInv, NotYetShown, historyVars
  <2>2. CASE /\ pc[c] = "post" /\ viz # "popped"
             /\ cloudShows' = Append(cloudShows, <<c, calls[c]>>)
    <3> DEFINE n == Len(cloudShows)
    <3>1. /\ n \in Nat /\ DOMAIN cloudShows = 1 .. n /\ DOMAIN cloudShows' = 1 .. n + 1
          /\ cloudShows'[n + 1] = <<c, calls[c]>> /\ \A i \in 1 .. n : cloudShows'[i] = cloudShows[i]
      BY <1>2, <2>2
    <3> HIDE DEF n
    <3>2. \A i \in 1 .. n : cloudShows[i][1] # c  BY <1>7, <2>2, <3>1
    <3>3. \A i, j \in 1 .. n : i # j => cloudShows[i][1] # cloudShows[j][1]
      BY <3>1 DEF ViewerInv, ListInv
    <3>4. \A i, j \in 1 .. n + 1 : i # j => cloudShows'[i][1] # cloudShows'[j][1]
      <4> SUFFICES ASSUME NEW i \in 1 .. n + 1, NEW j \in 1 .. n + 1, i # j
                   PROVE  cloudShows'[i][1] # cloudShows'[j][1]
        OBVIOUS
      <4>1. CASE i \in 1 .. n /\ j \in 1 .. n  BY <3>1, <3>3, <4>1
      <4>2. CASE i \in 1 .. n /\ j = n + 1  BY <3>1, <3>2, <4>2
      <4>3. CASE i = n + 1 /\ j \in 1 .. n  BY <3>1, <3>2, <4>3
      <4> QED  BY <3>1, <4>1, <4>2, <4>3
    <3>5. \A i \in 1 .. n + 1 : NotYetShown(cloudShows'[i])
      <4> SUFFICES ASSUME NEW i \in 1 .. n + 1 PROVE NotYetShown(cloudShows'[i])
        OBVIOUS
      <4>1. CASE i \in 1 .. n  BY <2>2, <3>1, <4>1 DEF ViewerInv, ListInv
      <4>2. CASE i = n + 1  BY <2>2, <3>1, <4>2 DEF ViewerInv, CallsInv
      <4> QED  BY <3>1, <4>1, <4>2
    <3>6. \A i \in 1 .. n + 1 : NotYetShown(cloudShows[i])'
      BY <1>1, <3>5 DEF NotYetShown, historyVars
    <3>7. viz' = viz  BY <1>1
    <3> QED  BY <2>2, <3>1, <3>4, <3>6, <3>7 DEF ListInv
  <2> QED  BY <1>3, <2>1, <2>2
<1>10. CallsInv'
  <2>1. shown' = shown  BY <1>1 DEF historyVars
  <2>2. \A j \in DOMAIN shown : shown[j] \in Ids /\ shown[j][2] <= calls[shown[j][1]]
    BY <1>2 DEF ViewerInv, CallsInv
  <2>3. \A j \in DOMAIN shown : shown[j][2] <= calls'[shown[j][1]]
    <3> SUFFICES ASSUME NEW j \in DOMAIN shown PROVE shown[j][2] <= calls'[shown[j][1]]
      OBVIOUS
    <3>1. /\ shown[j][2] \in Int /\ shown[j][1] \in Clients
          /\ shown[j][2] <= calls[shown[j][1]]
      BY <2>2 DEF Ids
    <3>2. calls[shown[j][1]] \in Int /\ calls'[shown[j][1]] \in Int  BY <1>2, <1>5, <3>1
    <3> QED  BY <1>6, <3>1, <3>2
  <2>4. pc'[c] \in {"check", "post", "spin"} => calls'[c] > 0
    BY <1>3 DEF ViewerInv, CallsInv
  <2>5. pc'[c] \in {"check", "post"} => NotYetShown(<<c, calls'[c]>>)
    <3>1. CASE pc[c] = "check" /\ calls' = calls  BY <3>1 DEF ViewerInv, CallsInv
    <3>2. CASE calls' = [calls EXCEPT ![c] = @ + 1]
      <4>1. calls'[c] = calls[c] + 1 /\ calls[c] \in Int  BY <1>2, <3>2
      <4>2. ASSUME NEW j \in DOMAIN shown, shown[j][1] = c PROVE shown[j][2] < calls'[c]
        <5>1. shown[j][2] \in Int /\ shown[j][2] <= calls[c]  BY <2>2, <4>2 DEF Ids
        <5> QED  BY <4>1, <5>1
      <4> QED  BY <4>2 DEF NotYetShown
    <3> QED  BY <1>3, <3>1, <3>2
  <2>6. \A d \in Clients \ {c} :
           /\ pc'[d] \in {"check", "post", "spin"} => calls'[d] > 0
           /\ pc'[d] \in {"check", "post"} => NotYetShown(<<d, calls'[d]>>)
    BY <1>4 DEF ViewerInv, CallsInv
  <2>7. \A d \in Clients :
           /\ pc'[d] \in {"check", "post", "spin"} => calls'[d] > 0
           /\ pc'[d] \in {"check", "post"} => NotYetShown(<<d, calls'[d]>>)
    BY <2>4, <2>5, <2>6
  <2> QED  BY <1>2, <2>1, <2>3, <2>7 DEF CallsInv, NotYetShown
<1>11. TodoInv'
  <2>1. UNCHANGED <<viz, todo>>  BY <1>1
  <2>2. viz = "each" => callables' = callables  BY <1>3
  <2> QED  BY <2>1, <2>2 DEF ViewerInv, TodoInv
<1>12. ShownInOrder'  BY <1>1 DEF ViewerInv, ShownInOrder, historyVars
<1> QED  BY <1>8, <1>9, <1>10, <1>11, <1>12 DEF ViewerInv

(* The visualizer thread. *)
LEMMA VisualizerViews ==
    ASSUME ViewerInv, Visualizer
    PROVE  ViewerInv'
<1> USE ViewerAssumption
<1>1. /\ UNCHANGED <<owner, pc, calls, callables, stopped>>
      /\ viz' \in {"loop", "clouds", "popped", "once", "clear", "each", "spinOnce", "reset", "ended"}
      /\ viewer' \in {viewer, "shown", "reset"} /\ callablesOnce' \in {callablesOnce, <<>>}
      /\ quit' \in {quit, TRUE}
      /\ todo' \subseteq Keys
  BY DEF Visualizer, VizStep, CreateViewer, Loop, ShowLast, PopBack, NoMoreClouds, RunOnce,
         ClearOnce, RunEach, AllRun, Spun, ResetViewer, historyVars, ViewerInv, TypeOK
<1>2. \/ UNCHANGED <<cloudShows, shown>> /\ viz # "popped" /\ viz' # "popped"
      \/ ShowLast \/ PopBack
  BY DEF Visualizer, VizStep, CreateViewer, Loop, NoMoreClouds, RunOnce,
         ClearOnce, RunEach, AllRun, Spun, ResetViewer, historyVars
<1>3. cloudShows \in Seq(Ids) /\ callablesOnce \in Seq(Ids) /\ shown \in Seq(Ids)
  BY DEF ViewerInv, TypeOK, CallsInv, Ids
<1> DEFINE n == Len(cloudShows)
<1>4. n \in Nat /\ DOMAIN cloudShows = 1 .. n  BY <1>3
<1> DEFINE Lists == /\ cloudShows' \in Seq(Ids)
                    /\ \A i \in DOMAIN cloudShows' :
                          AwaitedAt(i)' \/ (i = Len(cloudShows') /\ viz' = "popped")
                    /\ ListInv' /\ CallsInv' /\ ShownInOrder'
<1>5. ASSUME UNCHANGED <<cloudShows, shown>>, viz # "popped", viz' # "popped" PROVE Lists
  <2>1. \A i \in DOMAIN cloudShows : AwaitedAt(i)'
    BY <1>1, <1>5 DEF ViewerInv, TypeOK, AwaitedAt
  <2>2. ListInv' /\ ShownInOrder'
    BY <1>5 DEF ViewerInv, ListInv, ShownInOrder, NotYetShown
  <2>3. CallsInv'  BY <1>1, <1>5 DEF ViewerInv, CallsInv, NotYetShown
  <2> QED  BY <1>3, <1>5, <2>1, <2>2, <2>3
<1>6. ASSUME ShowLast PROVE Lists
  <2>1. /\ viz = "clouds" /\ viz' = "popped" /\ cloudShows # <<>> /\ cloudShows' = cloudShows
        /\ shown' = Append(shown, cloudShows[n])
    BY <1>6 DEF ShowLast, VizStep, Last
  <2> DEFINE m == Len(shown)
             d == cloudShows[n][1]
  <2>2. m \in Nat /\ DOMAIN shown = 1 .. m  BY <1>3
  <2>3. n \in 1 .. n /\ cloudShows[n] \in Ids
    <3>1. n # 0  BY <1>3, <2>1
    <3> QED  BY <1>3, <1>4, <3>1
  <2>4. /\ shown' \in Seq(Ids) /\ DOMAIN shown' = 1 .. m + 1 /\ shown'[m + 1] = cloudShows[n]
        /\ \A j \in 1 .. m : shown'[j] = shown[j]
    <3> HIDE DEF Ids
    <3> QED  BY <1>3, <2>1, <2>2, <2>3
  <2>5. \A i \in 1 .. n : AwaitedAt(i) /\ NotYetShown(cloudShows[i])
    BY <1>4, <2>1 DEF ViewerInv, TypeOK, ListInv
  <2>6. \A i \in 1 .. n : AwaitedAt(i)'  BY <1>1, <2>1, <2>5 DEF AwaitedAt
  <2>7. d \in Clients /\ pc[d] = "spin" /\ cloudShows[n][2] = calls[d] /\ calls[d] \in Int
    BY <2>3, <2>5 DEF AwaitedAt, Ids, ViewerInv, TypeOK
  <2> HIDE DEF n, m
  <2>8. ListInv'
    <3>1. \A i, j \in 1 .. n : i # j => cloudShows[i][1] # cloudShows[j][1]
      BY <1>4 DEF ViewerInv, ListInv
    <3>2. ASSUME NEW i \in 1 .. n, i # n PROVE NotYetShown(cloudShows[i])'
      <4>1. cloudShows[i][1] # d  BY <2>3, <3>1, <3>2
      <4>2. NotYetShown(cloudShows[i])  BY <2>5
      <4> QED  BY <2>1, <2>2, <2>4, <4>1, <4>2 DEF NotYetShown
    <3> QED  BY <1>4, <2>1, <3>1, <3>2 DEF ListInv, n
  <2>9. CallsInv'
    <3>1. \A j \in 1 .. m + 1 : shown'[j][2] <= calls[shown'[j][1]]
      <4> SUFFICES ASSUME NEW j \in 1 .. m + 1 PROVE shown'[j][2] <= calls[shown'[j][1]]
        OBVIOUS
      <4>1. CASE j \in 1 .. m  BY <2>2, <2>4, <4>1 DEF ViewerInv, CallsInv
      <4>2. CASE j = m + 1  BY <2>4, <2>7, <4>2
      <4> QED  BY <2>2, <4>1, <4>2
    <3>2. ASSUME NEW c \in Clients, pc[c] \in {"check", "post"}
          PROVE  NotYetShown(<<c, calls[c]>>)'
      <4>1. NotYetShown(<<c, calls[c]>>) /\ c # d  BY <2>7, <3>2 DEF ViewerInv, CallsInv
      <4> QED  BY <1>1, <2>2, <2>4, <4>1 DEF NotYetShown
    <3> QED  BY <1>1, <2>4, <3>1, <3>2 DEF ViewerInv, CallsInv
  <2>10. ShownInOrder'
    <3> SUFFICES ASSUME NEW i \in 1 .. m + 1, NEW j \in 1 .. m + 1, i < j,
                        shown'[i][1] = shown'[j][1]
                 PROVE  shown'[i][2] < shown'[j][2]
      BY <2>4 DEF ShownInOrder
    <3>1. i \in 1 .. m  BY <2>2
    <3>2. CASE j \in 1 .. m  BY <2>2, <2>4, <3>1, <3>2 DEF ViewerInv, ShownInOrder
    <3>3. CASE j = m + 1  BY <2>2, <2>3, <2>4, <2>5, <3>1, <3>3 DEF NotYetShown
    <3> QED  BY <2>2, <3>2, <3>3
  <2> QED  BY <1>3, <1>4, <2>1, <2>6, <2>8, <2>9, <2>10 DEF n
<1>7. ASSUME PopBack PROVE Lists
  <2>1. /\ viz = "popped" /\ viz' = "clouds" /\ shown' = shown
        /\ cloudShows' = SubSeq(cloudShows, 1, n - 1)
    BY <1>7 DEF PopBack, VizStep, Front, historyVars
  <2>2. n > 0
    <3>1. cloudShows # <<>>  BY <2>1 DEF ViewerInv, ListInv
    <3> QED  BY <1>3, <1>4, <3>1
  <2>3. /\ cloudShows' \in Seq(Ids) /\ Len(cloudShows') = n - 1
        /\ DOMAIN cloudShows' = 1 .. n - 1 /\ \A i \in 1 .. n - 1 : cloudShows'[i] = cloudShows[i]
    <3> HIDE DEF Ids
    <3> QED  BY <1>3, <1>4, <2>1, <2>2
  <2> HIDE DEF n
  <2>4. \A i \in 1 .. n - 1 : AwaitedAt(i) /\ NotYetShown(cloudShows[i])
    <3>1. \A i \in 1 .. n - 1 : i \in DOMAIN cloudShows /\ i # n  BY <1>4
    <3> QED  BY <3>1 DEF ViewerInv, TypeOK, ListInv, n
  <2>5. \A i \in 1 .. n - 1 : AwaitedAt(i)' /\ NotYetShown(cloudShows[i])'
    BY <1>1, <2>1, <2>3, <2>4 DEF AwaitedAt, NotYetShown
  <2>6. \A i, j \in 1 .. n - 1 : i # j => cloudShows'[i][1] # cloudShows'[j][1]
    <3>1. \A i \in 1 .. n - 1 : i \in DOMAIN cloudShows  BY <1>4
    <3> QED  BY <2>3, <3>1 DEF ViewerInv, ListInv
  <2>7. ListInv'  BY <2>1, <2>3, <2>5, <2>6 DEF ListInv
  <2>8. CallsInv' /\ ShownInOrder'
    BY <1>1, <2>1 DEF ViewerInv, CallsInv, ShownInOrder, NotYetShown
  <2> QED  BY <2>3, <2>5, <2>7, <2>8
<1>8. Lists  BY <1>2, <1>5, <1>6, <1>7
<1>11. ListInv' /\ CallsInv' /\ ShownInOrder'  BY <1>8, Zenon
<1> HIDE DEF Lists
<1>9. TypeOK'
  <2>1. stopped' \in BOOLEAN /\ quit' \in BOOLEAN  BY <1>1 DEF ViewerInv, TypeOK
  <2>2. callablesOnce' \in Seq(Ids)
    <3>1. <<>> \in Seq(Ids)  OBVIOUS
    <3> QED  BY <1>1, <1>3, <3>1
  <2> QED  BY <1>1, <1>8, <2>1, <2>2 DEF ViewerInv, TypeOK, Lists, Ids
<1>10. TodoInv'
  <2>1. CASE viz' # "each"  BY <2>1 DEF TodoInv
  <2>2. CASE viz' = "each"
    <3>1. \/ viz = "each" /\ todo' \subseteq todo
          \/ todo' = {k \in Keys : callables[k] # NoCallable}
      BY <2>2 DEF Visualizer, VizStep, CreateViewer, Loop, ShowLast, PopBack, NoMoreClouds, RunOnce,
         ClearOnce, RunEach, AllRun, Spun, ResetViewer
    <3> QED  BY <1>1, <3>1 DEF ViewerInv, TodoInv
  <2> QED  BY <2>1, <2>2
<1> QED  BY <1>9, <1>10, <1>11 DEF ViewerInv

(* The invariant holds in every state. *)
THEOREM ViewerInvariant == Spec => []ViewerInv
<1>1. Init => ViewerInv  BY InitViewer
<1>2. ViewerInv /\ [Next]_vars => ViewerInv'
  <2> SUFFICES ASSUME ViewerInv, [Next]_vars PROVE ViewerInv'  OBVIOUS
  <2>1. CASE UNCHANGED vars
    BY <2>1 DEF vars, ViewerInv, TypeOK, AwaitedAt, ListInv, CallsInv, TodoInv, ShownInOrder, NotYetShown
  <2> QED  BY <2>1, OwnerViews, ClientViews, VisualizerViews DEF Next
<1> QED  BY <1>1, <1>2, PTL DEF Spec

-----------------------------------------------------------------------------
(* Every variable has its type, and the list holds only clouds awaited. *)
THEOREM TypeCorrect == Spec => []TypeOK
<1>1. ViewerInv => TypeOK  BY DEF ViewerInv
<1> QED  BY <1>1, ViewerInvariant, PTL

(* Each client sees its clouds in the order it showed them. *)
THEOREM ShowsInOrder == Spec => []ShownInOrder
<1>1. ViewerInv => ShownInOrder  BY DEF ViewerInv
<1> QED  BY <1>1, ViewerInvariant, PTL

(* No callable runs that is not in the map. *)
THEOREM CallsPresent == Spec => RemovedNotCalled
<1>1. ViewerInv /\ [Next]_vars
        => [todo' # todo /\ viz = "each" => called' # NoCallable /\ called' \in Range(callables)]_vars
  <2> SUFFICES ASSUME ViewerInv, Next, todo' # todo, viz = "each"
               PROVE  called' # NoCallable /\ called' \in Range(callables)
    OBVIOUS
  <2>1. RunEach
    BY DEF Next, Constructed, Destroy, Join, CloseWindow, Client, Show, ShowCloud, CheckStopped,
           Post, Popped, RunOnVisualizationThread, RunOnVisualizationThreadOnce,
           RemoveVisualizationCallable, Begin, Visualizer, VizStep, CreateViewer, Loop, ShowLast,
           PopBack, NoMoreClouds, RunOnce, ClearOnce, AllRun, Spun, ResetViewer
  <2>2. PICK k \in todo : called' = callables[k]  BY <2>1 DEF RunEach
  <2>3. k \in DOMAIN callables  BY <2>2 DEF ViewerInv, TypeOK
  <2> QED  BY <2>2, <2>3 DEF ViewerInv, TodoInv, Range
<1> QED  BY <1>1, ViewerInvariant, PTL DEF Spec, RemovedNotCalled

-----------------------------------------------------------------------------
(* A callable that has run is not in callables_once any more, except while *)
(* the thread, with once_mtx, has run them and not cleared the list yet.   *)
Begun == {id \in Ids : id[2] <= calls[id[1]]}

OnceInv ==
    /\ ranOnce \in Seq(Ids)
    /\ \A i \in DOMAIN callablesOnce : callablesOnce[i] \in Begun
    /\ \A i \in DOMAIN ranOnce : ranOnce[i] \in Begun
    /\ \A i, j \in DOMAIN callablesOnce : i # j => callablesOnce[i] # callablesOnce[j]
    /\ viz # "clear" => \A i \in DOMAIN callablesOnce, j \in DOMAIN ranOnce :
                            callablesOnce[i] # ranOnce[j]
    /\ NotTwice

LEMMA OnceTypes ==
    ASSUME ViewerInv, OnceInv
    PROVE  /\ Len(callablesOnce) \in Nat /\ DOMAIN callablesOnce = 1 .. Len(callablesOnce)
           /\ Len(ranOnce) \in Nat /\ DOMAIN ranOnce = 1 .. Len(ranOnce)
           /\ callablesOnce \in Seq(Ids) /\ ranOnce \in Seq(Ids)
           /\ \A i \in DOMAIN callablesOnce : callablesOnce[i] \in Ids
           /\ \A i \in DOMAIN ranOnce : ranOnce[i] \in Ids
           /\ calls \in [Clients -> 0 .. MaxCalls]
<1>1. callablesOnce \in Seq(Ids) /\ ranOnce \in Seq(Ids) /\ calls \in [Clients -> 0 .. MaxCalls]
  BY DEF ViewerInv, TypeOK, OnceInv, Ids
<1> HIDE DEF Ids
<1> QED  BY <1>1

(* A client posts a callable that no call before it has posted. *)
LEMMA ClientOnce ==
    ASSUME ViewerInv, OnceInv, NEW c \in Clients, Client(c)
    PROVE  OnceInv'
<1> DEFINE n == Len(callablesOnce)
           id == <<c, calls[c] + 1>>
<1>1. /\ viz' = viz /\ ranOnce' = ranOnce
      /\ calls' \in {calls, [calls EXCEPT ![c] = @ + 1]}
      /\ \/ callablesOnce' = callablesOnce
         \/ /\ viz # "clear" /\ calls[c] < MaxCalls /\ calls' = [calls EXCEPT ![c] = @ + 1]
            /\ callablesOnce' = Append(callablesOnce, <<c, calls'[c]>>)
  BY DEF Client, Show, ShowCloud, CheckStopped, Post, Popped, RunOnVisualizationThread,
         RunOnVisualizationThreadOnce, RemoveVisualizationCallable, Begin, Call, Latest,
         OnceMtxHeld, lifeVars, historyVars
<1>2. /\ n \in Nat /\ DOMAIN callablesOnce = 1 .. n
      /\ callablesOnce \in Seq(Ids) /\ ranOnce \in Seq(Ids)
      /\ \A i \in DOMAIN callablesOnce : callablesOnce[i] \in Ids
      /\ \A i \in DOMAIN ranOnce : ranOnce[i] \in Ids
      /\ calls \in [Clients -> 0 .. MaxCalls]
  BY OnceTypes
<1>3. \A d \in Clients : calls[d] \in Nat /\ calls'[d] \in Nat /\ calls[d] <= calls'[d]
  <2>1. \A d \in Clients : calls[d] \in Nat /\ calls'[d] \in {calls[d], calls[d] + 1}
    BY <1>1, <1>2, ViewerAssumption
  <2> QED  BY <2>1
<1>4. \A x \in Ids : x[1] \in Clients /\ x[2] \in Nat /\ (x \in Begun => x \in Begun')
  <2>1. \A x \in Ids : x[1] \in Clients /\ x[2] \in Nat  BY ViewerAssumption DEF Ids
  <2> QED  BY <1>3, <2>1 DEF Begun
<1> HIDE DEF Ids, n
<1>5. CASE callablesOnce' = callablesOnce
  BY <1>1, <1>2, <1>4, <1>5 DEF OnceInv, NotTwice
<1>6. CASE /\ viz # "clear" /\ calls[c] < MaxCalls /\ calls' = [calls EXCEPT ![c] = @ + 1]
           /\ callablesOnce' = Append(callablesOnce, <<c, calls'[c]>>)
  <2>1. calls'[c] = calls[c] + 1 /\ id \in Ids /\ id \in Begun' /\ id \notin Begun
    <3>1. calls'[c] = calls[c] + 1  BY <1>2, <1>6
    <3>2. calls[c] + 1 \in 1 .. MaxCalls
      BY <1>3, <1>6, ViewerAssumption
    <3> QED  BY <1>3, <3>1, <3>2 DEF Begun, Ids
  <2>2. \A x \in Ids : x \in Begun => x # id  BY <2>1
  <2> HIDE DEF id
  <2>3. /\ Len(callablesOnce') = n + 1 /\ DOMAIN callablesOnce' = 1 .. n + 1
        /\ callablesOnce'[n + 1] = id /\ \A i \in 1 .. n : callablesOnce'[i] = callablesOnce[i]
    BY <1>2, <1>6, <2>1 DEF n, id
  <2>4. \A i \in 1 .. n + 1 : i \in 1 .. n \/ i = n + 1  BY <1>2
  <2>5. \A i \in 1 .. n : callablesOnce[i] # id /\ callablesOnce[i] \in Begun'
    BY <1>2, <1>4, <2>2 DEF OnceInv
  <2>6. \A i \in DOMAIN ranOnce : ranOnce[i] # id /\ ranOnce[i] \in Begun'
    BY <1>2, <1>4, <2>2 DEF OnceInv
  <2>7. \A i \in DOMAIN callablesOnce' : callablesOnce'[i] \in Begun'
    BY <2>1, <2>3, <2>4, <2>5
  <2>8. \A i, j \in 1 .. n + 1 : i # j => callablesOnce'[i] # callablesOnce'[j]
    BY <1>2, <2>3, <2>4, <2>5 DEF OnceInv
  <2>9. \A i \in 1 .. n + 1, j \in DOMAIN ranOnce : callablesOnce'[i] # ranOnce[j]
    <3>1. \A i \in 1 .. n, j \in DOMAIN ranOnce : callablesOnce[i] # ranOnce[j]
      BY <1>2, <1>6 DEF OnceInv
    <3>2. \A j \in DOMAIN ranOnce : callablesOnce'[n + 1] # ranOnce[j]
      BY <2>3, <2>6
    <3>3. \A i \in 1 .. n, j \in DOMAIN ranOnce : callablesOnce'[i] # ranOnce[j]
      BY <2>3, <3>1
    <3> QED  BY <2>4, <3>2, <3>3
  <2> QED
    BY <1>1, <1>2, <2>3, <2>6, <2>7, <2>8, <2>9 DEF OnceInv, NotTwice
<1> QED  BY <1>1, <1>5, <1>6

(* The visualizer thread runs what is in the list, then clears it. *)
LEMMA VisualizerOnce ==
    ASSUME ViewerInv, OnceInv, Visualizer
    PROVE  OnceInv'
<1> DEFINE n == Len(callablesOnce)
           m == Len(ranOnce)
<1>1. calls' = calls
  BY DEF Visualizer, VizStep, CreateViewer, Loop, ShowLast, PopBack, NoMoreClouds, RunOnce,
         ClearOnce, RunEach, AllRun, Spun, ResetViewer
<1>2. /\ n \in Nat /\ DOMAIN callablesOnce = 1 .. n
      /\ m \in Nat /\ DOMAIN ranOnce = 1 .. m
      /\ callablesOnce \in Seq(Ids) /\ ranOnce \in Seq(Ids)
      /\ \A i \in DOMAIN callablesOnce : callablesOnce[i] \in Ids
      /\ \A i \in DOMAIN ranOnce : ranOnce[i] \in Ids
  BY OnceTypes
<1> HIDE DEF Ids, n, m
<1>3. CASE RunOnce
  <2>1. viz = "once" /\ viz' = "clear" /\ callablesOnce' = callablesOnce
        /\ ranOnce' = ranOnce \o callablesOnce
    BY <1>3 DEF RunOnce, VizStep
  <2>2. /\ ranOnce' \in Seq(Ids) /\ DOMAIN ranOnce' = 1 .. m + n
        /\ \A i \in 1 .. m + n : ranOnce'[i] = IF i <= m THEN ranOnce[i] ELSE callablesOnce[i - m]
    BY <1>2, <2>1 DEF m, n
  <2>3. \A i \in 1 .. m + n : IF i <= m THEN i \in 1 .. m ELSE i - m \in 1 .. n
    BY <1>2
  <2>4. \A i \in 1 .. m + n : ranOnce'[i] \in Begun
    BY <1>2, <2>2, <2>3 DEF OnceInv
  <2>5. \A i, j \in 1 .. m + n : i # j => ranOnce'[i] # ranOnce'[j]
    <3> SUFFICES ASSUME NEW i \in 1 .. m + n, NEW j \in 1 .. m + n, i # j
                 PROVE  ranOnce'[i] # ranOnce'[j]
      OBVIOUS
    <3>1. /\ IF i <= m THEN i \in 1 .. m ELSE i - m \in 1 .. n
          /\ IF j <= m THEN j \in 1 .. m ELSE j - m \in 1 .. n
          /\ i - m # j - m
      BY <1>2, <2>3
    <3>2. \A k \in 1 .. n, l \in 1 .. m : callablesOnce[k] # ranOnce[l]
      BY <1>2, <2>1 DEF OnceInv
    <3>3. /\ \A k, l \in 1 .. n : k # l => callablesOnce[k] # callablesOnce[l]
          /\ \A k, l \in 1 .. m : k # l => ranOnce[k] # ranOnce[l]
      BY <1>2 DEF OnceInv, NotTwice
    <3>4. /\ ranOnce'[i] = IF i <= m THEN ranOnce[i] ELSE callablesOnce[i - m]
          /\ ranOnce'[j] = IF j <= m THEN ranOnce[j] ELSE callablesOnce[j - m]
      BY <2>2
    <3>5. CASE i <= m /\ j <= m  BY <3>1, <3>3, <3>4, <3>5
    <3>6. CASE i <= m /\ ~(j <= m)  BY <3>1, <3>2, <3>4, <3>6
    <3>7. CASE ~(i <= m) /\ j <= m  BY <3>1, <3>2, <3>4, <3>7
    <3>8. CASE ~(i <= m) /\ ~(j <= m)  BY <3>1, <3>3, <3>4, <3>8
    <3> QED  BY <3>5, <3>6, <3>7, <3>8
  <2> QED
    BY <1>1, <1>2, <2>1, <2>2, <2>4, <2>5 DEF OnceInv, NotTwice, Begun
<1>4. CASE ClearOnce
  <2>1. viz' = "each" /\ callablesOnce' = <<>> /\ ranOnce' = ranOnce /\ DOMAIN <<>> = {}
    BY <1>4 DEF ClearOnce, VizStep, historyVars
  <2> QED  BY <1>1, <2>1 DEF OnceInv, NotTwice, Begun
<1>5. CASE UNCHANGED <<callablesOnce, ranOnce>> /\ viz # "clear"
  BY <1>1, <1>5 DEF OnceInv, NotTwice, Begun
<1>6. RunOnce \/ ClearOnce \/ (UNCHANGED <<callablesOnce, ranOnce>> /\ viz # "clear")
  BY DEF Visualizer, VizStep, CreateViewer, Loop, ShowLast, PopBack, NoMoreClouds,
         RunEach, AllRun, Spun, ResetViewer, historyVars
<1> QED  BY <1>3, <1>4, <1>5, <1>6

LEMMA OnceStep == ViewerInv /\ OnceInv /\ [Next]_vars => OnceInv'
<1> SUFFICES ASSUME ViewerInv, OnceInv, [Next]_vars PROVE OnceInv'  OBVIOUS
<1>1. CASE UNCHANGED vars
  BY <1>1 DEF vars, OnceInv, NotTwice, Begun
<1>2. CASE Constructed \/ Destroy \/ Join \/ CloseWindow
  BY <1>2 DEF Constructed, Destroy, Join, CloseWindow, clientVars, historyVars,
     OnceInv, NotTwice, Begun
<1> QED  BY <1>1, <1>2, ClientOnce, VisualizerOnce DEF Next

LEMMA OnceInvariant == Spec => []OnceInv
<1>1. Init => OnceInv
  <2> SUFFICES ASSUME Init PROVE OnceInv  OBVIOUS
  <2>1. callablesOnce = <<>> /\ ranOnce = <<>> /\ DOMAIN <<>> = {}  BY DEF Init
  <2> QED  BY <2>1 DEF OnceInv, NotTwice
<1> QED  BY <1>1, OnceStep, ViewerInvariant, PTL DEF Spec

(* No callable of callables_once runs twice, whoever posts while the       *)
(* visualizer thread goes through the list and clears it: the half of      *)
(* RunExactlyOnce that says what never happens.                            *)
THEOREM RunsAtMostOnce == Spec => []NotTwice
<1>1. OnceInv => NotTwice  BY DEF OnceInv
<1> QED  BY <1>1, OnceInvariant, PTL

(* A callable leaves callables_once because it has run, never because the  *)
(* list was cleared under it: what is posted while the list is gone        *)
(* through waits for once_mtx and comes after the clear.                   *)
OnceKept ==
    [][\A id \in Range(callablesOnce) : id \in Range(callablesOnce)' \/ id \in Range(ranOnce)']_vars

(* While the list is about to be cleared, all of it has run. *)
ClearInv == viz = "clear" => Range(callablesOnce) \subseteq Range(ranOnce)

(* The list grows at its end or is run or is cleared, and what ran stays.  *)
LEMMA OnceViews ==
    ASSUME ViewerInv, OnceInv, [Next]_vars
    PROVE  \/ /\ UNCHANGED <<callablesOnce, ranOnce>>
              /\ viz' = "clear" => viz = "clear"
           \/ /\ viz # "clear" /\ viz' = viz /\ ranOnce' = ranOnce
              /\ \E id \in Ids : callablesOnce' = Append(callablesOnce, id)
           \/ RunOnce
           \/ ClearOnce
<1>1. CASE UNCHANGED vars  BY <1>1 DEF vars
<1>2. CASE Constructed \/ Destroy \/ Join \/ CloseWindow
  BY <1>2 DEF Constructed, Destroy, Join, CloseWindow, clientVars, historyVars
<1>3. ASSUME NEW c \in Clients, Client(c)
      PROVE  /\ viz' = viz /\ ranOnce' = ranOnce
             /\ \/ callablesOnce' = callablesOnce
                \/ viz # "clear" /\ \E id \in Ids : callablesOnce' = Append(callablesOnce, id)
  <2>1. viz' = viz /\ ranOnce' = ranOnce
    BY <1>3 DEF Client, Show, ShowCloud, CheckStopped, Post, Popped, RunOnVisualizationThread,
         RunOnVisualizationThreadOnce, RemoveVisualizationCallable, Begin, lifeVars, historyVars
  <2>2. CASE RunOnVisualizationThreadOnce(c)
    <3>1. viz # "clear" /\ callablesOnce' = Append(callablesOnce, <<c, calls'[c]>>)
          /\ calls[c] < MaxCalls /\ calls' = [calls EXCEPT ![c] = @ + 1]
      BY <2>2 DEF RunOnVisualizationThreadOnce, OnceMtxHeld, Latest, Call
    <3>2. calls'[c] \in 1 .. MaxCalls
      BY <3>1, ViewerAssumption DEF ViewerInv, TypeOK
    <3> QED  BY <2>1, <3>1, <3>2 DEF Ids
  <2>3. CASE callablesOnce' = callablesOnce  BY <2>1, <2>3
  <2> QED
    BY <1>3, <2>2, <2>3 DEF Client, Show, ShowCloud, CheckStopped, Post, Popped,
       RunOnVisualizationThread, RemoveVisualizationCallable
<1>4. CASE Visualizer
  BY <1>4 DEF Visualizer, VizStep, CreateViewer, Loop, ShowLast, PopBack, NoMoreClouds,
         RunEach, AllRun, Spun, ResetViewer, historyVars
<1> QED  BY <1>1, <1>2, <1>3, <1>4 DEF Next

LEMMA ConcatRange ==
    ASSUME NEW S, NEW s \in Seq(S), NEW t \in Seq(S)
    PROVE  Range(s \o t) = Range(s) \union Range(t)
<1> DEFINE m == Len(s)
           n == Len(t)
           u == s \o t
<1>1. /\ m \in Nat /\ n \in Nat /\ DOMAIN s = 1 .. m /\ DOMAIN t = 1 .. n /\ DOMAIN u = 1 .. m + n
      /\ \A i \in 1 .. m + n : u[i] = IF i <= m THEN s[i] ELSE t[i - m]
  OBVIOUS
<1> HIDE DEF m, n, u
<1>2. \A i \in 1 .. m : i \in 1 .. m + n /\ u[i] = s[i]  BY <1>1
<1>3. \A i \in 1 .. n : m + i \in 1 .. m + n /\ u[m + i] = t[i]  BY <1>1
<1>4. \A i \in 1 .. m + n : i \in 1 .. m \/ i - m \in 1 .. n  BY <1>1
<1>5. ASSUME NEW i \in 1 .. m + n PROVE u[i] \in Range(s) \union Range(t)
  <2>1. CASE i <= m
    <3>1. i \in 1 .. m /\ u[i] = s[i]  BY <1>1, <2>1
    <3> QED  BY <1>1, <3>1 DEF Range
  <2>2. CASE ~(i <= m)
    <3>1. i - m \in 1 .. n /\ u[i] = t[i - m]  BY <1>1, <2>2
    <3> QED  BY <1>1, <3>1 DEF Range
  <2> QED  BY <2>1, <2>2
<1>6. Range(u) \subseteq Range(s) \union Range(t)
  BY <1>1, <1>5 DEF Range
<1>7. Range(s) \subseteq Range(u)  BY <1>1, <1>2, SMTT(30) DEF Range
<1>8. Range(t) \subseteq Range(u)  BY <1>1, <1>3, SMTT(30) DEF Range
<1> QED  BY <1>6, <1>7, <1>8 DEF u

LEMMA AppendRange ==
    ASSUME NEW S, NEW s \in Seq(S), NEW x \in S
    PROVE  Range(Append(s, x)) = Range(s) \union {x}
<1>1. <<x>> \in Seq(S) /\ Append(s, x) = s \o <<x>> /\ Range(<<x>>) = {x}
  BY DEF Range
<1>2. Range(s \o <<x>>) = Range(s) \union Range(<<x>>)
  <2> DEFINE t == <<x>>
  <2>1. t \in Seq(S)  BY <1>1
  <2> HIDE DEF t
  <2>2. Range(s \o t) = Range(s) \union Range(t)  BY <2>1, ConcatRange
  <2> QED  BY <2>2 DEF t
<1> QED  BY <1>1, <1>2

(* Nothing handed to runOnVisualizationThreadOnce() is dropped. *)
THEOREM OnceNeverDropped == Spec => OnceKept
<1>2. ASSUME ViewerInv, OnceInv, ClearInv, [Next]_vars
      PROVE  /\ ClearInv'
             /\ \A id \in Range(callablesOnce) : id \in Range(callablesOnce)' \/ id \in Range(ranOnce)'
  <2>1. callablesOnce \in Seq(Ids) /\ ranOnce \in Seq(Ids)  BY <1>2, OnceTypes
  <2>2. CASE UNCHANGED <<callablesOnce, ranOnce>> /\ (viz' = "clear" => viz = "clear")
    BY <1>2, <2>2 DEF ClearInv
  <2>3. CASE /\ viz # "clear" /\ viz' = viz /\ ranOnce' = ranOnce
             /\ \E id \in Ids : callablesOnce' = Append(callablesOnce, id)
    <3>1. PICK id \in Ids : callablesOnce' = Append(callablesOnce, id)  BY <2>3
    <3>2. Range(callablesOnce') = Range(callablesOnce) \union {id}  BY <2>1, <3>1, AppendRange
    <3> QED  BY <2>3, <3>2 DEF ClearInv
  <2>4. CASE RunOnce
    <3>1. Range(ranOnce') = Range(ranOnce) \union Range(callablesOnce)
      BY <2>1, <2>4, ConcatRange DEF RunOnce
    <3>2. callablesOnce' = callablesOnce  BY <2>4 DEF RunOnce
    <3> QED  BY <3>1, <3>2 DEF ClearInv
  <2>5. CASE ClearOnce
    <3>1. viz = "clear" /\ viz' = "each" /\ ranOnce' = ranOnce  BY <2>5 DEF ClearOnce, VizStep, historyVars
    <3> QED  BY <1>2, <3>1 DEF ClearInv
  <2> QED  BY <1>2, <2>2, <2>3, <2>4, <2>5, OnceViews
<1>3. Init => ClearInv  BY DEF Init, ClearInv
<1>4. Spec => []ClearInv
  <2>1. ViewerInv /\ OnceInv /\ ClearInv /\ [Next]_vars => ClearInv'  BY <1>2
  <2> QED  BY <1>3, <2>1, OnceInvariant, ViewerInvariant, PTL DEF Spec
<1>5. ViewerInv /\ OnceInv /\ ClearInv /\ [Next]_vars
        => [\A id \in Range(callablesOnce) : id \in Range(callablesOnce)' \/ id \in Range(ranOnce)']_vars
  BY <1>2
<1> QED  BY <1>4, <1>5, OnceInvariant, ViewerInvariant, PTL DEF Spec, OnceKept

-----------------------------------------------------------------------------
(* Who waits for the visualizer thread, and what for.  The constructor     *)
(* waits for a thread that has not made its viewer yet, a client for a     *)
(* cloud that is in the list or on the screen, and the destructor, that    *)
(* finds no client in a call, for a thread that has been told to end.      *)
Awaited(c) == <<c, calls[c]>> \in Range(cloudShows) \union Range(shown)

NoneForgotten ==
    /\ viewer = "none" <=> viz = "start"
    /\ viewer = "reset" <=> viz = "ended"
    /\ \A c \in Clients : pc[c] = "spin" => Awaited(c)
    /\ owner \in {"destroying", "gone"} => quit /\ \A c \in Clients : pc[c] = "idle"
    /\ owner = "gone" => viz = "ended"
    /\ viz = "reset" => quit

(* When the thread is through with the clouds of a round, the cloud of     *)
(* each client that waits in showCloud() is on the screen.                 *)
RoundServesAll ==
    [][viz = "clouds" /\ viz' = "once"
         => \A c \in Clients : pc[c] = "spin" => <<c, calls[c]>> \in Range(shown)]_vars

(* The steps until the end of the round, or of the thread when it is told  *)
(* to end: two for a cloud in the list and one for a callable.  The        *)
(* callables that are not yet counted are as many as there are names.      *)
VizSteps ==
    CASE viz = "popped"                -> 6 + Cardinality(Keys) + 2 * Len(cloudShows)
      [] viz = "clouds"                -> 7 + Cardinality(Keys) + 2 * Len(cloudShows)
      [] viz = "once"                  -> 6 + Cardinality(Keys)
      [] viz = "clear"                 -> 5 + Cardinality(Keys)
      [] viz = "each"                  -> 4 + Cardinality(todo)
      [] viz \in {"start", "spinOnce"} -> 3
      [] viz = "loop"                  -> 2
      [] viz = "reset"                 -> 1
      [] OTHER                         -> 0

(* Every step of the thread within a round, and every one when it is told  *)
(* to end, leaves it less to do, and no call of a client adds to it.       *)
RoundBounded ==
    [][viz # "loop" \/ quit
         => /\ VizSteps' \in Nat
            /\ IF viz' # viz \/ todo' # todo THEN VizSteps' < VizSteps ELSE VizSteps' = VizSteps]_vars

(* The cloud that is about to leave the list is on the screen. *)
WaitInv ==
    /\ NoneForgotten
    /\ viz = "popped" => Last(cloudShows) \in Range(shown)

(* What a client's step does to what it waits for: it posts its cloud, or  *)
(* it does not begin to wait.                                              *)
LEMMA ClientWaits ==
    ASSUME ViewerInv, WaitInv, NEW c \in Clients, Client(c)
    PROVE  WaitInv' /\ VizSteps' = VizSteps /\ viz' = viz /\ todo' = todo
<1>1. /\ UNCHANGED <<lifeVars, viz, todo, shown>>
      /\ \E to \in {"idle", "check", "post", "spin", "undefined"} : pc' = [pc EXCEPT ![c] = to]
      /\ pc[c] # "idle" \/ owner = "open"
  BY DEF Client, Show, ShowCloud, CheckStopped, Post, Popped, RunOnVisualizationThread,
         RunOnVisualizationThreadOnce, RemoveVisualizationCallable, Begin, WaitsAt, Call, historyVars
<1>2. /\ calls \in [Clients -> 0 .. MaxCalls] /\ cloudShows \in Seq(Ids) /\ shown \in Seq(Ids)
      /\ pc \in [Clients -> {"idle", "check", "post", "spin", "undefined"}]
  BY DEF ViewerInv, TypeOK, CallsInv, Ids
<1>3. \/ pc'[c] # "spin" /\ cloudShows' = cloudShows /\ calls' \in {calls, [calls EXCEPT ![c] = @ + 1]}
      \/ Post(c)
  BY <1>1, <1>2 DEF Client, Show, ShowCloud, CheckStopped, Popped, RunOnVisualizationThread,
         RunOnVisualizationThreadOnce, RemoveVisualizationCallable, Begin, Call
<1>4. owner # "open" => \A d \in Clients : pc[d] = "idle" => pc'[d] = "idle"
  BY <1>1, <1>2
<1>5. owner \in {"destroying", "gone"} => FALSE
  BY <1>1 DEF WaitInv, NoneForgotten
<1>6. CASE pc'[c] # "spin" /\ cloudShows' = cloudShows /\ calls' \in {calls, [calls EXCEPT ![c] = @ + 1]}
  <2>1. ASSUME NEW d \in Clients, pc'[d] = "spin" PROVE Awaited(d)'
    <3>1. d # c /\ pc[d] = "spin" /\ calls'[d] = calls[d]  BY <1>1, <1>2, <1>6, <2>1
    <3>2. Awaited(d)  BY <3>1 DEF WaitInv, NoneForgotten
    <3> QED  BY <1>1, <1>6, <3>1, <3>2 DEF Awaited
  <2>2. VizSteps' = VizSteps  BY <1>1, <1>6 DEF VizSteps
  <2>3. (viz = "popped" => Last(cloudShows) \in Range(shown))'
    BY <1>1, <1>6 DEF WaitInv
  <2> QED  BY <1>1, <1>5, <2>1, <2>2, <2>3 DEF WaitInv, NoneForgotten, lifeVars
<1>7. CASE Post(c)
  <2>1. /\ viz \notin {"clouds", "popped"} /\ pc[c] = "post" /\ calls' = calls
        /\ cloudShows' = Append(cloudShows, <<c, calls[c]>>)
    BY <1>7 DEF Post, MtxHeld, Begin
  <2>2. <<c, calls[c]>> \in Ids
    <3>1. calls[c] > 0 /\ calls[c] \in 0 .. MaxCalls  BY <1>2, <2>1 DEF ViewerInv, CallsInv
    <3>2. calls[c] \in 1 .. MaxCalls  BY <3>1, ViewerAssumption
    <3> QED  BY <3>2 DEF Ids
  <2>3. Range(cloudShows') = Range(cloudShows) \union {<<c, calls[c]>>}
    <3> DEFINE id == <<c, calls[c]>>
    <3>1. id \in Ids /\ cloudShows' = Append(cloudShows, id)  BY <2>1, <2>2
    <3> HIDE DEF id, Ids
    <3>2. Range(Append(cloudShows, id)) = Range(cloudShows) \union {id}
      BY <1>2, <3>1, AppendRange
    <3> QED  BY <3>1, <3>2 DEF id
  <2>4. ASSUME NEW d \in Clients, pc'[d] = "spin" PROVE Awaited(d)'
    <3>1. CASE d = c  BY <2>1, <2>3, <3>1 DEF Awaited
    <3>2. CASE d # c
      <4>1. pc[d] = "spin"  BY <1>1, <1>2, <2>4, <3>2
      <4>2. Awaited(d)  BY <4>1 DEF WaitInv, NoneForgotten
      <4> QED  BY <1>1, <2>1, <2>3, <4>2 DEF Awaited
    <3> QED  BY <3>1, <3>2
  <2>5. VizSteps' = VizSteps  BY <1>1, <2>1 DEF VizSteps
  <2> QED  BY <1>1, <1>5, <2>1, <2>4, <2>5 DEF WaitInv, NoneForgotten, lifeVars
<1> QED  BY <1>1, <1>3, <1>6, <1>7

(* A step of the visualizer thread takes no cloud from the list that is    *)
(* not on the screen.                                                      *)
LEMMA VisualizerWaits ==
    ASSUME ViewerInv, WaitInv, Visualizer
    PROVE  WaitInv'
<1>1. UNCHANGED <<owner, pc, calls>>
  BY DEF Visualizer, VizStep, CreateViewer, Loop, ShowLast, PopBack, NoMoreClouds, RunOnce,
         ClearOnce, RunEach, AllRun, Spun, ResetViewer
<1>2. /\ (viewer = "none" <=> viz = "start")' /\ (viewer = "reset" <=> viz = "ended")'
      /\ quit => quit'
      /\ owner = "gone" => FALSE
      /\ (viz = "reset" => quit)'
  BY DEF WaitInv, NoneForgotten, Visualizer, VizStep, CreateViewer, Loop, ShowLast, PopBack,
         NoMoreClouds, RunOnce, ClearOnce, RunEach, AllRun, Spun, ResetViewer
<1>3. cloudShows \in Seq(Ids) /\ shown \in Seq(Ids)
  BY DEF ViewerInv, TypeOK, CallsInv, Ids
<1> DEFINE Kept == Range(cloudShows) \union Range(shown)
                     \subseteq Range(cloudShows') \union Range(shown')
           PoppedShown == (viz = "popped" => Last(cloudShows) \in Range(shown))'
<1>4. ASSUME UNCHANGED <<cloudShows, shown>>, viz' # "popped" PROVE Kept /\ PoppedShown
  BY <1>4
<1>5. ASSUME ShowLast PROVE Kept /\ PoppedShown
  <2> DEFINE id == Last(cloudShows)
  <2>1. cloudShows # <<>> /\ cloudShows' = cloudShows /\ shown' = Append(shown, id)
    BY <1>5 DEF ShowLast
  <2>2. id \in Ids
    <3>1. Len(cloudShows) \in 1 .. Len(cloudShows)  BY <1>3, <2>1, EmptySeq
    <3> HIDE DEF Ids
    <3> QED  BY <1>3, <3>1 DEF Last
  <2> HIDE DEF id, Ids
  <2>3. Range(Append(shown, id)) = Range(shown) \union {id}  BY <1>3, <2>2, AppendRange
  <2> QED  BY <2>1, <2>3 DEF id
<1>6. ASSUME PopBack PROVE Kept /\ PoppedShown
  <2> DEFINE n == Len(cloudShows)
  <2>1. /\ viz = "popped" /\ viz' = "clouds" /\ shown' = shown
        /\ cloudShows' = SubSeq(cloudShows, 1, n - 1)
    BY <1>6 DEF PopBack, VizStep, Front, historyVars
  <2>2. n \in Nat /\ n > 0 /\ DOMAIN cloudShows = 1 .. n
    <3>1. cloudShows # <<>>  BY <2>1 DEF ViewerInv, ListInv
    <3> QED  BY <1>3, <3>1
  <2>3. DOMAIN cloudShows' = 1 .. n - 1 /\ \A i \in 1 .. n - 1 : cloudShows'[i] = cloudShows[i]
    <3> HIDE DEF Ids
    <3> QED  BY <1>3, <2>1, <2>2
  <2>4. cloudShows[n] \in Range(shown)  BY <2>1 DEF WaitInv, Last
  <2> HIDE DEF n
  <2>5. ASSUME NEW i \in 1 .. n PROVE cloudShows[i] \in Range(cloudShows') \union Range(shown)
    <3>1. CASE i = n  BY <2>4, <3>1
    <3>2. CASE i # n
      <4>1. i \in 1 .. n - 1  BY <2>2, <3>2
      <4> QED  BY <2>3, <4>1 DEF Range
    <3> QED  BY <3>1, <3>2
  <2>6. Range(cloudShows) \subseteq Range(cloudShows') \union Range(shown)
    BY <2>2, <2>5 DEF Range
  <2> QED  BY <2>1, <2>6
<1>7. (UNCHANGED <<cloudShows, shown>> /\ viz' # "popped") \/ ShowLast \/ PopBack
  BY DEF Visualizer, VizStep, CreateViewer, Loop, NoMoreClouds, RunOnce,
         ClearOnce, RunEach, AllRun, Spun, ResetViewer, historyVars
<1>8. Kept /\ PoppedShown  BY <1>4, <1>5, <1>6, <1>7
<1>9. \A c \in Clients : pc'[c] = "spin" => Awaited(c)'
  BY <1>1, <1>8 DEF WaitInv, NoneForgotten, Awaited
<1> HIDE DEF Kept, PoppedShown
<1>10. PoppedShown  BY <1>8
<1> QED  BY <1>1, <1>2, <1>9, <1>10 DEF WaitInv, NoneForgotten, PoppedShown

(* Nobody waits for what is not going to come: the constructor, a client   *)
(* in showCloud() and the destructor each wait for something that is still *)
(* ahead of the visualizer thread, unless the thread has ended.            *)
LEMMA WaitStep == ViewerInv /\ WaitInv /\ [Next]_vars => WaitInv'
<1> SUFFICES ASSUME ViewerInv, WaitInv, [Next]_vars PROVE WaitInv'  OBVIOUS
<1>1. CASE UNCHANGED vars  BY <1>1 DEF vars, WaitInv, NoneForgotten, Awaited
<1>2. CASE Constructed \/ Destroy \/ Join \/ CloseWindow
  <2>1. UNCHANGED <<clientVars, viz, viewer, shown>> /\ (quit => quit')
    BY <1>2 DEF Constructed, Destroy, Join, CloseWindow, historyVars
  <2>2. owner' \in {"destroying", "gone"} => quit' /\ \A c \in Clients : pc[c] = "idle"
    BY <1>2 DEF Constructed, Destroy, Join, CloseWindow, WaitInv, NoneForgotten
  <2>3. owner' = "gone" => viz = "ended"
    BY <1>2 DEF Constructed, Destroy, Join, CloseWindow, WaitInv, NoneForgotten
  <2> QED  BY <2>1, <2>2, <2>3 DEF WaitInv, NoneForgotten, Awaited, clientVars
<1> QED  BY <1>1, <1>2, ClientWaits, VisualizerWaits DEF Next

LEMMA WaitInvariant == Spec => []WaitInv
<1>1. Init => WaitInv  BY DEF Init, WaitInv, NoneForgotten
<1> QED  BY <1>1, WaitStep, ViewerInvariant, PTL DEF Spec

(* Whoever waits in a call waits for something that the visualizer thread  *)
(* still has to do: the constructor for its viewer, a client for a cloud   *)
(* that is listed or shown, the destructor for a thread with quit set.     *)
THEOREM NobodyForgotten == Spec => []NoneForgotten
<1>1. WaitInv => NoneForgotten  BY DEF WaitInv
<1> QED  BY <1>1, WaitInvariant, PTL

(* One round of the visualizer thread serves every client that waited when *)
(* it took the mutex, however many there are and in whatever order they    *)
(* came.                                                                   *)
THEOREM ServesAllInRound == Spec => RoundServesAll
<1>1. ViewerInv /\ WaitInv /\ [Next]_vars
        => [viz = "clouds" /\ viz' = "once"
              => \A c \in Clients : pc[c] = "spin" => <<c, calls[c]>> \in Range(shown)]_vars
  <2> SUFFICES ASSUME WaitInv, ViewerInv, Next, viz = "clouds", viz' = "once",
                      NEW c \in Clients, pc[c] = "spin"
               PROVE  <<c, calls[c]>> \in Range(shown)
    OBVIOUS
  <2>1. cloudShows = <<>>
    <3>1. ~(Constructed \/ Destroy \/ Join \/ CloseWindow)
      BY DEF Constructed, Destroy, Join, CloseWindow
    <3>2. ASSUME NEW d \in Clients, Client(d) PROVE FALSE
      <4>1. viz' = viz  BY <3>2, ClientWaits
      <4> QED  BY <4>1
    <3> QED  BY <3>1, <3>2 DEF Next, Visualizer, VizStep, CreateViewer, Loop, ShowLast, PopBack,
                NoMoreClouds, RunOnce, ClearOnce, RunEach, AllRun, Spun, ResetViewer
  <2>2. Range(cloudShows) = {}
    <3>1. DOMAIN <<>> = {}  OBVIOUS
    <3> QED  BY <2>1, <3>1 DEF Range
  <2> QED  BY <2>2 DEF WaitInv, NoneForgotten, Awaited
<1> QED  BY <1>1, ViewerInvariant, WaitInvariant, PTL DEF Spec, RoundServesAll

-----------------------------------------------------------------------------
LEMMA VizStepsType == ViewerInv => VizSteps \in Nat
<1> HAVE ViewerInv
<1>1. Cardinality(Keys) \in Nat /\ Cardinality(todo) \in Nat
  BY ViewerAssumption, FS_CardinalityType, FS_Subset DEF ViewerInv, TypeOK
<1>2. Len(cloudShows) \in Nat
  BY DEF ViewerInv, TypeOK
<1> QED  BY <1>1, <1>2, SMTT(30) DEF VizSteps

(* Each of its own steps, but for the one that begins a round. *)
LEMMA VisualizerSteps ==
    ASSUME ViewerInv, Visualizer, viz # "loop" \/ quit
    PROVE  VizSteps' < VizSteps /\ (viz' # viz \/ todo' # todo)
<1>1. Cardinality(Keys) \in Nat /\ IsFiniteSet(todo) /\ Cardinality(todo) \in Nat
  BY ViewerAssumption, FS_CardinalityType, FS_Subset DEF ViewerInv, TypeOK
<1>2. cloudShows \in Seq(Ids) /\ Len(cloudShows) \in Nat
  BY DEF ViewerInv, TypeOK, Ids
<1> USE DEF VizStep, VizSteps
<1>3. CASE CreateViewer  BY <1>3 DEF CreateViewer
<1>4. CASE Loop  BY <1>4 DEF Loop
<1>5. CASE ShowLast  BY <1>1, <1>2, <1>5 DEF ShowLast
<1>6. CASE PopBack
  <2>1. Len(cloudShows') = Len(cloudShows) - 1
    <3>1. cloudShows # <<>> /\ cloudShows' = SubSeq(cloudShows, 1, Len(cloudShows) - 1)
      BY <1>6 DEF PopBack, Front, ViewerInv, ListInv
    <3> DEFINE n == Len(cloudShows)
    <3>2. n \in Nat /\ n > 0  BY <1>2, <3>1, EmptySeq
    <3> HIDE DEF n
    <3>3. n - 1 \in Nat /\ n - 1 <= Len(cloudShows)  BY <1>2, <3>2 DEF n
    <3>4. Len(SubSeq(cloudShows, 1, n - 1)) = n - 1
      <4> HIDE DEF Ids
      <4> QED  BY <1>2, <3>2, <3>3
    <3> QED  BY <3>1, <3>4 DEF n
  <2> QED  BY <1>1, <1>2, <1>6, <2>1 DEF PopBack
<1>7. CASE NoMoreClouds
  <2>1. Len(cloudShows) = 0  BY <1>7 DEF NoMoreClouds
  <2> QED  BY <1>1, <1>7, <2>1 DEF NoMoreClouds
<1>8. CASE RunOnce  BY <1>1, <1>8 DEF RunOnce
<1>9. CASE ClearOnce
  <2>1. todo' \subseteq Keys /\ viz = "clear" /\ viz' = "each"  BY <1>9 DEF ClearOnce
  <2>2. Cardinality(todo') \in Nat /\ Cardinality(todo') <= Cardinality(Keys)
    BY <2>1, ViewerAssumption, FS_Subset, FS_CardinalityType
  <2> QED  BY <1>1, <2>1, <2>2
<1>10. CASE RunEach
  <2>1. PICK k \in todo : todo' = todo \ {k} /\ viz = "each" /\ viz' = "each"
    BY <1>10 DEF RunEach
  <2>2. Cardinality(todo') = Cardinality(todo) - 1
    BY <1>1, <2>1, FS_RemoveElement
  <2> QED  BY <1>1, <2>1, <2>2
<1>11. CASE AllRun
  <2>1. viz = "each" /\ viz' \in {"loop", "spinOnce"}  BY <1>11 DEF AllRun
  <2> QED  BY <1>1, <2>1
<1>12. CASE Spun  BY <1>12 DEF Spun
<1>13. CASE ResetViewer  BY <1>13 DEF ResetViewer
<1> QED
  BY <1>3, <1>4, <1>5, <1>6, <1>7, <1>8, <1>9, <1>10, <1>11, <1>12, <1>13 DEF Visualizer

(* A round is bounded by what was there when the thread took the mutexes,  *)
(* and when the thread is told to end, so is the rest of its life: the     *)
(* clients cannot keep it busy.  With NobodyForgotten and ServesAllInRound *)
(* this is what CallsReturn says but for fairness.                         *)
THEOREM RoundsBounded == Spec => RoundBounded
<1>1. ViewerInv /\ ViewerInv' /\ WaitInv /\ [Next]_vars
        => [viz # "loop" \/ quit
              => /\ VizSteps' \in Nat
                 /\ IF viz' # viz \/ todo' # todo THEN VizSteps' < VizSteps
                                                  ELSE VizSteps' = VizSteps]_vars
  <2> SUFFICES ASSUME ViewerInv, ViewerInv', WaitInv, Next, viz # "loop" \/ quit
               PROVE  /\ VizSteps' \in Nat
                      /\ IF viz' # viz \/ todo' # todo THEN VizSteps' < VizSteps
                                                       ELSE VizSteps' = VizSteps
    OBVIOUS
  <2>1. VizSteps' \in Nat
    <3>1. (ViewerInv => VizSteps \in Nat)'  BY VizStepsType, PTL
    <3> QED  BY <3>1
  <2>2. CASE Constructed \/ Destroy \/ Join \/ CloseWindow
    <3>1. UNCHANGED <<clientVars, viz, todo>>
      BY <2>2 DEF Constructed, Destroy, Join, CloseWindow
    <3> QED  BY <2>1, <3>1 DEF VizSteps, clientVars
  <2>3. ASSUME NEW c \in Clients, Client(c)
        PROVE  VizSteps' = VizSteps /\ viz' = viz /\ todo' = todo
    BY <2>3, ClientWaits
  <2>4. CASE Visualizer  BY <2>1, <2>4, VisualizerSteps
  <2> QED  BY <2>1, <2>2, <2>3, <2>4 DEF Next
<1> QED  BY <1>1, ViewerInvariant, WaitInvariant, PTL DEF Spec, RoundBounded
=============================================================================
