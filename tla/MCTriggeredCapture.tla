------------------------- MODULE MCTriggeredCapture -------------------------
(* Ways to start the application on a file of a few frames. *)
EXTENDS TriggeredCapture

PlainMode == [kind |-> "plain"]
BoxMode == [kind |-> "bbox"]
ScheduleMode(frames) == [kind |-> "schedule", plan |-> frames]
GraphMode(edges) == [kind |-> "graph", plan |-> edges]

(* No edge, one, two of one fragment, two of different fragments, and two  *)
(* of one fragment in which the first frame of the first lies.             *)
Graphs == {<<>>, <<<<3, 2>>>>, <<<<3, 2>>, <<4, 2>>>>, <<<<3, 2>>, <<4, 3>>>>,
           <<<<1, 2>>, <<4, 2>>>>}
(* On to the last frame, again and back; back and on without a seek.        *)
Schedules == {<<2, 4, 4, 1>>, <<3, 2, 3, 1>>}
AllModes == {PlainMode, BoxMode} \union {ScheduleMode(s) : s \in Schedules}
                \union {GraphMode(g) : g \in Graphs}

PlainModes == {PlainMode}

(* What no guard reads: the history of rgb_sync_ and what is overwritten    *)
(* before it is used.                                                      *)
View ==
    << queueT1, queueT2, mutex1, mutex2, publishMutex, cb, pc, todo, calls,
       [t \in AppThreads |-> IF pc[t] \in {"front2", "match"} THEN t1[t] ELSE 0],
       [t \in AppThreads |-> IF pc[t] = "match" THEN t2[t] ELSE 0],
       position, data, device,
       [t \in DeviceThreads |-> IF device[t] = "fetched" THEN held[t] ELSE 0],
       planVars, mainAt, IF mainAt = "seeking" THEN target ELSE 0,
       IF mainAt \in {"trigger2", "flush"} THEN updated ELSE FALSE,
       IF mainAt = "woken" THEN hasData ELSE FALSE,
       misses, missed, crossed, frameVars >>
=============================================================================
