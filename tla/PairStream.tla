----------------------------- MODULE PairStream -----------------------------
(***************************************************************************)
(* What a user of pcl::Synchronizer relies on, without queues, threads or  *)
(* locks: two streams of stamped data come in, each in increasing order of *)
(* its stamps, and pairs come out.  A pair joins a datum of each stream    *)
(* that has arrived, and both of its members are younger than every datum  *)
(* handed out before, so no datum is handed out twice or out of order.     *)
(***************************************************************************)
EXTENDS Naturals

CONSTANT Stamps

VARIABLES
    seen1,      \* stamps that arrived on the first stream
    seen2,      \* stamps that arrived on the second stream
    delivered   \* the pairs handed to the user

streamVars == <<seen1, seen2, delivered>>

(* s is younger than everything in seen. *)
Younger(s, seen) == \A x \in seen : x < s

StreamInit ==
    /\ seen1 = {}
    /\ seen2 = {}
    /\ delivered = {}

Arrive1(s) ==
    /\ Younger(s, seen1)
    /\ seen1' = seen1 \union {s}
    /\ UNCHANGED <<seen2, delivered>>

Arrive2(s) ==
    /\ Younger(s, seen2)
    /\ seen2' = seen2 \union {s}
    /\ UNCHANGED <<seen1, delivered>>

HandOut(a, b) ==
    /\ a \in seen1 /\ b \in seen2
    /\ \A p \in delivered : p[1] < a /\ p[2] < b
    /\ delivered' = delivered \union {<<a, b>>}
    /\ UNCHANGED <<seen1, seen2>>

StreamNext ==
    \/ \E s \in Stamps : Arrive1(s) \/ Arrive2(s)
    \/ \E a, b \in Stamps : HandOut(a, b)

StreamSpec == StreamInit /\ [][StreamNext]_streamVars
=============================================================================
