---------------------------- MODULE Synchronizer ----------------------------
(***************************************************************************)
(* pcl::Synchronizer at the granularity of its three mutexes.  A step of a *)
(* thread ends where the thread blocks on the next mutex or releases one;  *)
(* a critical section that takes no second mutex and calls nobody is one   *)
(* step.  Data are abstracted to their time stamps.                        *)
(*                                                                         *)
(* The roles say which methods a thread calls: in the grabbers the two     *)
(* device threads add, a helper thread finalizes, a seek resets, and       *)
(* registering a signal handler adds or removes a callback.                *)
(***************************************************************************)
EXTENDS Integers, Sequences, FiniteSets

CONSTANTS
    Threads, NoThread,
    Adders0, Adders1,   \* threads that call add0, add1
    Finalizers,         \* threads that call finalize
    Resetters,          \* threads that call reset
    Subscribers,        \* threads that call addCallback, removeCallback
    Stamps,
    Modulus,            \* 2^w for a w-bit unsigned long
    MaxCallbacks,       \* bound: addCallback is called at most so often
    MaxCalls            \* bound: calls of finalize and reset

ASSUME ConstantsAssumption ==
    /\ NoThread \notin Threads
    /\ Modulus \in Nat \ {0}
    /\ Stamps \subseteq 0 .. (Modulus - 1)
    /\ MaxCallbacks \in Nat /\ MaxCalls \in Nat
    /\ UNION {Adders0, Adders1, Finalizers, Resetters, Subscribers} \subseteq Threads

VARIABLES
    queueT1, queueT2,                \* the stamps queued, oldest first
    mutex1, mutex2, publishMutex,    \* the thread that owns each mutex
    cb, callbackCounter,             \* ids in the callback map, next id
    pc,                              \* where each thread is
    t1, t2,                          \* publish()'s copies of the two fronts
    todo,                            \* callbacks the loop has still to call
    seen1, seen2, delivered,         \* history: arrivals, pairs handed out
    forgotten,                       \* history: what had arrived at the last reset
    calls                            \* number of finalize and reset calls

queues == <<queueT1, queueT2>>
locks == <<mutex1, mutex2, publishMutex>>
callbacks == <<cb, callbackCounter>>
locals == <<t1, t2, todo>>
history == <<seen1, seen2, delivered, forgotten, calls>>
vars == <<queues, locks, callbacks, pc, locals, history>>

Pairs == INSTANCE PairStream

(* Where a thread is: the mutex it waits for, or the calls it is making. *)
Publishing == {"front1", "front2", "match", "publishData1", "publishData2", "call"}
Finalizing == {"finalize1", "finalize2", "finalCall"}
Delivering == {"call", "finalCall"}
HoldsPublish == Publishing \union Finalizing
HoldsMutex1 == {"publishData2", "finalize2", "reset2"} \union Delivering
HoldsMutex2 == Delivering
Places == {"idle", "publish", "finalize", "reset", "reset2", "undefined"} \union HoldsPublish

Init ==
    /\ queueT1 = <<>> /\ queueT2 = <<>>
    /\ mutex1 = NoThread /\ mutex2 = NoThread /\ publishMutex = NoThread
    /\ cb = {} /\ callbackCounter = 0
    /\ pc = [t \in Threads |-> "idle"]
    /\ t1 = [t \in Threads |-> 0]
    /\ t2 = [t \in Threads |-> 0]
    /\ todo = [t \in Threads |-> {}]
    /\ seen1 = {} /\ seen2 = {} /\ delivered = {}
    /\ forgotten = [stream1 |-> {}, stream2 |-> {}]
    /\ calls = 0

Goto(t, from, to) ==
    /\ pc[t] = from
    /\ pc' = [pc EXCEPT ![t] = to]

-----------------------------------------------------------------------------
(* add0 and add1: push under the queue's own mutex, then publish().        *)

Add0(t, s) ==
    /\ mutex1 = NoThread
    /\ Goto(t, "idle", "publish")
    /\ queueT1' = Append(queueT1, s)
    /\ seen1' = seen1 \union {s}
    /\ UNCHANGED <<queueT2, locks, callbacks, locals,
                   seen2, delivered, forgotten, calls>>

(* Mutant: a datum of the second stream is put before the others. *)
Add1InFront(t, s) ==
    /\ mutex2 = NoThread
    /\ Goto(t, "idle", "publish")
    /\ queueT2' = <<s>> \o queueT2
    /\ seen2' = seen2 \union {s}
    /\ UNCHANGED <<queueT1, locks, callbacks, locals,
                   seen1, delivered, forgotten, calls>>

Add1(t, s) ==
    /\ mutex2 = NoThread
    /\ Goto(t, "idle", "publish")
    /\ queueT2' = Append(queueT2, s)
    /\ seen2' = seen2 \union {s}
    /\ UNCHANGED <<queueT1, locks, callbacks, locals,
                   seen1, delivered, forgotten, calls>>

-----------------------------------------------------------------------------
(* publish(): one call at a time; it looks at the two fronts, drops what   *)
(* is too old on the side that is behind, and decides whether to publish.  *)

StartPublish(t) ==
    /\ publishMutex = NoThread
    /\ Goto(t, "publish", "front1")
    /\ publishMutex' = t
    /\ UNCHANGED <<queues, mutex1, mutex2, callbacks, locals, history>>

(* Mutant: an early return that keeps publish_mutex_. *)
ReturnLocked(t, from) ==
    /\ Goto(t, from, "idle")
    /\ UNCHANGED <<queues, locks, callbacks, locals, history>>

ReturnFrom(t, from) ==
    /\ Goto(t, from, "idle")
    /\ publishMutex' = NoThread
    /\ UNCHANGED <<queues, mutex1, mutex2, callbacks, locals, history>>

Front1(t) ==
    /\ mutex1 = NoThread
    /\ \/ queueT1 = <<>> /\ ReturnFrom(t, "front1")
       \/ /\ queueT1 # <<>>
          /\ Goto(t, "front1", "front2")
          /\ t1' = [t1 EXCEPT ![t] = Head(queueT1)]
          /\ UNCHANGED <<queues, locks, callbacks, t2, todo, history>>

Front2(t) ==
    /\ mutex2 = NoThread
    /\ \/ queueT2 = <<>> /\ ReturnFrom(t, "front2")
       \/ /\ queueT2 # <<>>
          /\ Goto(t, "front2", "match")
          /\ t2' = [t2 EXCEPT ![t] = Head(queueT2)]
          /\ UNCHANGED <<queues, locks, callbacks, t1, todo, history>>

(* The while loop: pop the front as long as the second entry is not past s. *)
LeastOf(S) == CHOOSE i \in S : \A j \in S : i <= j
Trimmed(q, s) ==
    IF q = <<>> THEN q
    ELSE SubSeq(q, LeastOf({i \in 1 .. Len(q) : i = Len(q) \/ q[i + 1] > s}), Len(q))

(* Mutant: the comparison is turned round. *)
FirstIsCloser(q, s) == (2 * s) % Modulus < (q[1] + q[2]) % Modulus

(* The stamps are unsigned long: the doubled one and the sum wrap around. *)
SecondIsCloser(q, s) == (2 * s) % Modulus > (q[1] + q[2]) % Modulus

(* The queue that is behind once it has been trimmed for the other's front s. *)
Matched(q, s) ==
    LET kept == Trimmed(q, s) IN
    IF Len(kept) > 1 /\ SecondIsCloser(kept, s) THEN Tail(kept) ELSE kept

Decide(t, q, s) ==
    \/ Len(Trimmed(q, s)) > 1 /\ Goto(t, "match", "publishData1") /\ UNCHANGED publishMutex
    \/ Len(Trimmed(q, s)) <= 1 /\ Goto(t, "match", "idle") /\ publishMutex' = NoThread

Match(t) ==
    /\ \/ /\ t1[t] <= t2[t]
          /\ mutex1 = NoThread
          /\ Decide(t, queueT1, t2[t])
          /\ queueT1' = Matched(queueT1, t2[t])
          /\ UNCHANGED queueT2
       \/ /\ t1[t] > t2[t]
          /\ mutex2 = NoThread
          /\ Decide(t, queueT2, t1[t])
          /\ queueT2' = Matched(queueT2, t1[t])
          /\ UNCHANGED queueT1
    /\ UNCHANGED <<mutex1, mutex2, callbacks, locals, history>>

-----------------------------------------------------------------------------
(* publishData(): both mutexes, every callback, then drop both fronts.     *)

LockMutex1(t, from, to) ==
    /\ mutex1 = NoThread
    /\ Goto(t, from, to)
    /\ mutex1' = t
    /\ UNCHANGED <<queues, mutex2, publishMutex, callbacks, locals, history>>

(* Hand out the two fronts, to every callback in the map at this moment. *)
Deliver(t, from, to) ==
    /\ Goto(t, from, to)
    /\ mutex2' = t
    /\ todo' = [todo EXCEPT ![t] = cb]
    /\ delivered' = delivered \union {<<Head(queueT1), Head(queueT2)>>}
    /\ UNCHANGED <<queues, mutex1, publishMutex, callbacks, t1, t2,
                   seen1, seen2, forgotten, calls>>

PublishData1(t) == LockMutex1(t, "publishData1", "publishData2")

(* front() and pop_front() of an empty deque are undefined behaviour. *)
PublishData2(t) ==
    /\ mutex2 = NoThread
    /\ \/ queueT1 # <<>> /\ queueT2 # <<>> /\ Deliver(t, "publishData2", "call")
       \/ /\ queueT1 = <<>> \/ queueT2 = <<>>
          /\ Goto(t, "publishData2", "undefined")
          /\ UNCHANGED <<queues, locks, callbacks, locals, history>>

(* One callback runs, with all three mutexes held by the caller. *)
Call(t, id) ==
    /\ pc[t] \in Delivering
    /\ id \in todo[t] /\ \A other \in todo[t] : id <= other
    /\ todo' = [todo EXCEPT ![t] = @ \ {id}]
    /\ UNCHANGED <<queues, locks, callbacks, pc, t1, t2, history>>

Unlock(t, from) ==
    /\ Goto(t, from, "idle")
    /\ mutex1' = NoThread /\ mutex2' = NoThread /\ publishMutex' = NoThread

(* Mutant: only the first queue loses its front. *)
PopOneFront(t) ==
    /\ todo[t] = {}
    /\ \E place \in Delivering : Unlock(t, place)
    /\ queueT1' = Tail(queueT1)
    /\ UNCHANGED <<queueT2, callbacks, locals, history>>

PopFronts(t) ==
    /\ todo[t] = {}
    /\ \E place \in Delivering : Unlock(t, place)
    /\ queueT1' = Tail(queueT1)
    /\ queueT2' = Tail(queueT2)
    /\ UNCHANGED <<callbacks, locals, history>>

-----------------------------------------------------------------------------
(* finalize(): the two fronts, however far apart, if there are two.        *)

Finalize(t) ==
    /\ calls < MaxCalls
    /\ Goto(t, "idle", "finalize")
    /\ calls' = calls + 1
    /\ UNCHANGED <<queues, locks, callbacks, locals, seen1, seen2, delivered, forgotten>>

(* Mutant: finalize() does not take publish_mutex_. *)
FinalizeUnguarded(t) ==
    /\ Goto(t, "finalize", "finalize1")
    /\ UNCHANGED <<queues, locks, callbacks, locals, history>>

FinalizePublish(t) ==
    /\ publishMutex = NoThread
    /\ Goto(t, "finalize", "finalize1")
    /\ publishMutex' = t
    /\ UNCHANGED <<queues, mutex1, mutex2, callbacks, locals, history>>

Finalize1(t) == LockMutex1(t, "finalize1", "finalize2")

Finalize2(t) ==
    /\ mutex2 = NoThread
    /\ \/ queueT1 # <<>> /\ queueT2 # <<>> /\ Deliver(t, "finalize2", "finalCall")
       \/ /\ queueT1 = <<>> \/ queueT2 = <<>>
          /\ Goto(t, "finalize2", "idle")
          /\ mutex1' = NoThread /\ publishMutex' = NoThread
          /\ UNCHANGED <<queues, mutex2, callbacks, locals, history>>

-----------------------------------------------------------------------------
(* reset() takes the two queue mutexes and not publish_mutex_.             *)

Reset(t) ==
    /\ calls < MaxCalls
    /\ Goto(t, "idle", "reset")
    /\ calls' = calls + 1
    /\ UNCHANGED <<queues, locks, callbacks, locals, seen1, seen2, delivered, forgotten>>

Reset1(t) == LockMutex1(t, "reset", "reset2")

(* Mutant: reset() forgets the second queue. *)
ResetFirst(t) ==
    /\ mutex2 = NoThread
    /\ Goto(t, "reset2", "idle")
    /\ mutex1' = NoThread
    /\ queueT1' = <<>>
    /\ forgotten' = [stream1 |-> seen1, stream2 |-> seen2]
    /\ UNCHANGED <<queueT2, mutex2, publishMutex, callbacks, locals,
                   seen1, seen2, delivered, calls>>

Reset2(t) ==
    /\ mutex2 = NoThread
    /\ Goto(t, "reset2", "idle")
    /\ mutex1' = NoThread
    /\ queueT1' = <<>> /\ queueT2' = <<>>
    /\ forgotten' = [stream1 |-> seen1, stream2 |-> seen2]
    /\ UNCHANGED <<mutex2, publishMutex, callbacks, locals,
                   seen1, seen2, delivered, calls>>

-----------------------------------------------------------------------------
(* addCallback and removeCallback change the map under publish_mutex_.     *)

AddCallback(t) ==
    /\ pc[t] = "idle"
    /\ publishMutex = NoThread
    /\ callbackCounter < MaxCallbacks
    /\ cb' = cb \union {callbackCounter}
    /\ callbackCounter' = callbackCounter + 1
    /\ UNCHANGED <<queues, locks, pc, locals, history>>

RemoveCallback(t, id) ==
    /\ pc[t] = "idle"
    /\ publishMutex = NoThread
    /\ cb' = cb \ {id}
    /\ UNCHANGED <<queues, locks, callbackCounter, pc, locals, history>>

-----------------------------------------------------------------------------
(* The class asks its callers for strictly increasing stamps per stream.   *)
Arrive(t) ==
    \/ t \in Adders0 /\ \E s \in Stamps : Pairs!Younger(s, seen1) /\ Add0(t, s)
    \/ t \in Adders1 /\ \E s \in Stamps : Pairs!Younger(s, seen2) /\ Add1(t, s)

Subscribe(t) ==
    /\ t \in Subscribers
    /\ AddCallback(t) \/ \E id \in cb : RemoveCallback(t, id)

(* What a thread does inside a method. *)
Continue(t) ==
    \/ StartPublish(t) \/ Front1(t) \/ Front2(t) \/ Match(t)
    \/ PublishData1(t) \/ PublishData2(t)
    \/ FinalizePublish(t) \/ Finalize1(t) \/ Finalize2(t)
    \/ (\E id \in cb : Call(t, id)) \/ PopFronts(t)
    \/ Reset1(t) \/ Reset2(t)

Step(t) ==
    \/ Arrive(t)
    \/ t \in Finalizers /\ Finalize(t)
    \/ t \in Resetters /\ Reset(t)
    \/ Subscribe(t)
    \/ Continue(t)

Next == \E t \in Threads : Step(t)

Spec == Init /\ [][Next]_vars

(* The scheduler runs a thread whose next mutex stays free.  boost::mutex   *)
(* promises no more: a thread may lose a contended mutex again and again,  *)
(* but only finitely often here, for the calls of the others are bounded.  *)
FairSpec == Spec /\ \A t \in Threads : WF_vars(Continue(t))

-----------------------------------------------------------------------------
TypeOK ==
    /\ queueT1 \in Seq(Stamps) /\ queueT2 \in Seq(Stamps)
    /\ mutex1 \in Threads \union {NoThread}
    /\ mutex2 \in Threads \union {NoThread}
    /\ publishMutex \in Threads \union {NoThread}
    /\ callbackCounter \in 0 .. MaxCallbacks
    /\ cb \subseteq 0 .. (callbackCounter - 1)
    /\ pc \in [Threads -> Places]
    /\ t1 \in [Threads -> Stamps \union {0}]
    /\ t2 \in [Threads -> Stamps \union {0}]
    /\ todo \in [Threads -> SUBSET (0 .. (MaxCallbacks - 1))]
    /\ seen1 \subseteq Stamps /\ seen2 \subseteq Stamps
    /\ delivered \subseteq Stamps \X Stamps
    /\ forgotten \in [stream1 : SUBSET Stamps, stream2 : SUBSET Stamps]
    /\ calls \in 0 .. MaxCalls

(* A thread owns exactly the mutexes its place says it has locked and not  *)
(* yet released, on every path through the early returns.                  *)
LocksOwned ==
    \A t \in Threads : pc[t] # "undefined" =>
        /\ pc[t] \in HoldsPublish <=> publishMutex = t
        /\ pc[t] \in HoldsMutex1 <=> mutex1 = t
        /\ pc[t] \in HoldsMutex2 <=> mutex2 = t

(* publishData() never takes the front of an empty queue, although the two *)
(* queues were unlocked after publish() had looked at their fronts.        *)
FrontsDefined == \A t \in Threads : pc[t] # "undefined"

(* The decision made on the copies t1 and t2 is still about the fronts     *)
(* when publishData() hands them out: the side that was ahead has kept its *)
(* front, and both queues still have one.                                  *)
SnapshotCurrent ==
    \A t \in Threads :
        /\ pc[t] \in {"front2", "match"} => queueT1 # <<>> /\ Head(queueT1) = t1[t]
        /\ pc[t] = "match" => queueT2 # <<>> /\ Head(queueT2) = t2[t]
        /\ pc[t] \in {"publishData1", "publishData2", "call"} =>
              /\ queueT1 # <<>> /\ queueT2 # <<>>
              /\ IF t1[t] <= t2[t] THEN Head(queueT2) = t2[t] ELSE Head(queueT1) = t1[t]

(* A callback that has been removed is not called any more: the loop in    *)
(* publishData() and finalize() only has registered callbacks before it.   *)
OnlyRegisteredCalled == \A t \in Threads : todo[t] \subseteq cb

(* publish() joins the closest data: of the data of the stream that was    *)
(* behind that are younger than the last pair handed out before, none is   *)
(* nearer to the front of the other stream than the one handed out.        *)
Distance(x, y) == IF x <= y THEN y - x ELSE x - y
Undelivered1(a) == {x \in seen1 : \A p \in delivered : p[1] < x \/ p[1] = a}
Undelivered2(b) == {x \in seen2 : \A p \in delivered : p[2] < x \/ p[2] = b}
ClosestPublished ==
    \A t \in Threads : pc[t] = "call" =>
        LET a == Head(queueT1)
            b == Head(queueT2) IN
        IF t1[t] <= t2[t]
        THEN \A x \in Undelivered1(a) : Distance(a, b) <= Distance(x, b)
        ELSE \A x \in Undelivered2(b) : Distance(a, b) <= Distance(a, x)

(* The queues hold data that have arrived, in the order of their stamps,   *)
(* and nothing in them is as old as a pair that was handed out and popped. *)
Popped == IF \E t \in Threads : pc[t] \in Delivering
          THEN delivered \ {<<Head(queueT1), Head(queueT2)>>} ELSE delivered
Ordered(q) == \A i, j \in 1 .. Len(q) : i < j => q[i] < q[j]
QueuesFresh ==
    /\ Ordered(queueT1) /\ Ordered(queueT2)
    /\ \A p \in Popped :
         /\ \A i \in 1 .. Len(queueT1) : p[1] < queueT1[i]
         /\ \A i \in 1 .. Len(queueT2) : p[2] < queueT2[i]

(* Once reset() has returned, nothing that had arrived before it is handed *)
(* out any more, even to a publisher that was interrupted by the reset.    *)
ForgottenNotDelivered ==
    [][\A p \in delivered' \ delivered :
          p[1] \notin forgotten.stream1 /\ p[2] \notin forgotten.stream2]_vars

(* A thread may continue when it is in a method and the mutex it has to    *)
(* lock next, if there is one, is free.                                    *)
MayContinue(t) ==
    /\ pc[t] \notin {"idle", "undefined"}
    /\ pc[t] \in {"publish", "finalize"} => publishMutex = NoThread
    /\ pc[t] \in {"front1", "publishData1", "finalize1", "reset"} => mutex1 = NoThread
    /\ pc[t] \in {"front2", "publishData2", "finalize2", "reset2"} => mutex2 = NoThread
    /\ pc[t] = "match" => mutex1 = NoThread /\ mutex2 = NoThread

(* While a thread is in a method, there is one that may continue, unless   *)
(* one has taken the front of an empty queue.                              *)
NeverAllBlocked ==
    (\E t \in Threads : pc[t] # "idle") =>
        \E t \in Threads : MayContinue(t) \/ pc[t] = "undefined"

(* Every call comes back: the three mutexes are taken in one order and are *)
(* given back on every path.                                               *)
CallsReturn == \A t \in Threads : (pc[t] # "idle") ~> (pc[t] = "idle")

(* The detailed protocol hands out a stream of pairs as its users see it.  *)
PairsInOrder == Pairs!StreamSpec
=============================================================================
