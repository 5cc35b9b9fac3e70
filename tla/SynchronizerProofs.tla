------------------------- MODULE SynchronizerProofs -------------------------
(***************************************************************************)
(* Proofs about Synchronizer for any number of threads, stamps and         *)
(* callbacks and any width of unsigned long.                               *)
(*                                                                         *)
(* Every place in which a thread looks at the queues between two critical  *)
(* sections lies inside its hold on publish_mutex_, only the holder of     *)
(* publish_mutex_ pops, and add0 and add1 only append behind the fronts.   *)
(* So the fronts a publisher copied stay the fronts, but for reset(),      *)
(* which does not take publish_mutex_: the theorems about the fronts have  *)
(* the hypothesis Resetters = {}.  Whatever is done to the queues leaves   *)
(* them ordered and younger than what was popped; from this follows, with  *)
(* reset() too, that the pairs handed out are a PairStream.  What trimming *)
(* drops is farther away than what follows it, which gives the closest     *)
(* pairs; whoever owns the last of the mutexes can go on; and no path of a *)
(* call goes back, so that it has a bounded number of steps.               *)
(***************************************************************************)
EXTENDS Synchronizer, WellFoundedInduction, SequenceTheorems, FiniteSetTheorems, TLAPS

LEMMA StampsAreNat == Stamps \subseteq Nat
BY ConstantsAssumption

-----------------------------------------------------------------------------
(* Trimming a queue that is not empty leaves one that is not empty.        *)

LEMMA LeastOfType ==
    ASSUME NEW S \in SUBSET Nat, S # {}
    PROVE  LeastOf(S) \in S /\ \A i \in S : LeastOf(S) <= i
<1>1. PICK n \in S : \A m \in S : n <= m
  <2> DEFINE R == OpToRel(<, Nat)
  <2>1. R = {p \in Nat \X Nat : p[1] < p[2]}
    BY Zenon DEF OpToRel
  <2>2. IsWellFoundedOn(R, Nat)
    BY NatLessThanWellFounded
  <2> HIDE DEF R
  <2>3. PICK n \in S : \A m \in S : ~ (<<m, n>> \in R)
    BY <2>2, WFMin
  <2>4. \A m \in S : ~ (m < n)
    <3> TAKE m \in S
    <3>1. <<m, n>> \in Nat \X Nat /\ <<m, n>>[1] = m /\ <<m, n>>[2] = n
      OBVIOUS
    <3>2. ~ (<<m, n>>[1] < <<m, n>>[2])
      BY <2>1, <2>3, <3>1, Zenon
    <3> QED
      BY <3>1, <3>2
  <2> QED
    BY <2>4
<1> QED
  BY <1>1 DEF LeastOf

LEMMA TrimmedType ==
    ASSUME NEW q \in Seq(Stamps), NEW s \in Nat
    PROVE  /\ Trimmed(q, s) \in Seq(Stamps)
           /\ q # <<>> => Len(Trimmed(q, s)) >= 1
<1>1. CASE q = <<>>
  BY <1>1 DEF Trimmed
<1>2. CASE q # <<>>
  <2> DEFINE S == {i \in 1 .. Len(q) : i = Len(q) \/ q[i + 1] > s}
  <2>1. Len(q) \in Nat /\ Len(q) >= 1
    BY <1>2
  <2>2. S \subseteq Nat /\ Len(q) \in S
    BY <2>1
  <2>3. LeastOf(S) \in 1 .. Len(q)
    BY <2>2, LeastOfType
  <2>4. \A i \in LeastOf(S) .. Len(q) : q[i] \in Stamps
    BY <2>1, <2>3
  <2> HIDE DEF S
  <2>5. /\ SubSeq(q, LeastOf(S), Len(q)) \in Seq(Stamps)
        /\ Len(SubSeq(q, LeastOf(S), Len(q))) = Len(q) - LeastOf(S) + 1
    BY <2>1, <2>3, <2>4, SubSeqProperties
  <2> QED
    BY <1>2, <2>1, <2>3, <2>5 DEF Trimmed, S
<1> QED
  BY <1>1, <1>2

LEMMA MatchedType ==
    ASSUME NEW q \in Seq(Stamps), NEW s \in Nat
    PROVE  /\ Matched(q, s) \in Seq(Stamps)
           /\ q # <<>> => Matched(q, s) # <<>>
<1>1. Trimmed(q, s) \in Seq(Stamps) /\ (q # <<>> => Len(Trimmed(q, s)) >= 1)
  BY TrimmedType
<1> DEFINE kept == Trimmed(q, s)
<1> HIDE DEF kept
<1>2. kept \in Seq(Stamps) /\ (q # <<>> => Len(kept) >= 1)
  BY <1>1 DEF kept
<1>3. CASE Len(kept) > 1 /\ SecondIsCloser(kept, s)
  <2>1. Tail(kept) \in Seq(Stamps) /\ Len(Tail(kept)) >= 1
    <3>1. Len(kept) > 1
      BY <1>3
    <3>2. kept # <<>>
      BY <3>1, EmptySeq
    <3>3. Tail(kept) \in Seq(Stamps) /\ Len(Tail(kept)) = Len(kept) - 1
      BY <1>2, <3>2, HeadTailProperties
    <3> QED
      BY <1>2, <3>1, <3>3
  <2>2. \A q2 \in Seq(Stamps) : Len(q2) >= 1 => q2 # <<>>
    OBVIOUS
  <2>3. Tail(kept) # <<>>
    BY <2>1, <2>2
  <2> QED
    BY <1>3, <2>1, <2>3 DEF Matched, kept
<1>4. CASE ~(Len(kept) > 1 /\ SecondIsCloser(kept, s))
  BY <1>2, <1>4 DEF Matched, kept
<1> QED
  BY <1>3, <1>4
-----------------------------------------------------------------------------
(* The inductive invariant.                                                *)

(* No thread is inside reset(). *)
NoReset == \A t \in Threads : pc[t] \notin {"reset", "reset2"}

(* While a thread is calling, both queues have the fronts it hands out, and *)
(* only a thread that is calling has callbacks left to call.               *)
DeliveryDefined ==
    \A t \in Threads :
        /\ pc[t] \in Delivering => queueT1 # <<>> /\ queueT2 # <<>>
        /\ pc[t] \notin Delivering => todo[t] = {}

(* What holds with reset(), and what only holds without. *)
BaseInv == TypeOK /\ LocksOwned /\ DeliveryDefined /\ OnlyRegisteredCalled

IInv == BaseInv /\ FrontsDefined /\ NoReset /\ SnapshotCurrent

LEMMA InitIInv == Init => IInv
<1> SUFFICES ASSUME Init PROVE IInv
  OBVIOUS
<1>1. TypeOK
  BY ConstantsAssumption DEF Init, TypeOK, Places
<1>2. LocksOwned /\ FrontsDefined /\ NoReset
  BY ConstantsAssumption DEF Init, LocksOwned, FrontsDefined, NoReset,
     HoldsPublish, HoldsMutex1, HoldsMutex2, Publishing, Finalizing, Delivering
<1>3. SnapshotCurrent /\ DeliveryDefined /\ OnlyRegisteredCalled
  BY DEF Init, SnapshotCurrent, DeliveryDefined, OnlyRegisteredCalled, Delivering
<1> QED
  BY <1>1, <1>2, <1>3 DEF IInv, BaseInv

LEMMA SnapshotsAreNat ==
    ASSUME TypeOK, NEW t \in Threads
    PROVE  t1[t] \in Nat /\ t2[t] \in Nat
<1>1. t1[t] \in Stamps \union {0} /\ t2[t] \in Stamps \union {0}
  BY DEF TypeOK
<1>2. \A s \in Stamps \union {0} : s \in Nat
  BY StampsAreNat
<1> QED
  BY <1>1, <1>2

(* What Match and the removal of a front leave behind in the queues. *)
LEMMA MatchedQueues ==
    ASSUME TypeOK, NEW t \in Threads
    PROVE  /\ Matched(queueT1, t2[t]) \in Seq(Stamps)
           /\ Matched(queueT2, t1[t]) \in Seq(Stamps)
           /\ queueT1 # <<>> => Matched(queueT1, t2[t]) # <<>>
           /\ queueT2 # <<>> => Matched(queueT2, t1[t]) # <<>>
<1>1. t1[t] \in Nat /\ t2[t] \in Nat
  BY SnapshotsAreNat
<1>2. queueT1 \in Seq(Stamps) /\ queueT2 \in Seq(Stamps)
  BY DEF TypeOK
<1> QED
  BY <1>1, <1>2, MatchedType

LEMMA QueueParts ==
    ASSUME TypeOK
    PROVE  /\ queueT1 # <<>> => Head(queueT1) \in Stamps /\ Tail(queueT1) \in Seq(Stamps)
           /\ queueT2 # <<>> => Head(queueT2) \in Stamps /\ Tail(queueT2) \in Seq(Stamps)
BY HeadTailProperties DEF TypeOK

(* add0 and add1 leave the fronts alone. *)
LEMMA AppendKeepsFront ==
    ASSUME NEW q \in Seq(Stamps), NEW s \in Stamps
    PROVE  /\ Append(q, s) \in Seq(Stamps) /\ Append(q, s) # <<>>
           /\ q # <<>> => Head(Append(q, s)) = Head(q)
BY AppendProperties, HeadTailAppend

LEMMA UpdatedType ==
    ASSUME NEW S, NEW T, NEW f \in [S -> T], NEW x \in S, NEW v \in T
    PROVE  [f EXCEPT ![x] = v] \in [S -> T]
OBVIOUS

LEMMA CallbacksBounded ==
    ASSUME TypeOK
    PROVE  cb \in SUBSET (0 .. (MaxCallbacks - 1))
BY ConstantsAssumption DEF TypeOK

(* A step of a user who may also break the contract and add data in any    *)
(* order of their stamps.                                                  *)
AnyStep(t) == Step(t) \/ \E s \in Stamps : Add0(t, s) \/ Add1(t, s)

(* Each step takes and gives back the mutexes its place says. *)
LEMMA LocksStep ==
    ASSUME BaseInv, NEW t \in Threads, AnyStep(t)
    PROVE  LocksOwned'
<1> USE ConstantsAssumption DEF BaseInv, Goto, TypeOK, LocksOwned,  locks, Places, HoldsPublish, HoldsMutex1, HoldsMutex2, Publishing, Finalizing, Delivering
<1>1. CASE \E s \in Stamps : Add0(t, s)
  BY <1>1 DEF Add0
<1>2. CASE \E s \in Stamps : Add1(t, s)
  BY <1>2 DEF Add1
<1>3. CASE Finalize(t) \/ Reset(t)
  BY <1>3 DEF Finalize, Reset
<1>4. CASE AddCallback(t)
  BY <1>4 DEF AddCallback
<1>5. CASE \E id \in cb : RemoveCallback(t, id)
  BY <1>5 DEF RemoveCallback
<1>6. CASE StartPublish(t)
  BY <1>6 DEF StartPublish
<1>7. CASE Front1(t)
  BY <1>7 DEF Front1, ReturnFrom
<1>8. CASE Front2(t)
  BY <1>8 DEF Front2, ReturnFrom
<1>9. CASE Match(t)
  BY <1>9 DEF Match, Decide
<1>10. CASE PublishData1(t)
  BY <1>10 DEF PublishData1, LockMutex1
<1>11. CASE PublishData2(t)
  BY <1>11 DEF PublishData2, Deliver
<1>12. CASE FinalizePublish(t)
  BY <1>12 DEF FinalizePublish
<1>13. CASE Finalize1(t)
  BY <1>13 DEF Finalize1, LockMutex1
<1>14. CASE Finalize2(t)
  BY <1>14 DEF Finalize2, Deliver
<1>15. CASE \E id \in cb : Call(t, id)
  BY <1>15 DEF Call
<1>16. CASE PopFronts(t)
  BY <1>16 DEF PopFronts, Unlock
<1>17. CASE Reset1(t)
  BY <1>17 DEF Reset1, LockMutex1
<1>18. CASE Reset2(t)
  BY <1>18 DEF Reset2
<1> QED
  BY <1>1, <1>2, <1>3, <1>4, <1>5, <1>6, <1>7, <1>8, <1>9, <1>10, <1>11, <1>12, <1>13, <1>14, <1>15, <1>16, <1>17, <1>18 DEF AnyStep, Step, Arrive, Subscribe, Continue

(* Nothing leads to undefined behaviour or into reset(). *)
LEMMA PlacesStep ==
    ASSUME IInv, NEW t \in Threads, Step(t), Resetters = {}
    PROVE  (FrontsDefined /\ NoReset)'
<1> USE ConstantsAssumption DEF IInv, BaseInv, Goto, TypeOK, LocksOwned, FrontsDefined, NoReset, SnapshotCurrent, locks, Places, HoldsPublish, HoldsMutex1, HoldsMutex2, Publishing, Finalizing, Delivering
<1>1. CASE \E s \in Stamps : Add0(t, s)
  BY <1>1 DEF Add0
<1>2. CASE \E s \in Stamps : Add1(t, s)
  BY <1>2 DEF Add1
<1>3. CASE Finalize(t)
  BY <1>3 DEF Finalize
<1>4. CASE AddCallback(t)
  BY <1>4 DEF AddCallback
<1>5. CASE \E id \in cb : RemoveCallback(t, id)
  BY <1>5 DEF RemoveCallback
<1>6. CASE StartPublish(t)
  BY <1>6 DEF StartPublish
<1>7. CASE Front1(t)
  BY <1>7 DEF Front1, ReturnFrom
<1>8. CASE Front2(t)
  BY <1>8 DEF Front2, ReturnFrom
<1>9. CASE Match(t)
  BY <1>9 DEF Match, Decide
<1>10. CASE PublishData1(t)
  BY <1>10 DEF PublishData1, LockMutex1
<1>11. CASE PublishData2(t)
  BY <1>11 DEF PublishData2, Deliver
<1>12. CASE FinalizePublish(t)
  BY <1>12 DEF FinalizePublish
<1>13. CASE Finalize1(t)
  BY <1>13 DEF Finalize1, LockMutex1
<1>14. CASE Finalize2(t)
  BY <1>14 DEF Finalize2, Deliver
<1>15. CASE \E id \in cb : Call(t, id)
  BY <1>15 DEF Call
<1>16. CASE PopFronts(t)
  BY <1>16 DEF PopFronts, Unlock
<1>17. CASE Reset1(t) \/ Reset2(t)
  BY <1>17 DEF Reset1, Reset2, LockMutex1
<1> QED
  BY <1>1, <1>2, <1>3, <1>4, <1>5, <1>6, <1>7, <1>8, <1>9, <1>10, <1>11, <1>12, <1>13, <1>14, <1>15, <1>16, <1>17 DEF Step, Arrive, Subscribe, Continue

(* Every step preserves the types. *)
LEMMA TypeStep ==
    ASSUME BaseInv, NEW t \in Threads, AnyStep(t)
    PROVE  TypeOK'
<1> USE ConstantsAssumption DEF BaseInv, Goto, TypeOK,  queues, locks, callbacks, locals, history, Places, HoldsPublish, HoldsMutex1, HoldsMutex2, Publishing, Finalizing, Delivering
<1>1. CASE \E s \in Stamps : Add0(t, s)
  BY <1>1, AppendKeepsFront DEF Add0
<1>2. CASE \E s \in Stamps : Add1(t, s)
  BY <1>2, AppendKeepsFront DEF Add1
<1>3. CASE Finalize(t)
  BY <1>3 DEF Finalize
<1>19. CASE Reset(t)
  BY <1>19 DEF Reset
<1>4. CASE AddCallback(t)
  BY <1>4 DEF AddCallback
<1>5. CASE \E id \in cb : RemoveCallback(t, id)
  BY <1>5 DEF RemoveCallback
<1>6. CASE StartPublish(t)
  BY <1>6 DEF StartPublish
<1>7. CASE Front1(t)
  <2>1. t1' \in [Threads -> Stamps \union {0}]
    BY <1>7, QueueParts DEF Front1, ReturnFrom
  <2>2. pc' \in [Threads -> Places]
    BY <1>7 DEF Front1, ReturnFrom
  <2> QED
    BY <1>7, <2>1, <2>2 DEF Front1, ReturnFrom
<1>8. CASE Front2(t)
  <2>1. t2' \in [Threads -> Stamps \union {0}]
    BY <1>8, QueueParts DEF Front2, ReturnFrom
  <2>2. pc' \in [Threads -> Places]
    BY <1>8 DEF Front2, ReturnFrom
  <2> QED
    BY <1>8, <2>1, <2>2 DEF Front2, ReturnFrom
<1>9. CASE Match(t)
  <2>1. /\ queueT1' \in {queueT1, Matched(queueT1, t2[t])}
        /\ queueT2' \in {queueT2, Matched(queueT2, t1[t])}
    BY <1>9 DEF Match
  <2>2. queueT1' \in Seq(Stamps) /\ queueT2' \in Seq(Stamps)
    BY <2>1, MatchedQueues
  <2>3. pc' \in [Threads -> Places] /\ publishMutex' \in Threads \union {NoThread}
    BY <1>9 DEF Match, Decide
  <2> QED
    BY <1>9, <2>2, <2>3 DEF Match
<1>10. CASE PublishData1(t)
  BY <1>10 DEF PublishData1, LockMutex1
<1>11. CASE PublishData2(t)
  <2>1. delivered' \subseteq Stamps \X Stamps
    BY <1>11, QueueParts DEF PublishData2, Deliver
  <2>2. todo' \in [Threads -> SUBSET (0 .. (MaxCallbacks - 1))]
    <3>1. todo' = todo \/ todo' = [todo EXCEPT ![t] = cb]
      BY <1>11 DEF PublishData2, Deliver
    <3>2. todo \in [Threads -> SUBSET (0 .. (MaxCallbacks - 1))]
      OBVIOUS
    <3>3. [todo EXCEPT ![t] = cb] \in [Threads -> SUBSET (0 .. (MaxCallbacks - 1))]
      BY <3>2, CallbacksBounded, UpdatedType, Zenon
    <3> QED
      BY <3>1, <3>2, <3>3
  <2>3. pc' \in [Threads -> Places]
    BY <1>11 DEF PublishData2, Deliver
  <2> QED
    BY <1>11, <2>1, <2>2, <2>3 DEF PublishData2, Deliver
<1>12. CASE FinalizePublish(t)
  BY <1>12 DEF FinalizePublish
<1>13. CASE Finalize1(t)
  BY <1>13 DEF Finalize1, LockMutex1
<1>14. CASE Finalize2(t)
  <2>1. delivered' \subseteq Stamps \X Stamps
    BY <1>14, QueueParts DEF Finalize2, Deliver
  <2>2. todo' \in [Threads -> SUBSET (0 .. (MaxCallbacks - 1))]
    <3>1. todo' = todo \/ todo' = [todo EXCEPT ![t] = cb]
      BY <1>14 DEF Finalize2, Deliver
    <3>2. todo \in [Threads -> SUBSET (0 .. (MaxCallbacks - 1))]
      OBVIOUS
    <3>3. [todo EXCEPT ![t] = cb] \in [Threads -> SUBSET (0 .. (MaxCallbacks - 1))]
      BY <3>2, CallbacksBounded, UpdatedType, Zenon
    <3> QED
      BY <3>1, <3>2, <3>3
  <2>3. pc' \in [Threads -> Places]
    BY <1>14 DEF Finalize2, Deliver
  <2> QED
    BY <1>14, <2>1, <2>2, <2>3 DEF Finalize2, Deliver
<1>15. CASE \E id \in cb : Call(t, id)
  BY <1>15 DEF Call
<1>16. CASE PopFronts(t)
  BY <1>16, QueueParts, SMTT(30) DEF DeliveryDefined, PopFronts, Unlock
<1>17. CASE Reset1(t)
  BY <1>17 DEF Reset1, LockMutex1
<1>18. CASE Reset2(t)
  BY <1>18 DEF Reset2
<1> QED
  BY <1>1, <1>2, <1>3, <1>4, <1>5, <1>6, <1>7, <1>8, <1>9, <1>10, <1>11, <1>12, <1>13, <1>14, <1>15, <1>16, <1>17, <1>18, <1>19 DEF AnyStep, Step, Arrive, Subscribe, Continue

(* Only the holder of publish_mutex_ moves a front. *)
LEMMA SnapshotStep ==
    ASSUME IInv, NEW t \in Threads, Step(t), Resetters = {}
    PROVE  SnapshotCurrent'
<1> USE ConstantsAssumption DEF IInv, BaseInv, Goto, TypeOK, LocksOwned, FrontsDefined, NoReset, SnapshotCurrent, queues, locks, locals, Places, HoldsPublish, HoldsMutex1, HoldsMutex2, Publishing, Finalizing, Delivering
<1>1. CASE \E s \in Stamps : Add0(t, s)
  BY <1>1, AppendKeepsFront DEF Add0
<1>2. CASE \E s \in Stamps : Add1(t, s)
  BY <1>2, AppendKeepsFront DEF Add1
<1>3. CASE Finalize(t)
  BY <1>3 DEF Finalize
<1>4. CASE AddCallback(t)
  BY <1>4 DEF AddCallback
<1>5. CASE \E id \in cb : RemoveCallback(t, id)
  BY <1>5 DEF RemoveCallback
<1>6. CASE StartPublish(t)
  BY <1>6 DEF StartPublish
<1>7. CASE Front1(t)
  BY <1>7 DEF Front1, ReturnFrom
<1>8. CASE Front2(t)
  BY <1>8 DEF Front2, ReturnFrom
<1>9. CASE Match(t)
  <2>1. \A u \in Threads \ {t} : pc'[u] = pc[u] /\ pc[u] \notin HoldsPublish
    BY <1>9 DEF Match, Decide
  <2>2. pc'[t] \in {"publishData1", "idle"}
    BY <1>9 DEF Match, Decide
  <2>3. /\ queueT1' # <<>> /\ queueT2' # <<>>
        /\ IF t1[t] <= t2[t] THEN Head(queueT2') = t2[t] ELSE Head(queueT1') = t1[t]
    <3>1. /\ queueT1 # <<>> /\ queueT2 # <<>>
          /\ Head(queueT1) = t1[t] /\ Head(queueT2) = t2[t]
      BY <1>9 DEF Match, Decide
    <3>2. CASE t1[t] <= t2[t] /\ queueT1' = Matched(queueT1, t2[t]) /\ queueT2' = queueT2
      BY <3>1, <3>2, MatchedQueues
    <3>3. CASE ~(t1[t] <= t2[t]) /\ queueT2' = Matched(queueT2, t1[t]) /\ queueT1' = queueT1
      BY <3>1, <3>3, MatchedQueues
    <3>4. t1[t] \in Nat /\ t2[t] \in Nat
      BY SnapshotsAreNat
    <3> QED
      BY <1>9, <3>2, <3>3, <3>4 DEF Match
  <2> QED
    BY <1>9, <2>1, <2>2, <2>3 DEF Match
<1>10. CASE PublishData1(t)
  BY <1>10 DEF PublishData1, LockMutex1
<1>11. CASE PublishData2(t)
  BY <1>11 DEF PublishData2, Deliver
<1>12. CASE FinalizePublish(t)
  BY <1>12 DEF FinalizePublish
<1>13. CASE Finalize1(t)
  BY <1>13 DEF Finalize1, LockMutex1
<1>14. CASE Finalize2(t)
  BY <1>14 DEF Finalize2, Deliver
<1>15. CASE \E id \in cb : Call(t, id)
  BY <1>15 DEF Call
<1>16. CASE PopFronts(t)
  BY <1>16 DEF PopFronts, Unlock
<1>17. CASE Reset1(t) \/ Reset2(t)
  BY <1>17 DEF Reset1, Reset2, LockMutex1
<1> QED
  BY <1>1, <1>2, <1>3, <1>4, <1>5, <1>6, <1>7, <1>8, <1>9, <1>10, <1>11, <1>12, <1>13, <1>14, <1>15, <1>16, <1>17 DEF Step, Arrive, Subscribe, Continue

(* The map and the fronts do not change while callbacks are being called. *)
LEMMA DeliveryStep ==
    ASSUME BaseInv, NEW t \in Threads, AnyStep(t)
    PROVE  (DeliveryDefined /\ OnlyRegisteredCalled)'
<1> USE ConstantsAssumption DEF BaseInv, Goto, TypeOK, LocksOwned,  DeliveryDefined, OnlyRegisteredCalled, queues, locks, callbacks, locals, Places, HoldsPublish, HoldsMutex1, HoldsMutex2, Publishing, Finalizing, Delivering
<1>1. CASE \E s \in Stamps : Add0(t, s)
  BY <1>1, AppendKeepsFront DEF Add0
<1>2. CASE \E s \in Stamps : Add1(t, s)
  BY <1>2, AppendKeepsFront DEF Add1
<1>3. CASE Finalize(t) \/ Reset(t)
  <2>1. CASE Finalize(t)  BY <2>1 DEF Finalize
  <2>2. CASE Reset(t)  BY <2>2 DEF Reset
  <2> QED  BY <1>3, <2>1, <2>2
<1>4. CASE AddCallback(t)
  BY <1>4 DEF AddCallback
<1>5. CASE \E id \in cb : RemoveCallback(t, id)
  BY <1>5 DEF RemoveCallback
<1>6. CASE StartPublish(t)
  BY <1>6 DEF StartPublish
<1>7. CASE Front1(t)
  BY <1>7 DEF Front1, ReturnFrom
<1>8. CASE Front2(t)
  BY <1>8 DEF Front2, ReturnFrom
<1>9. CASE Match(t)
  <2>1. pc[t] = "match" /\ \A u \in Threads : pc[u] \notin Delivering
    BY <1>9 DEF Match, Decide
  <2>2. pc' \in {[pc EXCEPT ![t] = "publishData1"], [pc EXCEPT ![t] = "idle"]}
    BY <1>9 DEF Match, Decide
  <2>3. \A u \in Threads : pc'[u] \notin Delivering
    BY <2>1, <2>2
  <2>4. UNCHANGED <<todo, cb>>
    BY <1>9 DEF Match
  <2> QED
    BY <2>1, <2>3, <2>4
<1>10. CASE PublishData1(t)
  BY <1>10 DEF PublishData1, LockMutex1
<1>11. CASE PublishData2(t)
  <2>1. \A u \in Threads \ {t} : pc'[u] = pc[u] /\ pc[u] \notin Delivering
    BY <1>11 DEF PublishData2, Deliver
  <2>2. UNCHANGED queues
    BY <1>11 DEF PublishData2, Deliver
  <2>3. \A u \in Threads \ {t} : todo'[u] = todo[u]
    BY <1>11 DEF PublishData2, Deliver
  <2>4. \/ pc'[t] = "call" /\ queueT1 # <<>> /\ queueT2 # <<>>
        \/ pc'[t] = "undefined" /\ todo'[t] = {}
    BY <1>11 DEF PublishData2, Deliver
  <2>5. DeliveryDefined'
    BY <2>1, <2>2, <2>3, <2>4
  <2>6. OnlyRegisteredCalled'
    BY <1>11 DEF PublishData2, Deliver
  <2> QED
    BY <2>5, <2>6
<1>12. CASE FinalizePublish(t)
  BY <1>12 DEF FinalizePublish
<1>13. CASE Finalize1(t)
  BY <1>13 DEF Finalize1, LockMutex1
<1>14. CASE Finalize2(t)
  BY <1>14 DEF Finalize2, Deliver
<1>15. CASE \E id \in cb : Call(t, id)
  BY <1>15 DEF Call
<1>16. CASE PopFronts(t)
  BY <1>16 DEF PopFronts, Unlock
<1>17. CASE Reset1(t)
  BY <1>17 DEF Reset1, LockMutex1
<1>18. CASE Reset2(t)
  BY <1>18 DEF Reset2
<1> QED
  BY <1>1, <1>2, <1>3, <1>4, <1>5, <1>6, <1>7, <1>8, <1>9, <1>10, <1>11, <1>12, <1>13, <1>14, <1>15, <1>16, <1>17, <1>18 DEF AnyStep, Step, Arrive, Subscribe, Continue


-----------------------------------------------------------------------------
LEMMA BaseStep ==
    ASSUME BaseInv, NEW t \in Threads, AnyStep(t)
    PROVE  BaseInv'
BY LocksStep, TypeStep, DeliveryStep DEF BaseInv

LEMMA BaseUnchanged ==
    ASSUME BaseInv, UNCHANGED vars
    PROVE  BaseInv'
BY DEF BaseInv, TypeOK, LocksOwned, DeliveryDefined, OnlyRegisteredCalled, vars, queues,
   locks, callbacks, locals, history

LEMMA NextBaseInv ==
    ASSUME BaseInv, [Next]_vars
    PROVE  BaseInv'
BY BaseStep, BaseUnchanged DEF Next, AnyStep

LEMMA NextIInv ==
    ASSUME IInv, [Next]_vars, Resetters = {}
    PROVE  IInv'
<1>1. ASSUME NEW t \in Threads, Step(t)
      PROVE  IInv'
  BY <1>1, NextBaseInv, PlacesStep, SnapshotStep DEF IInv
<1>2. CASE UNCHANGED vars
  BY <1>2 DEF IInv, BaseInv, TypeOK, LocksOwned, FrontsDefined, NoReset, SnapshotCurrent,
     DeliveryDefined, OnlyRegisteredCalled, vars, queues, locks, callbacks, locals, history
<1> QED
  BY <1>1, <1>2 DEF Next

(* The types, the owners of the mutexes and the callbacks left to call are *)
(* kept by every method, reset() included.                                 *)
THEOREM BaseInvariant == Spec => []BaseInv
<1>1. Init => BaseInv
  BY InitIInv DEF IInv
<1> QED
  BY <1>1, NextBaseInv, PTL DEF Spec

(* Where nobody calls reset(), the invariant holds in every reachable state. *)
THEOREM InductiveInvariant ==
    ASSUME Resetters = {}
    PROVE  Spec => []IInv
<1>1. IInv /\ [Next]_vars => IInv'
  BY NextIInv
<1> QED
  BY <1>1, InitIInv, PTL DEF Spec

(* Every variable of the synchronizer keeps its type. *)
THEOREM TypeCorrect == Spec => []TypeOK
<1>1. BaseInv => TypeOK
  BY DEF BaseInv
<1> QED
  BY <1>1, BaseInvariant, PTL

(* publishData() never takes the front of an empty deque, whatever adders, *)
(* finalizers and subscribers do between publish()'s critical sections.    *)
THEOREM FrontsAlwaysDefined ==
    ASSUME Resetters = {}
    PROVE  Spec => []FrontsDefined
<1>1. IInv => FrontsDefined
  BY DEF IInv
<1> QED
  BY <1>1, InductiveInvariant, PTL

(* The fronts publish() compared are the fronts publishData() hands out. *)
THEOREM SnapshotAlwaysCurrent ==
    ASSUME Resetters = {}
    PROVE  Spec => []SnapshotCurrent
<1>1. IInv => SnapshotCurrent
  BY DEF IInv
<1> QED
  BY <1>1, InductiveInvariant, PTL

(* No callback runs once removeCallback() has returned for it. *)
THEOREM RemovedNeverCalled == Spec => []OnlyRegisteredCalled
<1>1. BaseInv => OnlyRegisteredCalled
  BY DEF BaseInv
<1> QED
  BY <1>1, BaseInvariant, PTL

(* Each mutex is owned by the thread whose place in the code says so. *)
THEOREM LocksAlwaysOwned == Spec => []LocksOwned
<1>1. BaseInv => LocksOwned
  BY DEF BaseInv
<1> QED
  BY <1>1, BaseInvariant, PTL

-----------------------------------------------------------------------------
(* The stream of pairs, with and without reset().  What is queued or was   *)
(* handed out has arrived, and what is queued was not reset; the queues    *)
(* are ordered and younger than what was popped.                           *)
Arrived ==
    /\ \A i \in 1 .. Len(queueT1) : queueT1[i] \in seen1 \ forgotten.stream1
    /\ \A i \in 1 .. Len(queueT2) : queueT2[i] \in seen2 \ forgotten.stream2
    /\ forgotten.stream1 \subseteq seen1 /\ forgotten.stream2 \subseteq seen2
    /\ delivered \subseteq seen1 \X seen2

FreshInv == Arrived /\ QueuesFresh

NobodyDelivers == \A t \in Threads : pc[t] \notin Delivering

(* Match leaves a queue without some of its first entries. *)
LEMMA TrimmedSuffix ==
    ASSUME NEW q \in Seq(Stamps), NEW s \in Nat
    PROVE  \E k \in 0 .. Len(q) :
              /\ Len(Trimmed(q, s)) = Len(q) - k
              /\ \A i \in 1 .. Len(q) - k : Trimmed(q, s)[i] = q[i + k]
<1>1. Len(q) \in Nat
  BY LenProperties
<1>2. CASE q = <<>>
  <2>1. Trimmed(q, s) = q
    BY <1>2 DEF Trimmed
  <2>2. 0 \in 0 .. Len(q) /\ \A i \in 1 .. Len(q) - 0 : i + 0 = i
    BY <1>1
  <2> QED
    BY <1>1, <2>1, <2>2
<1>3. CASE q # <<>>
  <2> DEFINE S == {i \in 1 .. Len(q) : i = Len(q) \/ q[i + 1] > s}
             first == LeastOf(S)
  <2>1. Len(q) >= 1
    BY <1>3
  <2>2. S \subseteq Nat /\ Len(q) \in S
    BY <1>1, <2>1
  <2>3. first \in 1 .. Len(q)
    BY <2>2, LeastOfType
  <2>4. Trimmed(q, s) = SubSeq(q, first, Len(q))
    BY <1>3 DEF Trimmed
  <2> HIDE DEF first
  <2>5. \A i \in first .. Len(q) : q[i] \in Stamps
    BY <1>1, <2>3, ElementOfSeq
  <2>6. /\ Len(SubSeq(q, first, Len(q))) = Len(q) - first + 1
        /\ \A i \in 1 .. Len(q) - first + 1 : SubSeq(q, first, Len(q))[i] = q[first + i - 1]
    BY <1>1, <2>3, <2>5, SubSeqProperties
  <2>7. /\ first - 1 \in 0 .. Len(q) /\ Len(q) - (first - 1) = Len(q) - first + 1
        /\ \A i \in 1 .. Len(q) - (first - 1) : i + (first - 1) = first + i - 1
    BY <1>1, <2>3
  <2>8. \A i \in 1 .. Len(q) - (first - 1) : Trimmed(q, s)[i] = q[i + (first - 1)]
    BY <2>4, <2>6, <2>7
  <2> QED
    BY <2>4, <2>6, <2>7, <2>8
<1> QED
  BY <1>2, <1>3

LEMMA MatchedSuffix ==
    ASSUME NEW q \in Seq(Stamps), NEW s \in Nat
    PROVE  \E k \in 0 .. Len(q) :
              /\ Len(Matched(q, s)) = Len(q) - k
              /\ \A i \in 1 .. Len(q) - k : Matched(q, s)[i] = q[i + k]
<1> DEFINE kept == Trimmed(q, s)
<1>1. kept \in Seq(Stamps) /\ Len(q) \in Nat
  BY TrimmedType, LenProperties
<1>2. PICK k \in 0 .. Len(q) :
         /\ Len(kept) = Len(q) - k
         /\ \A i \in 1 .. Len(q) - k : kept[i] = q[i + k]
  BY TrimmedSuffix
<1> HIDE DEF kept
<1>3. CASE Len(kept) > 1 /\ SecondIsCloser(kept, s)
  <2>1. kept # <<>>
    BY <1>3, EmptySeq
  <2>2. /\ Len(Tail(kept)) = Len(kept) - 1
        /\ \A i \in 1 .. Len(Tail(kept)) : Tail(kept)[i] = kept[i + 1]
    BY <1>1, <2>1, HeadTailProperties
  <2>3. Matched(q, s) = Tail(kept)
    BY <1>3 DEF Matched, kept
  <2>4. k + 1 \in 0 .. Len(q) /\ Len(kept) - 1 = Len(q) - (k + 1)
    BY <1>1, <1>2, <1>3
  <2>5. \A i \in 1 .. Len(q) - (k + 1) : Tail(kept)[i] = q[i + (k + 1)]
    <3> TAKE i \in 1 .. Len(q) - (k + 1)
    <3>1. i \in 1 .. Len(Tail(kept)) /\ i + 1 \in 1 .. Len(q) - k /\ (i + 1) + k = i + (k + 1)
      BY <1>1, <1>2, <2>2, <2>4
    <3> QED
      BY <1>2, <2>2, <3>1
  <2> QED
    BY <2>2, <2>3, <2>4, <2>5
<1>4. CASE ~(Len(kept) > 1 /\ SecondIsCloser(kept, s))
  BY <1>2, <1>4 DEF Matched, kept
<1> QED
  BY <1>3, <1>4

LEMMA OrderedSuffix ==
    ASSUME NEW q \in Seq(Stamps), NEW r \in Seq(Stamps), NEW k \in 0 .. Len(q), Ordered(q),
           Len(r) = Len(q) - k, \A i \in 1 .. Len(q) - k : r[i] = q[i + k]
    PROVE  Ordered(r) /\ \A i \in 1 .. Len(r) : i + k \in 1 .. Len(q) /\ r[i] = q[i + k]
<1>1. Len(q) \in Nat
  BY LenProperties
<1>2. \A i \in 1 .. Len(r) : i + k \in 1 .. Len(q) /\ r[i] = q[i + k]
  BY <1>1
<1>3. \A i, j \in 1 .. Len(r) : i < j => i + k < j + k
  BY <1>1
<1> QED
  BY <1>2, <1>3 DEF Ordered

(* Most steps change neither the queues nor what was seen of the stream. *)
Quiet ==
    /\ UNCHANGED <<queueT1, queueT2, seen1, seen2, delivered, forgotten>>
    /\ \A t \in Threads : pc'[t] \in Delivering <=> pc[t] \in Delivering

HandsOut(t) ==
    /\ pc[t] \notin Delivering /\ mutex2 = NoThread
    /\ pc' = [pc EXCEPT ![t] = pc'[t]] /\ pc'[t] \in Delivering
    /\ queueT1 # <<>> /\ queueT2 # <<>>
    /\ delivered' = delivered \union {<<Head(queueT1), Head(queueT2)>>}
    /\ UNCHANGED <<queueT1, queueT2, seen1, seen2, forgotten>>

LEMMA StepKinds ==
    ASSUME BaseInv, NEW t \in Threads, Step(t)
    PROVE  \/ \E s \in Stamps : Pairs!Younger(s, seen1) /\ Add0(t, s)
           \/ \E s \in Stamps : Pairs!Younger(s, seen2) /\ Add1(t, s)
           \/ Match(t)
           \/ HandsOut(t)
           \/ PopFronts(t)
           \/ Reset2(t)
           \/ Quiet
<1>1. pc \in [Threads -> Places]
  BY DEF BaseInv, TypeOK
<1> USE <1>1 DEF Goto, queues, locks, callbacks, locals, history, Delivering, Quiet
<1>2. CASE Arrive(t)
  BY <1>2 DEF Arrive
<1>3. CASE Finalize(t) \/ Reset(t)
  BY <1>3 DEF Finalize, Reset
<1>4. CASE AddCallback(t)
  BY <1>4 DEF AddCallback
<1>5. CASE \E id \in cb : RemoveCallback(t, id)
  BY <1>5 DEF RemoveCallback
<1>6. CASE StartPublish(t)
  BY <1>6 DEF StartPublish
<1>7. CASE Front1(t)
  BY <1>7 DEF Front1, ReturnFrom
<1>8. CASE Front2(t)
  BY <1>8 DEF Front2, ReturnFrom
<1>10. CASE PublishData1(t)
  BY <1>10 DEF PublishData1, LockMutex1
<1>11. CASE PublishData2(t)
  <2>1. CASE queueT1 # <<>> /\ queueT2 # <<>> /\ Deliver(t, "publishData2", "call")
    BY <1>11, <2>1 DEF PublishData2, Deliver, HandsOut
  <2>2. CASE queueT1 = <<>> \/ queueT2 = <<>>
    BY <1>11, <2>2 DEF PublishData2
  <2> QED
    BY <1>11, <2>1, <2>2 DEF PublishData2
<1>12. CASE FinalizePublish(t)
  BY <1>12 DEF FinalizePublish
<1>13. CASE Finalize1(t)
  BY <1>13 DEF Finalize1, LockMutex1
<1>14. CASE Finalize2(t)
  <2>1. CASE queueT1 # <<>> /\ queueT2 # <<>> /\ Deliver(t, "finalize2", "finalCall")
    BY <1>14, <2>1 DEF Finalize2, Deliver, HandsOut
  <2>2. CASE ~(queueT1 # <<>> /\ queueT2 # <<>> /\ Deliver(t, "finalize2", "finalCall"))
    BY <1>14, <2>2 DEF Finalize2
  <2> QED
    BY <2>1, <2>2
<1>15. CASE \E id \in cb : Call(t, id)
  BY <1>15 DEF Call
<1>17. CASE Reset1(t)
  BY <1>17 DEF Reset1, LockMutex1
<1> QED
  BY <1>2, <1>3, <1>4, <1>5, <1>6, <1>7, <1>8, <1>10, <1>11, <1>12, <1>13, <1>14, <1>15, <1>17
     DEF Step, Subscribe, Continue

(* Whoever adds, trims or hands out finds nobody delivering. *)
LEMMA AloneWithQueues ==
    ASSUME BaseInv, NEW t \in Threads,
           mutex1 = NoThread \/ mutex2 = NoThread \/ pc[t] = "match"
    PROVE  NobodyDelivers
<1>1. \A u \in Threads : pc[u] \in Delivering => mutex1 = u /\ mutex2 = u /\ publishMutex = u
  BY DEF BaseInv, LocksOwned, HoldsPublish, HoldsMutex1, HoldsMutex2, Publishing,
     Finalizing, Delivering
<1>2. pc[t] = "match" => publishMutex = t
  BY DEF BaseInv, LocksOwned, HoldsPublish, Publishing
<1>3. NoThread \notin Threads
  BY ConstantsAssumption
<1> QED
  BY <1>1, <1>2, <1>3 DEF NobodyDelivers, Delivering

(* Nothing comes into the second queue but what is younger than all that   *)
(* had arrived.                                                            *)
LEMMA SecondQueueStep ==
    ASSUME BaseInv, NEW t \in Threads, Step(t)
    PROVE  /\ seen2 \subseteq seen2'
           /\ \A j \in 1 .. Len(queueT2') :
                 \/ \E i \in 1 .. Len(queueT2) : queueT2'[j] = queueT2[i]
                 \/ Pairs!Younger(queueT2'[j], seen2)
<1> DEFINE q == queueT2
<1>1. q \in Seq(Stamps) /\ Len(q) \in Nat /\ t1[t] \in Nat
  BY LenProperties, SnapshotsAreNat DEF BaseInv, TypeOK
<1>2. CASE queueT2' = q /\ seen2' = seen2
  BY <1>2
<1>3. ASSUME NEW s \in Stamps, Pairs!Younger(s, seen2), Add1(t, s)
      PROVE  /\ seen2 \subseteq seen2'
             /\ \A j \in 1 .. Len(queueT2') :
                   (\E i \in 1 .. Len(q) : queueT2'[j] = q[i]) \/ Pairs!Younger(queueT2'[j], seen2)
  <2>1. queueT2' = Append(q, s) /\ seen2 \subseteq seen2'
    BY <1>3 DEF Add1
  <2>2. /\ Len(queueT2') = Len(q) + 1 /\ queueT2'[Len(q) + 1] = s
        /\ \A i \in 1 .. Len(q) : queueT2'[i] = q[i]
    BY <1>1, <2>1, AppendProperties
  <2>3. \A j \in 1 .. Len(q) + 1 : j \in 1 .. Len(q) \/ j = Len(q) + 1
    BY <1>1
  <2> QED
    BY <1>3, <2>1, <2>2, <2>3
<1>4. ASSUME NEW k \in 0 .. Len(q), Len(queueT2') = Len(q) - k, seen2' = seen2,
             \A i \in 1 .. Len(q) - k : queueT2'[i] = q[i + k]
      PROVE  /\ seen2 \subseteq seen2'
             /\ \A j \in 1 .. Len(queueT2') : \E i \in 1 .. Len(q) : queueT2'[j] = q[i]
  <2>1. \A j \in 1 .. Len(queueT2') : j + k \in 1 .. Len(q) /\ queueT2'[j] = q[j + k]
    BY <1>1, <1>4
  <2> QED
    BY <1>4, <2>1
<1>5. CASE Match(t)
  <2>1. seen2' = seen2 /\ (queueT2' = q \/ queueT2' = Matched(q, t1[t]))
    BY <1>5 DEF Match, history
  <2>2. PICK k \in 0 .. Len(q) : /\ Len(Matched(q, t1[t])) = Len(q) - k
                                 /\ \A i \in 1 .. Len(q) - k : Matched(q, t1[t])[i] = q[i + k]
    BY <1>1, MatchedSuffix
  <2> QED
    BY <1>2, <1>4, <2>1, <2>2
<1>6. CASE PopFronts(t)
  <2>1. q # <<>> /\ queueT2' = Tail(q) /\ seen2' = seen2
    BY <1>6 DEF PopFronts, Unlock, Goto, history, BaseInv, DeliveryDefined
  <2>2. /\ Len(Tail(q)) = Len(q) - 1 /\ 1 \in 0 .. Len(q)
        /\ \A i \in 1 .. Len(q) - 1 : Tail(q)[i] = q[i + 1]
    BY <1>1, <2>1, HeadTailProperties, EmptySeq
  <2> QED
    BY <1>4, <2>1, <2>2
<1>7. CASE Reset2(t)
  <2>1. queueT2' = <<>> /\ seen2' = seen2 /\ \A j \in 1 .. Len(<<>>) : FALSE
    BY <1>7 DEF Reset2
  <2> QED
    BY <2>1
<1> QED
  BY <1>2, <1>3, <1>5, <1>6, <1>7, StepKinds DEF Add0, HandsOut, Quiet

(* Everything in the queues is younger than everything in S. *)
YoungerQueues(S) ==
    \A p \in S :
        /\ \A i \in 1 .. Len(queueT1) : p[1] < queueT1[i]
        /\ \A i \in 1 .. Len(queueT2) : p[2] < queueT2[i]

LEMMA FreshFacts ==
    ASSUME BaseInv, FreshInv
    PROVE  /\ Ordered(queueT1) /\ Ordered(queueT2)
           /\ NobodyDelivers => YoungerQueues(delivered)
           /\ ~NobodyDelivers => YoungerQueues(delivered \ {<<Head(queueT1), Head(queueT2)>>})
BY DEF FreshInv, QueuesFresh, Popped, NobodyDelivers, YoungerQueues

LEMMA FreshAdd0 ==
    ASSUME BaseInv, FreshInv, NEW t \in Threads, NEW s \in Stamps,
           Pairs!Younger(s, seen1), Add0(t, s)
    PROVE  FreshInv'
<1> DEFINE q == queueT1
           n == Len(q)
<1>1. NobodyDelivers /\ NobodyDelivers'
  <2>1. NobodyDelivers
    BY AloneWithQueues DEF Add0
  <2> QED
    BY <2>1 DEF Add0, Goto, NobodyDelivers, Delivering, BaseInv, TypeOK
<1>2. /\ q \in Seq(Stamps) /\ n \in Nat /\ Ordered(q) /\ Ordered(queueT2)
      /\ YoungerQueues(delivered) /\ \A x \in seen1 : x < s
  BY <1>1, FreshFacts, LenProperties DEF BaseInv, TypeOK, Pairs!Younger
<1>3. /\ queueT1' = Append(q, s) /\ seen1' = seen1 \union {s}
      /\ UNCHANGED <<queueT2, seen2, delivered, forgotten>>
  BY DEF Add0
<1>4. /\ Len(queueT1') = n + 1 /\ queueT1'[n + 1] = s
      /\ \A i \in 1 .. n : queueT1'[i] = q[i]
  BY <1>2, <1>3, AppendProperties
<1>5. \A i \in 1 .. n : q[i] \in seen1 \ forgotten.stream1 /\ q[i] < s
  BY <1>2 DEF FreshInv, Arrived
<1>6. \A i \in 1 .. n + 1 : i \in 1 .. n \/ i = n + 1
  BY <1>2
<1> HIDE DEF q, n
<1>7. Arrived'
  <2>1. forgotten.stream1 \subseteq seen1
    BY DEF FreshInv, Arrived
  <2>2. s \notin seen1
    <3>1. s \in Nat
      BY StampsAreNat
    <3> QED
      BY <1>2, <3>1
  <2>3. \A i \in 1 .. n + 1 : queueT1'[i] \in seen1' \ forgotten'.stream1
    BY <1>3, <1>4, <1>5, <1>6, <2>1, <2>2
  <2> QED
    BY <1>3, <1>4, <2>3 DEF FreshInv, Arrived
<1>8. Ordered(queueT1')
  <2> SUFFICES ASSUME NEW i \in 1 .. n + 1, NEW j \in 1 .. n + 1, i < j
               PROVE  queueT1'[i] < queueT1'[j]
    BY <1>4 DEF Ordered
  <2>1. i \in 1 .. n
    BY <1>2
  <2> QED
    BY <1>2, <1>4, <1>5, <1>6, <2>1 DEF Ordered, n
<1>9. \A p \in delivered : \A i \in 1 .. n + 1 : p[1] < queueT1'[i]
  <2> TAKE p \in delivered
  <2>1. p[1] \in seen1
    BY DEF FreshInv, Arrived
  <2>2. \A i \in 1 .. n : p[1] < q[i]
    BY <1>2 DEF YoungerQueues, q, n
  <2> QED
    BY <1>2, <1>4, <1>6, <2>1, <2>2
<1>10. QueuesFresh'
  BY <1>1, <1>2, <1>3, <1>4, <1>8, <1>9 DEF QueuesFresh, Popped, NobodyDelivers, YoungerQueues
<1> QED
  BY <1>7, <1>10 DEF FreshInv

LEMMA FreshAdd1 ==
    ASSUME BaseInv, FreshInv, NEW t \in Threads, NEW s \in Stamps,
           Pairs!Younger(s, seen2), Add1(t, s)
    PROVE  FreshInv'
<1> DEFINE q == queueT2
           n == Len(q)
<1>1. NobodyDelivers /\ NobodyDelivers'
  <2>1. NobodyDelivers
    BY AloneWithQueues DEF Add1
  <2> QED
    BY <2>1 DEF Add1, Goto, NobodyDelivers, Delivering, BaseInv, TypeOK
<1>2. /\ q \in Seq(Stamps) /\ n \in Nat /\ Ordered(q) /\ Ordered(queueT1)
      /\ YoungerQueues(delivered) /\ \A x \in seen2 : x < s
  BY <1>1, FreshFacts, LenProperties DEF BaseInv, TypeOK, Pairs!Younger
<1>3. /\ queueT2' = Append(q, s) /\ seen2' = seen2 \union {s}
      /\ UNCHANGED <<queueT1, seen1, delivered, forgotten>>
  BY DEF Add1
<1>4. /\ Len(queueT2') = n + 1 /\ queueT2'[n + 1] = s
      /\ \A i \in 1 .. n : queueT2'[i] = q[i]
  BY <1>2, <1>3, AppendProperties
<1>5. \A i \in 1 .. n : q[i] \in seen2 \ forgotten.stream2 /\ q[i] < s
  BY <1>2 DEF FreshInv, Arrived
<1>6. \A i \in 1 .. n + 1 : i \in 1 .. n \/ i = n + 1
  BY <1>2
<1> HIDE DEF q, n
<1>7. Arrived'
  <2>1. forgotten.stream2 \subseteq seen2
    BY DEF FreshInv, Arrived
  <2>2. s \notin seen2
    <3>1. s \in Nat
      BY StampsAreNat
    <3> QED
      BY <1>2, <3>1
  <2>3. \A i \in 1 .. n + 1 : queueT2'[i] \in seen2' \ forgotten'.stream2
    BY <1>3, <1>4, <1>5, <1>6, <2>1, <2>2
  <2> QED
    BY <1>3, <1>4, <2>3 DEF FreshInv, Arrived
<1>8. Ordered(queueT2')
  <2> SUFFICES ASSUME NEW i \in 1 .. n + 1, NEW j \in 1 .. n + 1, i < j
               PROVE  queueT2'[i] < queueT2'[j]
    BY <1>4 DEF Ordered
  <2>1. i \in 1 .. n
    BY <1>2
  <2> QED
    BY <1>2, <1>4, <1>5, <1>6, <2>1 DEF Ordered, n
<1>9. \A p \in delivered : \A i \in 1 .. n + 1 : p[2] < queueT2'[i]
  <2> TAKE p \in delivered
  <2>1. p[2] \in seen2
    BY DEF FreshInv, Arrived
  <2>2. \A i \in 1 .. n : p[2] < q[i]
    BY <1>2 DEF YoungerQueues, q, n
  <2> QED
    BY <1>2, <1>4, <1>6, <2>1, <2>2
<1>10. QueuesFresh'
  BY <1>1, <1>2, <1>3, <1>4, <1>8, <1>9 DEF QueuesFresh, Popped, NobodyDelivers, YoungerQueues
<1> QED
  BY <1>7, <1>10 DEF FreshInv

LEMMA FreshMatch1 ==
    ASSUME BaseInv, FreshInv, NEW t \in Threads, NEW s \in Nat, Match(t),
           queueT1' = Matched(queueT1, s), queueT2' = queueT2
    PROVE  FreshInv'
<1>1. NobodyDelivers /\ NobodyDelivers'
  <2>1. NobodyDelivers
    BY AloneWithQueues DEF Match, Decide, Goto
  <2> QED
    BY <2>1 DEF Match, Decide, Goto, NobodyDelivers, Delivering, BaseInv, TypeOK
<1>2. /\ queueT1 \in Seq(Stamps) /\ Ordered(queueT1) /\ Ordered(queueT2)
      /\ YoungerQueues(delivered)
  BY <1>1, FreshFacts DEF BaseInv, TypeOK
<1>3. UNCHANGED <<seen1, seen2, delivered, forgotten>>
  BY DEF Match, history
<1>4. queueT1' \in Seq(Stamps)
  BY <1>2, MatchedType
<1>5. PICK k \in 0 .. Len(queueT1) :
         /\ Len(queueT1') = Len(queueT1) - k
         /\ \A i \in 1 .. Len(queueT1) - k : queueT1'[i] = queueT1[i + k]
  BY <1>2, MatchedSuffix
<1>6. /\ Ordered(queueT1')
      /\ \A i \in 1 .. Len(queueT1') : i + k \in 1 .. Len(queueT1)
                                      /\ queueT1'[i] = queueT1[i + k]
  BY <1>2, <1>4, <1>5, OrderedSuffix
<1>7. Arrived'
  BY <1>3, <1>6 DEF FreshInv, Arrived
<1>8. YoungerQueues(delivered)'
  BY <1>2, <1>3, <1>6 DEF YoungerQueues
<1>9. QueuesFresh'
  BY <1>1, <1>2, <1>6, <1>8 DEF QueuesFresh, Popped, NobodyDelivers, YoungerQueues
<1> QED
  BY <1>7, <1>9 DEF FreshInv

LEMMA FreshMatch2 ==
    ASSUME BaseInv, FreshInv, NEW t \in Threads, NEW s \in Nat, Match(t),
           queueT2' = Matched(queueT2, s), queueT1' = queueT1
    PROVE  FreshInv'
<1>1. NobodyDelivers /\ NobodyDelivers'
  <2>1. NobodyDelivers
    BY AloneWithQueues DEF Match, Decide, Goto
  <2> QED
    BY <2>1 DEF Match, Decide, Goto, NobodyDelivers, Delivering, BaseInv, TypeOK
<1>2. /\ queueT2 \in Seq(Stamps) /\ Ordered(queueT2) /\ Ordered(queueT1)
      /\ YoungerQueues(delivered)
  BY <1>1, FreshFacts DEF BaseInv, TypeOK
<1>3. UNCHANGED <<seen1, seen2, delivered, forgotten>>
  BY DEF Match, history
<1>4. queueT2' \in Seq(Stamps)
  BY <1>2, MatchedType
<1>5. PICK k \in 0 .. Len(queueT2) :
         /\ Len(queueT2') = Len(queueT2) - k
         /\ \A i \in 1 .. Len(queueT2) - k : queueT2'[i] = queueT2[i + k]
  BY <1>2, MatchedSuffix
<1>6. /\ Ordered(queueT2')
      /\ \A i \in 1 .. Len(queueT2') : i + k \in 1 .. Len(queueT2)
                                      /\ queueT2'[i] = queueT2[i + k]
  BY <1>2, <1>4, <1>5, OrderedSuffix
<1>7. Arrived'
  BY <1>3, <1>6 DEF FreshInv, Arrived
<1>8. YoungerQueues(delivered)'
  BY <1>2, <1>3, <1>6 DEF YoungerQueues
<1>9. QueuesFresh'
  BY <1>1, <1>2, <1>6, <1>8 DEF QueuesFresh, Popped, NobodyDelivers, YoungerQueues
<1> QED
  BY <1>7, <1>9 DEF FreshInv

LEMMA FreshHandOut ==
    ASSUME BaseInv, FreshInv, NEW t \in Threads, HandsOut(t)
    PROVE  /\ FreshInv'
           /\ Pairs!HandOut(Head(queueT1), Head(queueT2))
           /\ Head(queueT1) \in Stamps \ forgotten.stream1
           /\ Head(queueT2) \in Stamps \ forgotten.stream2
<1> DEFINE a == Head(queueT1)
           b == Head(queueT2)
<1>1. NobodyDelivers /\ ~NobodyDelivers'
  <2>1. NobodyDelivers
    BY AloneWithQueues DEF HandsOut
  <2> QED
    BY <2>1 DEF HandsOut, NobodyDelivers
<1>2. /\ queueT1 \in Seq(Stamps) /\ Ordered(queueT1) /\ queueT1 # <<>>
      /\ queueT2 \in Seq(Stamps) /\ Ordered(queueT2) /\ queueT2 # <<>>
      /\ YoungerQueues(delivered)
  BY <1>1, FreshFacts DEF BaseInv, TypeOK, HandsOut
<1>3. /\ UNCHANGED <<queueT1, queueT2, seen1, seen2, forgotten>>
      /\ delivered' = delivered \union {<<a, b>>}
  BY DEF HandsOut
<1>4. /\ a = queueT1[1] /\ 1 \in 1 .. Len(queueT1) /\ a \in Stamps
      /\ b = queueT2[1] /\ 1 \in 1 .. Len(queueT2) /\ b \in Stamps
  BY <1>2, HeadTailProperties, LenProperties, EmptySeq
<1> HIDE DEF a, b
<1>5. a \in seen1 \ forgotten.stream1 /\ b \in seen2 \ forgotten.stream2
  BY <1>4 DEF FreshInv, Arrived
<1>6. Arrived'
  BY <1>3, <1>5 DEF FreshInv, Arrived
<1>7. \A p \in delivered : p[1] < a /\ p[2] < b
  BY <1>2, <1>4 DEF YoungerQueues
<1>8. QueuesFresh'
  <2>1. Popped' \subseteq delivered
    BY <1>1, <1>3 DEF Popped, NobodyDelivers, a, b
  <2> QED
    BY <1>2, <1>3, <2>1 DEF QueuesFresh, YoungerQueues
<1>9. Pairs!HandOut(a, b)
  BY <1>3, <1>5, <1>7 DEF Pairs!HandOut
<1> QED
  BY <1>4, <1>5, <1>6, <1>8, <1>9 DEF FreshInv, a, b

LEMMA FreshPop ==
    ASSUME BaseInv, FreshInv, NEW t \in Threads, PopFronts(t)
    PROVE  FreshInv'
<1> DEFINE rest1 == Tail(queueT1)
           rest2 == Tail(queueT2)
<1>1. pc[t] \in Delivering /\ pc' = [pc EXCEPT ![t] = "idle"]
  BY DEF PopFronts, Unlock, Goto
<1>2. ~NobodyDelivers /\ NobodyDelivers'
  <2>1. \A u \in Threads : pc[u] \in Delivering => mutex1 = u
    BY DEF BaseInv, LocksOwned, HoldsMutex1, Delivering
  <2>2. \A u \in Threads : pc'[u] \notin Delivering
    BY <1>1, <2>1 DEF BaseInv, TypeOK, Delivering
  <2> QED
    BY <1>1, <2>2 DEF NobodyDelivers
<1>3. /\ queueT1 \in Seq(Stamps) /\ queueT1 # <<>> /\ Ordered(queueT1) /\ Len(queueT1) \in Nat \ {0}
      /\ queueT2 \in Seq(Stamps) /\ queueT2 # <<>> /\ Ordered(queueT2) /\ Len(queueT2) \in Nat \ {0}
      /\ YoungerQueues(delivered \ {<<Head(queueT1), Head(queueT2)>>})
  BY <1>1, <1>2, FreshFacts, LenProperties, EmptySeq DEF BaseInv, TypeOK, DeliveryDefined
<1>4. queueT1' = rest1 /\ queueT2' = rest2
      /\ UNCHANGED <<seen1, seen2, delivered, forgotten>>
  BY DEF PopFronts, history
<1>5. /\ Head(queueT1) = queueT1[1] /\ rest1 \in Seq(Stamps) /\ Len(rest1) = Len(queueT1) - 1
      /\ \A i \in 1 .. Len(rest1) : rest1[i] = queueT1[i + 1]
      /\ Head(queueT2) = queueT2[1] /\ rest2 \in Seq(Stamps) /\ Len(rest2) = Len(queueT2) - 1
      /\ \A i \in 1 .. Len(rest2) : rest2[i] = queueT2[i + 1]
  BY <1>3, HeadTailProperties
<1> HIDE DEF rest1, rest2
<1>6. /\ Ordered(rest1) /\ \A i \in 1 .. Len(rest1) : i + 1 \in 1 .. Len(queueT1)
      /\ Ordered(rest2) /\ \A i \in 1 .. Len(rest2) : i + 1 \in 1 .. Len(queueT2)
  <2>1. 1 \in 0 .. Len(queueT1) /\ 1 \in 0 .. Len(queueT2)
    BY <1>3
  <2> QED
    BY <1>3, <1>5, <2>1, OrderedSuffix
<1>7. Arrived'
  BY <1>4, <1>5, <1>6 DEF FreshInv, Arrived
<1>8. \A p \in delivered : /\ \A i \in 1 .. Len(rest1) : p[1] < rest1[i]
                          /\ \A i \in 1 .. Len(rest2) : p[2] < rest2[i]
  <2> TAKE p \in delivered
  <2>1. CASE p = <<Head(queueT1), Head(queueT2)>>
    <3>1. p[1] = queueT1[1] /\ p[2] = queueT2[1]
      BY <1>5, <2>1
    <3>2. /\ 1 \in 1 .. Len(queueT1) /\ \A i \in 1 .. Len(rest1) : 1 < i + 1
          /\ 1 \in 1 .. Len(queueT2) /\ \A i \in 1 .. Len(rest2) : 1 < i + 1
      BY <1>3
    <3> QED
      BY <1>3, <1>5, <1>6, <3>1, <3>2 DEF Ordered
  <2>2. CASE p # <<Head(queueT1), Head(queueT2)>>
    BY <1>3, <1>5, <1>6, <2>2 DEF YoungerQueues
  <2> QED
    BY <2>1, <2>2
<1>9. QueuesFresh'
  BY <1>2, <1>4, <1>6, <1>8 DEF QueuesFresh, Popped, NobodyDelivers
<1> QED
  BY <1>7, <1>9 DEF FreshInv

(* reset() empties both queues and forgets all that has arrived. *)
LEMMA FreshReset ==
    ASSUME BaseInv, FreshInv, NEW t \in Threads, Reset2(t)
    PROVE  FreshInv'
<1>1. /\ queueT1' = <<>> /\ queueT2' = <<>>
      /\ UNCHANGED <<seen1, seen2, delivered>>
      /\ forgotten'.stream1 = seen1 /\ forgotten'.stream2 = seen2
  BY DEF Reset2
<1>2. \A i \in 1 .. Len(<<>>) : FALSE
  OBVIOUS
<1>3. Arrived'
  BY <1>1, <1>2 DEF FreshInv, Arrived
<1>4. QueuesFresh'
  BY <1>1, <1>2 DEF QueuesFresh, Ordered
<1> QED
  BY <1>3, <1>4 DEF FreshInv

LEMMA FreshQuiet ==
    ASSUME FreshInv, Quiet
    PROVE  FreshInv'
<1>1. (\E t \in Threads : pc'[t] \in Delivering) <=> (\E t \in Threads : pc[t] \in Delivering)
  BY DEF Quiet
<1>2. Popped' = Popped
  BY <1>1 DEF Quiet, Popped
<1> QED
  BY <1>2 DEF Quiet, FreshInv, Arrived, QueuesFresh, Ordered

LEMMA FreshInit == Init => FreshInv
<1> SUFFICES ASSUME Init PROVE FreshInv
  OBVIOUS
<1>1. queueT1 = <<>> /\ queueT2 = <<>> /\ seen1 = {} /\ seen2 = {} /\ delivered = {}
      /\ forgotten = [stream1 |-> {}, stream2 |-> {}]
  BY DEF Init
<1>2. \A i \in 1 .. Len(<<>>) : FALSE
  OBVIOUS
<1>3. Popped = {}
  BY <1>1 DEF Popped
<1> QED
  BY <1>1, <1>2, <1>3 DEF FreshInv, Arrived, QueuesFresh, Ordered

(* Every step keeps the queues fresh, and is one of the stream or none. *)
LEMMA StreamStep ==
    ASSUME BaseInv, FreshInv, [Next]_vars
    PROVE  /\ FreshInv'
           /\ [Pairs!StreamNext]_Pairs!streamVars
           /\ \A p \in delivered' \ delivered :
                 p[1] \notin forgotten.stream1 /\ p[2] \notin forgotten.stream2
<1> DEFINE NotForgotten == \A p \in delivered' \ delivered :
                              p[1] \notin forgotten.stream1 /\ p[2] \notin forgotten.stream2
<1> USE DEF Pairs!StreamNext, Pairs!streamVars
<1>1. ASSUME NEW t \in Threads, Step(t)
      PROVE  FreshInv' /\ [Pairs!StreamNext]_Pairs!streamVars /\ NotForgotten
  <2>1. ASSUME NEW s \in Stamps, Pairs!Younger(s, seen1), Add0(t, s)
        PROVE  FreshInv' /\ Pairs!Arrive1(s) /\ NotForgotten
    BY <2>1, FreshAdd0 DEF Pairs!Arrive1, Pairs!Younger, Add0
  <2>2. ASSUME NEW s \in Stamps, Pairs!Younger(s, seen2), Add1(t, s)
        PROVE  FreshInv' /\ Pairs!Arrive2(s) /\ NotForgotten
    BY <2>2, FreshAdd1 DEF Pairs!Arrive2, Pairs!Younger, Add1
  <2>3. CASE Match(t)
    <3>1. t1[t] \in Nat /\ t2[t] \in Nat
      BY SnapshotsAreNat DEF BaseInv
    <3>2. \/ queueT1' = Matched(queueT1, t2[t]) /\ queueT2' = queueT2
          \/ queueT2' = Matched(queueT2, t1[t]) /\ queueT1' = queueT1
      BY <2>3 DEF Match
    <3>3. FreshInv'
      BY <2>3, <3>1, <3>2, FreshMatch1, FreshMatch2
    <3> QED
      BY <2>3, <3>3 DEF Match, history
  <2>4. CASE HandsOut(t)
    <3>1. /\ FreshInv' /\ Pairs!HandOut(Head(queueT1), Head(queueT2))
          /\ Head(queueT1) \in Stamps \ forgotten.stream1
          /\ Head(queueT2) \in Stamps \ forgotten.stream2
      BY <2>4, FreshHandOut
    <3>2. NotForgotten
      BY <2>4, <3>1 DEF HandsOut
    <3> QED
      BY <3>1, <3>2
  <2>5. CASE PopFronts(t)
    BY <2>5, FreshPop DEF PopFronts, history
  <2>6. CASE Reset2(t)
    BY <2>6, FreshReset DEF Reset2
  <2>7. CASE Quiet
    BY <2>7, FreshQuiet DEF Quiet
  <2> QED
    BY <1>1, <2>1, <2>2, <2>3, <2>4, <2>5, <2>6, <2>7, StepKinds
<1>2. CASE UNCHANGED vars
  BY <1>2 DEF vars, queues, history, FreshInv, Arrived, QueuesFresh, Ordered, Popped
<1> QED
  BY <1>1, <1>2 DEF Next

(* The queues stay fresh, whoever adds, finalizes or resets. *)
THEOREM FreshInvariant == Spec => [](BaseInv /\ FreshInv)
<1>1. BaseInv /\ FreshInv /\ [Next]_vars => FreshInv'
  BY StreamStep
<1> QED
  BY <1>1, BaseInvariant, FreshInit, PTL DEF Spec

(* Whatever is trimmed, popped or added while others publish, the queues   *)
(* stay in order and hold nothing as old as a pair that was popped.        *)
THEOREM QueuesAlwaysFresh == Spec => []QueuesFresh
<1>1. BaseInv /\ FreshInv => QueuesFresh
  BY DEF FreshInv
<1> QED
  BY <1>1, FreshInvariant, PTL

(* What had arrived before a reset() is not handed out after it, even by a *)
(* publisher that looked at the queues before the reset.                   *)
THEOREM ForgottenNeverDelivered == Spec => ForgottenNotDelivered
<1>1. BaseInv /\ FreshInv /\ [Next]_vars
        => [\A p \in delivered' \ delivered :
              p[1] \notin forgotten.stream1 /\ p[2] \notin forgotten.stream2]_vars
  BY StreamStep
<1> QED
  BY <1>1, FreshInvariant, PTL DEF Spec, ForgottenNotDelivered

(* The three mutexes implement the stream of pairs their users rely on:    *)
(* pairs of data that arrived, none handed out twice or out of order.      *)
THEOREM ImplementsPairStream == Spec => PairsInOrder
<1>1. Init => Pairs!StreamInit
  BY DEF Init, Pairs!StreamInit
<1>2. BaseInv /\ FreshInv /\ [Next]_vars => [Pairs!StreamNext]_Pairs!streamVars
  BY StreamStep
<1> QED
  BY <1>1, <1>2, FreshInvariant, PTL DEF Spec, PairsInOrder, Pairs!StreamSpec

-----------------------------------------------------------------------------
(* publish() joins the closest data.  What was dropped of a stream without *)
(* having been handed out is no nearer to the other stream's front than    *)
(* the own front is: the sum of the two is at most twice the other front.  *)
(* A publisher that goes on to publishData() has left an entry behind the  *)
(* front that is no nearer either.  The stamps are assumed to be so small  *)
(* that the doubled ones do not wrap around.                               *)
NoWrap == \A s \in Stamps : 2 * s < Modulus

InQueue(q, x) == \E i \in 1 .. Len(q) : q[i] = x

Near(q, other, seen, popped) ==
    \A x \in seen : (\A y \in popped : y < x) =>
        \/ InQueue(q, x)
        \/ q # <<>> /\ other # <<>> /\ x < q[1] /\ x + q[1] <= 2 * other[1]

Popped1 == {p[1] : p \in Popped}
Popped2 == {p[2] : p \in Popped}

NearInv ==
    /\ Near(queueT1, queueT2, seen1, Popped1)
    /\ Near(queueT2, queueT1, seen2, Popped2)

NextFar(q, s) == q # <<>> /\ (q[1] >= s \/ (Len(q) >= 2 /\ q[1] + q[2] >= 2 * s))

FarInv ==
    \A t \in Threads : pc[t] \in {"publishData1", "publishData2", "call"} =>
        IF t1[t] <= t2[t] THEN NextFar(queueT1, t2[t]) ELSE NextFar(queueT2, t1[t])

HeadsDelivered ==
    \A t \in Threads : pc[t] \in Delivering => <<Head(queueT1), Head(queueT2)>> \in delivered

ClosestInv == NearInv /\ FarInv /\ HeadsDelivered

LEMMA SmallMod ==
    ASSUME NEW m \in Nat \ {0}, NEW x \in 0 .. (m - 1)
    PROVE  x % m = x
OBVIOUS

LEMMA SumOfHalves ==
    ASSUME NEW m \in Nat \ {0}, NEW x \in Nat, NEW y \in Nat, 2 * x < m, 2 * y < m
    PROVE  /\ 2 * x \in 0 .. (m - 1) /\ x + y \in 0 .. (m - 1)
OBVIOUS

(* The while loop stops at the last entry not past s. *)
LEMMA TrimmedParts ==
    ASSUME NEW q \in Seq(Stamps), NEW s \in Nat, q # <<>>
    PROVE  \E f \in 1 .. Len(q) :
              /\ Len(Trimmed(q, s)) = Len(q) - f + 1
              /\ \A i \in 1 .. Len(q) - f + 1 : Trimmed(q, s)[i] = q[f + i - 1]
              /\ q[1] <= s => q[f] <= s
              /\ f < Len(q) => q[f + 1] > s
<1> DEFINE S == {i \in 1 .. Len(q) : i = Len(q) \/ q[i + 1] > s}
           f == LeastOf(S)
<1>1. Len(q) \in Nat /\ Len(q) >= 1
  BY LenProperties, EmptySeq
<1>2. S \subseteq Nat /\ Len(q) \in S
  BY <1>1
<1>3. f \in S /\ \A i \in S : f <= i
  BY <1>2, LeastOfType
<1>4. f \in 1 .. Len(q) /\ (f = Len(q) \/ q[f + 1] > s)
  BY <1>3
<1>5. Trimmed(q, s) = SubSeq(q, f, Len(q))
  BY DEF Trimmed
<1>6. \A i \in f .. Len(q) : q[i] \in Stamps
  BY <1>1, <1>4, ElementOfSeq
<1>7. f # 1 => q[f] <= s
  <2> SUFFICES ASSUME f # 1 PROVE q[f] <= s
    OBVIOUS
  <2>1. f - 1 \in 1 .. Len(q) /\ f - 1 # Len(q) /\ (f - 1) + 1 = f /\ ~(f <= f - 1)
    BY <1>1, <1>4
  <2>2. f - 1 \notin S
    BY <1>3, <2>1
  <2>3. ~(q[f] > s)
    BY <2>1, <2>2
  <2>4. q[f] \in Nat
    <3>1. f \in f .. Len(q)
      BY <1>1, <1>4
    <3>2. q[f] \in Stamps
      BY <1>6, <3>1, Zenon
    <3> QED
      BY <3>2, StampsAreNat
  <2> QED
    BY <2>3, <2>4
<1> HIDE DEF f, S
<1>8. /\ Len(SubSeq(q, f, Len(q))) = Len(q) - f + 1
      /\ \A i \in 1 .. Len(q) - f + 1 : SubSeq(q, f, Len(q))[i] = q[f + i - 1]
  BY <1>1, <1>4, <1>6, SubSeqProperties
<1>9. q[1] <= s => q[f] <= s
  BY <1>7
<1> QED
  BY <1>1, <1>4, <1>5, <1>8, <1>9

(* Matching drops only what is no nearer to s than the new front.          *)
LEMMA MatchedNearest ==
    ASSUME NoWrap, NEW q \in Seq(Stamps), q # <<>>, Ordered(q), NEW s \in Stamps, q[1] <= s
    PROVE  \E k \in 0 .. (Len(q) - 1) :
              /\ Len(Matched(q, s)) = Len(q) - k
              /\ \A i \in 1 .. Len(q) - k : Matched(q, s)[i] = q[i + k]
              /\ \A i \in 1 .. k : q[i] + q[k + 1] <= 2 * s
              /\ Len(Trimmed(q, s)) > 1 => NextFar(Matched(q, s), s)
<1> DEFINE kept == Trimmed(q, s)
           n == Len(q)
<1>1. /\ n \in Nat \ {0} /\ s \in Nat /\ 2 * s < Modulus /\ Modulus \in Nat \ {0}
      /\ \A i \in 1 .. n : q[i] \in Nat /\ 2 * q[i] < Modulus
  BY LenProperties, EmptySeq, ElementOfSeq, StampsAreNat, ConstantsAssumption DEF NoWrap
<1>2. PICK f \in 1 .. n :
         /\ Len(kept) = n - f + 1
         /\ \A i \in 1 .. n - f + 1 : kept[i] = q[f + i - 1]
         /\ q[f] <= s
         /\ f < n => q[f + 1] > s
  BY <1>1, TrimmedParts
<1>3. kept \in Seq(Stamps)
  BY <1>1, TrimmedType
<1>4. kept[1] = q[f] /\ (Len(kept) > 1 => f < n /\ kept[2] = q[f + 1])
  <2>1. 1 \in 1 .. n - f + 1 /\ f + 1 - 1 = f /\ f + 2 - 1 = f + 1
    BY <1>1, <1>2
  <2>2. n - f + 1 > 1 => 2 \in 1 .. n - f + 1
    BY <1>1, <1>2
  <2> QED
    BY <1>1, <1>2, <2>1, <2>2
<1>5. \A i \in 1 .. f : q[i] <= q[f]
  <2>1. \A i \in 1 .. f : i < f => q[i] < q[f]
    BY <1>1, <1>2 DEF Ordered
  <2>2. \A i \in 1 .. f : q[i] \in Nat /\ q[f] \in Nat /\ (i < f \/ i = f)
    BY <1>1, <1>2
  <2> QED
    BY <2>1, <2>2
<1> HIDE DEF kept, n
<1>6. CASE Len(kept) > 1 /\ SecondIsCloser(kept, s)
  <2>1. /\ Matched(q, s) = Tail(kept) /\ kept # <<>>
        /\ f \in 1 .. n - 1 /\ f + 1 \in 1 .. n /\ kept[2] = q[f + 1] /\ q[f + 1] > s
    BY <1>1, <1>2, <1>4, <1>6, EmptySeq DEF Matched, kept
  <2>2. /\ Len(Tail(kept)) = n - f
        /\ \A i \in 1 .. n - f : Tail(kept)[i] = q[i + f]
    <3>1. /\ Len(Tail(kept)) = Len(kept) - 1
          /\ \A i \in 1 .. Len(Tail(kept)) : Tail(kept)[i] = kept[i + 1]
      BY <1>3, <2>1, HeadTailProperties
    <3>2. Len(Tail(kept)) = n - f
      BY <1>1, <1>2, <3>1
    <3>3. \A i \in 1 .. n - f : i + 1 \in 1 .. n - f + 1 /\ f + (i + 1) - 1 = i + f
      BY <1>1, <1>2
    <3> QED
      BY <1>2, <3>1, <3>2, <3>3
  <2>3. q[f] + q[f + 1] < 2 * s
    <3>1. /\ q[f] \in Nat /\ q[f + 1] \in Nat
          /\ 2 * q[f] < Modulus /\ 2 * q[f + 1] < Modulus
      BY <1>1, <1>2, <2>1
    <3>2. 2 * s \in 0 .. (Modulus - 1) /\ q[f] + q[f + 1] \in 0 .. (Modulus - 1)
      BY <1>1, <3>1, SumOfHalves
    <3>3. (2 * s) % Modulus = 2 * s /\ (q[f] + q[f + 1]) % Modulus = q[f] + q[f + 1]
      BY <1>1, <3>2, SmallMod
    <3> QED
      BY <1>1, <1>4, <1>6, <3>1, <3>3 DEF SecondIsCloser
  <2>4. \A i \in 1 .. f : q[i] + q[f + 1] <= 2 * s
    <3> TAKE i \in 1 .. f
    <3>1. i \in 1 .. n
      BY <1>1, <1>2
    <3>2. q[i] \in Nat /\ q[f] \in Nat /\ q[f + 1] \in Nat /\ q[i] <= q[f]
      BY <1>1, <1>2, <1>5, <2>1, <3>1
    <3>3. s \in Nat
      BY <1>1
    <3> QED
      BY <2>3, <3>2, <3>3
  <2>5. NextFar(Tail(kept), s)
    <3>1. 1 \in 1 .. n - f /\ 1 + f = f + 1
      BY <1>1, <2>1
    <3>2. Tail(kept)[1] = q[f + 1] /\ Tail(kept) # <<>>
      BY <2>2, <3>1, EmptySeq
    <3>3. q[f + 1] \in Nat /\ s \in Nat /\ q[f + 1] > s
      BY <1>1, <2>1
    <3>4. Tail(kept)[1] >= s
      BY <3>2, <3>3
    <3> QED
      BY <3>2, <3>4 DEF NextFar
  <2>6. f \in 0 .. (n - 1)
    BY <1>1, <2>1
  <2> QED
    BY <2>1, <2>2, <2>4, <2>5, <2>6 DEF n
<1>7. CASE ~(Len(kept) > 1 /\ SecondIsCloser(kept, s))
  <2> DEFINE k == f - 1
  <2>1. Matched(q, s) = kept
    BY <1>7 DEF Matched, kept
  <2>2. /\ k \in 0 .. (n - 1) /\ k + 1 = f /\ Len(kept) = n - k
        /\ \A i \in 1 .. n - k : f + i - 1 = i + k /\ i \in 1 .. n - f + 1
    BY <1>1, <1>2
  <2>3. \A i \in 1 .. n - k : kept[i] = q[i + k]
    BY <1>2, <2>2
  <2>4. \A i \in 1 .. k : q[i] + q[k + 1] <= 2 * s
    <3> TAKE i \in 1 .. k
    <3>1. i \in 1 .. f /\ i \in 1 .. n /\ f \in 1 .. n
      BY <1>1, <1>2
    <3>2. q[i] \in Nat /\ q[f] \in Nat /\ q[i] <= q[f]
      BY <1>1, <1>5, <3>1
    <3>3. q[f] <= s /\ s \in Nat
      BY <1>1, <1>2
    <3>4. q[i] + q[f] <= 2 * s
      BY <3>2, <3>3
    <3> QED
      BY <2>2, <3>4
  <2>5. Len(kept) > 1 => NextFar(kept, s)
    <3> SUFFICES ASSUME Len(kept) > 1 PROVE NextFar(kept, s)
      OBVIOUS
    <3>1. f \in 1 .. n /\ f + 1 \in 1 .. n /\ kept[1] = q[f] /\ kept[2] = q[f + 1]
      BY <1>1, <1>2, <1>4
    <3>2. /\ q[f] \in Nat /\ q[f + 1] \in Nat
          /\ 2 * q[f] < Modulus /\ 2 * q[f + 1] < Modulus
      BY <1>1, <3>1
    <3>3. 2 * s \in 0 .. (Modulus - 1) /\ q[f] + q[f + 1] \in 0 .. (Modulus - 1)
      BY <1>1, <3>2, SumOfHalves
    <3>4. (2 * s) % Modulus = 2 * s /\ (q[f] + q[f + 1]) % Modulus = q[f] + q[f + 1]
      BY <1>1, <3>3, SmallMod
    <3>5. ~(2 * s > q[f] + q[f + 1])
      BY <1>7, <3>1, <3>4 DEF SecondIsCloser
    <3>6. Len(kept) >= 2 /\ kept # <<>>
      BY <1>1, <1>2, EmptySeq
    <3> QED
      BY <1>1, <3>1, <3>2, <3>5, <3>6 DEF NextFar
  <2> HIDE DEF k
  <2> QED
    BY <2>1, <2>2, <2>3, <2>4, <2>5 DEF n, kept
<1> QED
  BY <1>6, <1>7

LEMMA Entries ==
    ASSUME NEW q \in Seq(Stamps), q # <<>>
    PROVE  /\ Len(q) \in Nat \ {0} /\ 1 \in 1 .. Len(q)
           /\ Head(q) = q[1] /\ q[1] \in Stamps
           /\ \A i \in 1 .. Len(q) : q[i] \in Nat
<1>1. Len(q) \in Nat \ {0} /\ Head(q) = q[1]
  BY LenProperties, EmptySeq, HeadTailProperties
<1>2. 1 \in 1 .. Len(q)
  BY <1>1
<1>3. \A i \in 1 .. Len(q) : q[i] \in Stamps
  BY ElementOfSeq
<1> QED
  BY <1>1, <1>2, <1>3, StampsAreNat

(* A datum is added behind the entries of its queue. *)
LEMMA Appended ==
    ASSUME NEW q \in Seq(Stamps), NEW s \in Stamps
    PROVE  /\ Len(Append(q, s)) = Len(q) + 1 /\ Append(q, s) # <<>>
           /\ InQueue(Append(q, s), s)
           /\ \A x : InQueue(q, x) => InQueue(Append(q, s), x)
           /\ q # <<>> => 1 \in 1 .. Len(q) /\ Append(q, s)[1] = q[1]
           /\ \A i \in 1 .. Len(q) : Append(q, s)[i] = q[i]
<1>1. /\ Len(q) \in Nat /\ (q # <<>> => Len(q) >= 1)
      /\ Append(q, s) \in Seq(Stamps) /\ Len(Append(q, s)) = Len(q) + 1
      /\ \A i \in 1 .. Len(q) : Append(q, s)[i] = q[i]
      /\ Append(q, s)[Len(q) + 1] = s
  BY AppendProperties, LenProperties, EmptySeq
<1>2. Append(q, s) # <<>>
  BY <1>1, EmptySeq
<1>3. Len(q) + 1 \in 1 .. Len(Append(q, s)) /\ \A i \in 1 .. Len(q) : i \in 1 .. Len(Append(q, s))
  BY <1>1
<1>4. q # <<>> => 1 \in 1 .. Len(q)
  BY <1>1
<1> QED
  BY <1>1, <1>2, <1>3, <1>4 DEF InQueue

LEMMA NearAppend ==
    ASSUME NEW q \in Seq(Stamps), NEW other \in Seq(Stamps), NEW seen, NEW popped,
           Near(q, other, seen, popped), NEW s \in Stamps
    PROVE  /\ Near(Append(q, s), other, seen \union {s}, popped)
           /\ Near(q, Append(other, s), seen, popped)
<1>1. Near(Append(q, s), other, seen \union {s}, popped)
  <2> SUFFICES ASSUME NEW x \in seen \union {s}, \A y \in popped : y < x
               PROVE  \/ InQueue(Append(q, s), x)
                      \/ /\ Append(q, s) # <<>> /\ other # <<>>
                         /\ x < Append(q, s)[1] /\ x + Append(q, s)[1] <= 2 * other[1]
    BY DEF Near
  <2> QED
    BY Appended DEF Near
<1>2. Near(q, Append(other, s), seen, popped)
  BY Appended DEF Near
<1> QED
  BY <1>1, <1>2

LEMMA NextFarAppend ==
    ASSUME NEW q \in Seq(Stamps), NEW s \in Stamps, NEW v, NextFar(q, v)
    PROVE  NextFar(Append(q, s), v)
<1>1. Len(q) \in Nat
  BY LenProperties
<1>2. Len(q) >= 2 => 2 \in 1 .. Len(q)
  BY <1>1
<1> QED
  BY <1>1, <1>2, Appended DEF NextFar

(* A queue that is trimmed for the front s of the other one stays near it, *)
(* and so does the other one, for the front of the first only moves on.    *)
LEMMA NearMatched ==
    ASSUME NoWrap, NEW q \in Seq(Stamps), NEW other \in Seq(Stamps),
           q # <<>>, other # <<>>, Ordered(q), q[1] <= other[1],
           NEW seen \in SUBSET Stamps, NEW popped, Near(q, other, seen, popped),
           NEW seenO \in SUBSET Stamps, NEW poppedO, Near(other, q, seenO, poppedO)
    PROVE  /\ Near(Matched(q, other[1]), other, seen, popped)
           /\ Near(other, Matched(q, other[1]), seenO, poppedO)
<1> DEFINE s == other[1]
           m == Matched(q, s)
           n == Len(q)
<1>1. /\ n \in Nat \ {0} /\ s \in Stamps /\ s \in Nat
      /\ \A i \in 1 .. n : q[i] \in Nat
      /\ \A x \in Stamps : x \in Nat
  BY Entries, StampsAreNat
<1>2. m \in Seq(Stamps) /\ m # <<>>
  BY <1>1, MatchedType
<1>3. PICK k \in 0 .. (n - 1) :
         /\ Len(m) = n - k
         /\ \A i \in 1 .. n - k : m[i] = q[i + k]
         /\ \A i \in 1 .. k : q[i] + q[k + 1] <= 2 * s
  BY <1>1, MatchedNearest
<1> HIDE DEF s, m
<1>4. m[1] = q[k + 1] /\ k + 1 \in 1 .. n /\ q[1] \in Nat /\ q[k + 1] \in Nat
  <2>1. 1 \in 1 .. n - k /\ 1 + k = k + 1 /\ k + 1 \in 1 .. n /\ 1 \in 1 .. n
    BY <1>1, <1>3
  <2> QED
    BY <1>1, <1>3, <2>1
<1>5. q[1] <= m[1] /\ (k >= 1 => q[1] < m[1] /\ q[1] + m[1] <= 2 * s) /\ (k = 0 => m[1] = q[1])
  <2>1. CASE k = 0
    BY <1>4, <2>1
  <2>2. CASE k # 0
    <3>1. 1 \in 1 .. k /\ 1 \in 1 .. n /\ 1 < k + 1
      BY <1>1, <1>3, <2>2
    <3>2. q[1] < q[k + 1] /\ q[1] + q[k + 1] <= 2 * s
      BY <1>3, <1>4, <3>1 DEF Ordered
    <3> QED
      BY <1>4, <2>2, <3>2
  <2> QED
    BY <2>1, <2>2
<1>6. Near(m, other, seen, popped)
  <2> SUFFICES ASSUME NEW x \in seen, \A y \in popped : y < x
               PROVE  InQueue(m, x) \/ (x < m[1] /\ x + m[1] <= 2 * s)
    BY <1>2 DEF Near, s
  <2>1. x \in Nat
    BY <1>1
  <2>2. CASE InQueue(q, x)
    <3>1. PICK i \in 1 .. n : q[i] = x
      BY <2>2 DEF InQueue
    <3>2. CASE i > k
      <4>1. i - k \in 1 .. n - k /\ (i - k) + k = i
        BY <1>1, <1>3, <3>2
      <4> QED
        BY <1>3, <3>1, <4>1 DEF InQueue
    <3>3. CASE i <= k
      <4>1. i \in 1 .. k /\ i < k + 1
        BY <1>1, <1>3, <3>3
      <4> QED
        BY <1>3, <1>4, <3>1, <4>1 DEF Ordered
    <3> QED
      BY <1>1, <1>3, <3>2, <3>3
  <2>3. CASE x < q[1] /\ x + q[1] <= 2 * s
    <3>1. CASE k = 0
      BY <1>5, <2>3, <3>1
    <3>2. CASE k >= 1
      <4>1. /\ m[1] \in Nat /\ q[1] \in Nat /\ x < q[1]
            /\ q[1] < m[1] /\ q[1] + m[1] <= 2 * s
        BY <1>4, <1>5, <2>3, <3>2
      <4> QED
        BY <1>1, <2>1, <4>1
    <3> QED
      BY <1>3, <3>1, <3>2
  <2> QED
    BY <2>2, <2>3 DEF Near, s
<1>7. Near(other, m, seenO, poppedO)
  <2> SUFFICES ASSUME NEW x \in seenO, \A y \in poppedO : y < x
               PROVE  InQueue(other, x) \/ (x < s /\ x + s <= 2 * m[1])
    BY <1>2 DEF Near, s
  <2>1. InQueue(other, x) \/ (x < s /\ x + s <= 2 * q[1])
    BY DEF Near, s
  <2>2. x \in Nat /\ s \in Nat /\ q[1] \in Nat /\ m[1] \in Nat /\ q[1] <= m[1]
    BY <1>1, <1>4, <1>5
  <2> QED
    BY <2>1, <2>2
<1> QED
  BY <1>6, <1>7 DEF m, s

(* When the fronts are popped, what is left to consider is behind them. *)
LEMMA NearTail ==
    ASSUME NEW q \in Seq(Stamps), q # <<>>, NEW other, NEW rest,
           NEW seen \in SUBSET Stamps, NEW popped, NEW poppedN,
           Near(q, other, seen, popped), poppedN = popped \union {q[1]}
    PROVE  Near(Tail(q), rest, seen, poppedN)
<1>1. /\ Len(q) \in Nat \ {0} /\ q[1] \in Nat /\ Len(Tail(q)) = Len(q) - 1
      /\ \A i \in 1 .. Len(Tail(q)) : Tail(q)[i] = q[i + 1]
  BY Entries, HeadTailProperties
<1> SUFFICES ASSUME NEW x \in seen, \A y \in poppedN : y < x
             PROVE  InQueue(Tail(q), x)
  BY DEF Near
<1>2. x \in Nat /\ q[1] < x /\ \A y \in popped : y < x
  BY StampsAreNat
<1>3. InQueue(q, x)
  BY <1>1, <1>2 DEF Near
<1>4. PICK i \in 1 .. Len(q) : q[i] = x
  BY <1>3 DEF InQueue
<1>5. i # 1
  BY <1>1, <1>2, <1>4
<1>6. i - 1 \in 1 .. Len(Tail(q)) /\ (i - 1) + 1 = i
  BY <1>1, <1>5
<1> QED
  BY <1>1, <1>4, <1>6 DEF InQueue

(* What NearInv talks about after each kind of step. *)
LEMMA QueuesTyped ==
    ASSUME BaseInv
    PROVE  /\ queueT1 \in Seq(Stamps) /\ queueT2 \in Seq(Stamps)
           /\ seen1 \in SUBSET Stamps /\ seen2 \in SUBSET Stamps
BY DEF BaseInv, TypeOK

LEMMA NobodyStays ==
    ASSUME BaseInv, NEW t \in Threads,
           (\E s \in Stamps : Add0(t, s) \/ Add1(t, s)) \/ Match(t)
    PROVE  /\ NobodyDelivers /\ NobodyDelivers'
           /\ Popped1' = Popped1 /\ Popped2' = Popped2
<1>1. NobodyDelivers
  BY AloneWithQueues DEF Add0, Add1, Match, Decide, Goto
<1>2. NobodyDelivers'
  BY <1>1 DEF Add0, Add1, Match, Decide, Goto, NobodyDelivers, Delivering, BaseInv, TypeOK
<1>3. delivered' = delivered
  BY DEF Add0, Add1, Match, history
<1> QED
  BY <1>1, <1>2, <1>3 DEF NobodyDelivers, Popped1, Popped2, Popped

LEMMA NearAdds ==
    ASSUME BaseInv, NearInv, NEW t \in Threads, NEW s \in Stamps, Add0(t, s) \/ Add1(t, s)
    PROVE  NearInv'
<1>1. Popped1' = Popped1 /\ Popped2' = Popped2
  BY NobodyStays
<1>2. CASE Add0(t, s)
  <2>1. /\ queueT1' = Append(queueT1, s) /\ seen1' = seen1 \union {s}
        /\ queueT2' = queueT2 /\ seen2' = seen2
    BY <1>2 DEF Add0
  <2>2. /\ Near(Append(queueT1, s), queueT2, seen1 \union {s}, Popped1)
        /\ Near(queueT2, Append(queueT1, s), seen2, Popped2)
    BY NearAppend, QueuesTyped DEF NearInv
  <2> QED
    BY <1>1, <2>1, <2>2 DEF NearInv
<1>3. CASE Add1(t, s)
  <2>1. /\ queueT2' = Append(queueT2, s) /\ seen2' = seen2 \union {s}
        /\ queueT1' = queueT1 /\ seen1' = seen1
    BY <1>3 DEF Add1
  <2>2. /\ Near(Append(queueT2, s), queueT1, seen2 \union {s}, Popped2)
        /\ Near(queueT1, Append(queueT2, s), seen1, Popped1)
    BY NearAppend, QueuesTyped DEF NearInv
  <2> QED
    BY <1>1, <2>1, <2>2 DEF NearInv
<1> QED
  BY <1>2, <1>3

(* What publish() compared when it trims is what the queues begin with. *)
LEMMA MatchesFronts ==
    ASSUME IInv, NEW t \in Threads, Match(t)
    PROVE  /\ queueT1 # <<>> /\ queueT1[1] = t1[t] /\ t1[t] \in Stamps /\ t1[t] \in Nat
           /\ queueT2 # <<>> /\ queueT2[1] = t2[t] /\ t2[t] \in Stamps /\ t2[t] \in Nat
<1>1. pc[t] = "match"
  BY DEF Match, Decide, Goto
<1>2. /\ queueT1 # <<>> /\ Head(queueT1) = t1[t]
      /\ queueT2 # <<>> /\ Head(queueT2) = t2[t]
  BY <1>1 DEF IInv, SnapshotCurrent
<1>3. queueT1 \in Seq(Stamps) /\ queueT2 \in Seq(Stamps)
  BY QueuesTyped DEF IInv
<1> QED
  BY <1>2, <1>3, Entries, StampsAreNat

LEMMA ClosestMatch ==
    ASSUME NoWrap, IInv, FreshInv, NearInv, NEW t \in Threads, Match(t)
    PROVE  /\ NearInv'
           /\ pc'[t] = "publishData1" =>
                IF t1'[t] <= t2'[t] THEN NextFar(queueT1', t2'[t]) ELSE NextFar(queueT2', t1'[t])
<1> DEFINE Far == pc'[t] = "publishData1" =>
                IF t1'[t] <= t2'[t] THEN NextFar(queueT1', t2'[t]) ELSE NextFar(queueT2', t1'[t])
<1>1. Popped1' = Popped1 /\ Popped2' = Popped2 /\ BaseInv
  BY NobodyStays DEF IInv
<1>2. /\ queueT1 \in Seq(Stamps) /\ queueT2 \in Seq(Stamps)
      /\ seen1 \in SUBSET Stamps /\ seen2 \in SUBSET Stamps
      /\ Ordered(queueT1) /\ Ordered(queueT2)
  BY <1>1, QueuesTyped, FreshFacts
<1>3. /\ queueT1 # <<>> /\ queueT1[1] = t1[t] /\ t1[t] \in Stamps /\ t1[t] \in Nat
      /\ queueT2 # <<>> /\ queueT2[1] = t2[t] /\ t2[t] \in Stamps /\ t2[t] \in Nat
  BY MatchesFronts
<1>4. seen1' = seen1 /\ seen2' = seen2 /\ t1' = t1 /\ t2' = t2 /\ pc \in [Threads -> Places]
  BY <1>1 DEF Match, history, locals, BaseInv, TypeOK
<1>5. CASE t1[t] <= t2[t]
  <2>1. /\ queueT1' = Matched(queueT1, t2[t]) /\ queueT2' = queueT2
        /\ pc'[t] = "publishData1" => Len(Trimmed(queueT1, t2[t])) > 1
    BY <1>3, <1>4, <1>5 DEF Match, Decide, Goto
  <2>2. /\ Near(Matched(queueT1, t2[t]), queueT2, seen1, Popped1)
        /\ Near(queueT2, Matched(queueT1, t2[t]), seen2, Popped2)
    BY <1>2, <1>3, <1>5, NearMatched DEF NearInv
  <2>3. Len(Trimmed(queueT1, t2[t])) > 1 => NextFar(Matched(queueT1, t2[t]), t2[t])
    BY <1>2, <1>3, <1>5, MatchedNearest
  <2> QED
    BY <1>1, <1>4, <1>5, <2>1, <2>2, <2>3 DEF NearInv
<1>6. CASE t1[t] > t2[t]
  <2>1. /\ queueT2' = Matched(queueT2, t1[t]) /\ queueT1' = queueT1
        /\ pc'[t] = "publishData1" => Len(Trimmed(queueT2, t1[t])) > 1
    BY <1>3, <1>4, <1>6 DEF Match, Decide, Goto
  <2>2. t2[t] <= t1[t] /\ ~(t1[t] <= t2[t])
    BY <1>3, <1>6
  <2>3. /\ Near(Matched(queueT2, t1[t]), queueT1, seen2, Popped2)
        /\ Near(queueT1, Matched(queueT2, t1[t]), seen1, Popped1)
    BY <1>2, <1>3, <2>2, NearMatched DEF NearInv
  <2>4. Len(Trimmed(queueT2, t1[t])) > 1 => NextFar(Matched(queueT2, t1[t]), t1[t])
    BY <1>2, <1>3, <2>2, MatchedNearest
  <2> QED
    BY <1>1, <1>4, <2>1, <2>2, <2>3, <2>4 DEF NearInv
<1> QED
  BY <1>3, <1>5, <1>6

(* Handing out two fronts pops neither. *)
LEMMA NearHandsOut ==
    ASSUME BaseInv, FreshInv, NearInv, NEW t \in Threads, HandsOut(t)
    PROVE  NearInv'
<1>1. NobodyDelivers /\ ~NobodyDelivers'
  <2>1. NobodyDelivers
    BY AloneWithQueues DEF HandsOut
  <2> QED
    BY <2>1 DEF HandsOut, NobodyDelivers
<1>2. /\ UNCHANGED <<queueT1, queueT2, seen1, seen2>>
      /\ delivered' = delivered \union {<<Head(queueT1), Head(queueT2)>>}
      /\ queueT1 # <<>> /\ queueT2 # <<>>
  BY DEF HandsOut
<1>3. <<Head(queueT1), Head(queueT2)>> \notin delivered
  <2>1. queueT1 \in Seq(Stamps) /\ YoungerQueues(delivered)
    BY <1>1, QueuesTyped, FreshFacts
  <2>2. 1 \in 1 .. Len(queueT1) /\ Head(queueT1) = queueT1[1] /\ queueT1[1] \in Nat
    BY <1>2, <2>1, Entries
  <2>3. \A p \in delivered : p[1] < queueT1[1]
    BY <2>1, <2>2 DEF YoungerQueues
  <2>4. ~(queueT1[1] < queueT1[1])
    BY <2>2
  <2>5. <<Head(queueT1), Head(queueT2)>>[1] = queueT1[1]
    BY <2>2
  <2> QED
    BY <2>3, <2>4, <2>5
<1>4. Popped' = delivered /\ Popped = delivered
  BY <1>1, <1>2, <1>3 DEF Popped, NobodyDelivers
<1> QED
  BY <1>2, <1>4 DEF NearInv, Popped1, Popped2

LEMMA NearPops ==
    ASSUME BaseInv, NearInv, HeadsDelivered, NEW t \in Threads, PopFronts(t)
    PROVE  NobodyDelivers' /\ NearInv'
<1> DEFINE heads == <<Head(queueT1), Head(queueT2)>>
<1>1. pc[t] \in Delivering /\ pc' = [pc EXCEPT ![t] = "idle"]
  BY DEF PopFronts, Unlock, Goto
<1>2. NobodyDelivers'
  <2>1. \A u \in Threads : pc[u] \in Delivering => mutex1 = u
    BY DEF BaseInv, LocksOwned, HoldsMutex1, Delivering
  <2>2. \A u \in Threads : pc'[u] \notin Delivering
    BY <1>1, <2>1 DEF BaseInv, TypeOK, Delivering
  <2> QED
    BY <2>2 DEF NobodyDelivers
<1>3. /\ queueT1 \in Seq(Stamps) /\ queueT1 # <<>>
      /\ queueT2 \in Seq(Stamps) /\ queueT2 # <<>>
      /\ seen1 \in SUBSET Stamps /\ seen2 \in SUBSET Stamps
  BY <1>1, QueuesTyped DEF BaseInv, DeliveryDefined
<1>4. queueT1' = Tail(queueT1) /\ queueT2' = Tail(queueT2)
      /\ UNCHANGED <<seen1, seen2, delivered>>
  BY DEF PopFronts, history
<1>5. Popped' = Popped \union {heads}
  <2>1. Popped = delivered \ {heads} /\ heads \in delivered
    BY <1>1 DEF Popped, HeadsDelivered
  <2>2. Popped' = delivered
    BY <1>2, <1>4 DEF Popped, NobodyDelivers
  <2> QED
    BY <2>1, <2>2
<1>6. heads[1] = queueT1[1] /\ heads[2] = queueT2[1]
  BY <1>3, Entries
<1> HIDE DEF heads
<1>7. Popped1' = Popped1 \union {queueT1[1]} /\ Popped2' = Popped2 \union {queueT2[1]}
  BY <1>5, <1>6 DEF Popped1, Popped2
<1>8. /\ Near(Tail(queueT1), Tail(queueT2), seen1, Popped1')
      /\ Near(Tail(queueT2), Tail(queueT1), seen2, Popped2')
  BY <1>3, <1>7, NearTail DEF NearInv
<1> QED
  BY <1>2, <1>4, <1>8 DEF NearInv

LEMMA QuietKeeps ==
    ASSUME NearInv, HeadsDelivered, Quiet
    PROVE  NearInv' /\ HeadsDelivered'
<1>1. (\E t \in Threads : pc'[t] \in Delivering) <=> (\E t \in Threads : pc[t] \in Delivering)
  BY DEF Quiet
<1>2. Popped' = Popped
  BY <1>1 DEF Quiet, Popped
<1> QED
  BY <1>2 DEF Quiet, NearInv, Popped1, Popped2, HeadsDelivered

(* The places between the decision to publish and the last callback. *)
PublishingData == {"publishData1", "publishData2", "call"}

(* Steps that leave the queues alone take nobody to such a place who was   *)
(* not there before, with the same copies of the fronts.                   *)
LEMMA FarPlaces ==
    ASSUME BaseInv, NEW t \in Threads, Step(t)
    PROVE  \/ \E s \in Stamps : Add0(t, s) \/ Add1(t, s)
           \/ Match(t)
           \/ PopFronts(t)
           \/ Reset2(t)
           \/ /\ UNCHANGED <<queueT1, queueT2>>
              /\ \A u \in Threads : pc'[u] \in PublishingData =>
                    pc[u] \in PublishingData /\ t1'[u] = t1[u] /\ t2'[u] = t2[u]
<1>1. /\ pc \in [Threads -> Places] /\ t1 \in [Threads -> Stamps \union {0}]
      /\ t2 \in [Threads -> Stamps \union {0}]
  BY DEF BaseInv, TypeOK
<1> USE <1>1 DEF Goto, queues, locks, callbacks, locals, history, PublishingData
<1>2. CASE Arrive(t)
  BY <1>2 DEF Arrive
<1>3. CASE Finalize(t) \/ Reset(t)
  BY <1>3 DEF Finalize, Reset
<1>4. CASE AddCallback(t)
  BY <1>4 DEF AddCallback
<1>5. CASE \E id \in cb : RemoveCallback(t, id)
  BY <1>5 DEF RemoveCallback
<1>6. CASE StartPublish(t)
  BY <1>6 DEF StartPublish
<1>7. CASE Front1(t)
  BY <1>7 DEF Front1, ReturnFrom
<1>8. CASE Front2(t)
  BY <1>8 DEF Front2, ReturnFrom
<1>10. CASE PublishData1(t)
  BY <1>10 DEF PublishData1, LockMutex1
<1>11. CASE PublishData2(t)
  BY <1>11 DEF PublishData2, Deliver
<1>12. CASE FinalizePublish(t)
  BY <1>12 DEF FinalizePublish
<1>13. CASE Finalize1(t)
  BY <1>13 DEF Finalize1, LockMutex1
<1>14. CASE Finalize2(t)
  BY <1>14 DEF Finalize2, Deliver
<1>15. CASE \E id \in cb : Call(t, id)
  BY <1>15 DEF Call
<1>17. CASE Reset1(t)
  BY <1>17 DEF Reset1, LockMutex1
<1> QED
  BY <1>2, <1>3, <1>4, <1>5, <1>6, <1>7, <1>8, <1>10, <1>11, <1>12, <1>13, <1>14, <1>15, <1>17
     DEF Step, Subscribe, Continue

LEMMA FarStep ==
    ASSUME NoWrap, Resetters = {}, IInv, FreshInv, NearInv, FarInv, NEW t \in Threads, Step(t)
    PROVE  FarInv'
<1> DEFINE Far(u) == IF t1[u] <= t2[u] THEN NextFar(queueT1, t2[u]) ELSE NextFar(queueT2, t1[u])
<1>1. /\ BaseInv /\ pc \in [Threads -> Places]
      /\ queueT1 \in Seq(Stamps) /\ queueT2 \in Seq(Stamps)
  BY QueuesTyped DEF IInv, BaseInv, TypeOK
<1>2. \A u \in Threads : pc[u] \in PublishingData => Far(u)
  BY DEF FarInv, PublishingData
<1>3. \A u \in Threads : pc[u] \in PublishingData => publishMutex = u
  BY DEF IInv, FrontsDefined, BaseInv, LocksOwned, HoldsPublish, Publishing, PublishingData
<1> SUFFICES ASSUME NEW u \in Threads, pc'[u] \in PublishingData
             PROVE  IF t1'[u] <= t2'[u] THEN NextFar(queueT1', t2'[u])
                    ELSE NextFar(queueT2', t1'[u])
  BY DEF FarInv, PublishingData
<1>4. CASE \E s \in Stamps : Add0(t, s) \/ Add1(t, s)
  <2>1. PICK s \in Stamps : Add0(t, s) \/ Add1(t, s)
    BY <1>4
  <2>2. pc[u] \in PublishingData /\ t1' = t1 /\ t2' = t2
    BY <1>1, <2>1 DEF Add0, Add1, Goto, locals, PublishingData
  <2>3. /\ queueT1' = queueT1 \/ queueT1' = Append(queueT1, s)
        /\ queueT2' = queueT2 \/ queueT2' = Append(queueT2, s)
    BY <2>1 DEF Add0, Add1
  <2>4. Far(u)
    BY <1>2, <2>2
  <2>5. CASE t1[u] <= t2[u]
    BY <1>1, <2>2, <2>3, <2>4, <2>5, NextFarAppend
  <2>6. CASE ~(t1[u] <= t2[u])
    BY <1>1, <2>2, <2>3, <2>4, <2>6, NextFarAppend
  <2> QED
    BY <2>5, <2>6
<1>5. CASE Match(t)
  <2>1. pc[t] = "match" /\ publishMutex = t
    BY <1>5 DEF Match, Decide, Goto, IInv, BaseInv, LocksOwned, HoldsPublish, Publishing
  <2>2. u = t /\ pc'[t] = "publishData1"
    BY <1>1, <1>3, <1>5, <2>1 DEF Match, Decide, Goto, PublishingData
  <2> QED
    BY <1>5, <2>2, ClosestMatch
<1>6. CASE PopFronts(t)
  <2>1. pc[t] \in Delivering /\ pc'[t] = "idle" /\ \A v \in Threads \ {t} : pc'[v] = pc[v]
    BY <1>1, <1>6 DEF PopFronts, Unlock, Goto
  <2>2. publishMutex = t
    BY <2>1 DEF IInv, FrontsDefined, BaseInv, LocksOwned, HoldsPublish, Delivering, Publishing, Finalizing
  <2> QED
    BY <1>3, <2>1, <2>2 DEF PublishingData
<1>7. ~Reset2(t)
  BY DEF Reset2, Goto, IInv, NoReset
<1>8. CASE /\ UNCHANGED <<queueT1, queueT2>>
           /\ \A v \in Threads : pc'[v] \in PublishingData =>
                 pc[v] \in PublishingData /\ t1'[v] = t1[v] /\ t2'[v] = t2[v]
  BY <1>2, <1>8
<1> QED
  BY <1>1, <1>4, <1>5, <1>6, <1>7, <1>8, FarPlaces

LEMMA HeadsStep ==
    ASSUME BaseInv, NearInv, HeadsDelivered, NEW t \in Threads, Step(t), ~Reset2(t)
    PROVE  HeadsDelivered'
<1>1. NobodyDelivers' => HeadsDelivered'
  BY DEF NobodyDelivers, HeadsDelivered
<1>2. CASE (\E s \in Stamps : Add0(t, s) \/ Add1(t, s)) \/ Match(t)
  BY <1>1, <1>2, NobodyStays
<1>3. CASE HandsOut(t)
  BY <1>3 DEF HandsOut, HeadsDelivered
<1>4. CASE PopFronts(t)
  BY <1>1, <1>4, NearPops
<1>5. CASE Quiet
  BY <1>5, QuietKeeps
<1> QED
  BY <1>2, <1>3, <1>4, <1>5, StepKinds

LEMMA NearStep ==
    ASSUME NoWrap, IInv, FreshInv, ClosestInv, NEW t \in Threads, Step(t), ~Reset2(t)
    PROVE  NearInv'
<1>1. BaseInv /\ NearInv /\ HeadsDelivered
  BY DEF IInv, ClosestInv
<1>2. CASE \E s \in Stamps : Add0(t, s) \/ Add1(t, s)
  BY <1>1, <1>2, NearAdds
<1>3. CASE Match(t)
  BY <1>1, <1>3, ClosestMatch
<1>4. CASE HandsOut(t)
  BY <1>1, <1>4, NearHandsOut
<1>5. CASE PopFronts(t)
  BY <1>1, <1>5, NearPops
<1>6. CASE Quiet
  BY <1>1, <1>6, QuietKeeps
<1> QED
  BY <1>1, <1>2, <1>3, <1>4, <1>5, <1>6, StepKinds

LEMMA ClosestStep ==
    ASSUME NoWrap, Resetters = {}, IInv, FreshInv, ClosestInv, [Next]_vars
    PROVE  ClosestInv'
<1>1. ASSUME NEW t \in Threads, Step(t)
      PROVE  ClosestInv'
  <2>1. ~Reset2(t)
    BY DEF Reset2, Goto, IInv, NoReset
  <2>2. NearInv'
    BY <1>1, <2>1, NearStep
  <2>3. FarInv'
    BY <1>1, FarStep DEF ClosestInv
  <2>4. HeadsDelivered'
    BY <1>1, <2>1, HeadsStep DEF ClosestInv, IInv
  <2> QED
    BY <2>2, <2>3, <2>4 DEF ClosestInv
<1>2. CASE UNCHANGED vars
  <2>1. /\ UNCHANGED <<queueT1, queueT2, pc, t1, t2, seen1, seen2, delivered>>
    BY <1>2 DEF vars, queues, locals, history
  <2>2. Popped' = Popped
    BY <2>1 DEF Popped
  <2> QED
    BY <2>1, <2>2 DEF ClosestInv, NearInv, Popped1, Popped2, FarInv, HeadsDelivered
<1> QED
  BY <1>1, <1>2 DEF Next

LEMMA ClosestInit == Init => ClosestInv
BY DEF Init, ClosestInv, NearInv, Near, FarInv, HeadsDelivered, Delivering

(* What has not been handed out, and is not older than the last pair, is   *)
(* no nearer to the front of the other stream than the own front.          *)
LEMMA NearestOfQueue ==
    ASSUME NEW q \in Seq(Stamps), q # <<>>, Ordered(q), NEW b \in Nat,
           NextFar(q, b), NEW x \in Nat,
           InQueue(q, x) \/ (x < q[1] /\ x + q[1] <= 2 * b)
    PROVE  Distance(q[1], b) <= Distance(x, b) /\ Distance(b, q[1]) <= Distance(b, x)
<1>1. /\ Len(q) \in Nat \ {0} /\ 1 \in 1 .. Len(q)
      /\ \A i \in 1 .. Len(q) : q[i] \in Nat
  BY Entries
<1>2. q[1] \in Nat
  BY <1>1
<1>3. CASE x < q[1] /\ x + q[1] <= 2 * b
  BY <1>2, <1>3 DEF Distance
<1>4. CASE InQueue(q, x) /\ x # q[1]
  <2>1. PICK i \in 1 .. Len(q) : q[i] = x
    BY <1>4 DEF InQueue
  <2>2. /\ 1 < i /\ 2 \in 1 .. Len(q) /\ (2 < i \/ i = 2) /\ 1 < 2
    BY <1>1, <1>4, <2>1
  <2>3. q[1] < x /\ q[2] <= x /\ q[2] \in Nat /\ q[1] < q[2]
    BY <1>1, <2>1, <2>2 DEF Ordered
  <2>4. q[1] >= b \/ q[1] + q[2] >= 2 * b
    BY DEF NextFar
  <2> QED
    BY <1>2, <2>3, <2>4 DEF Distance
<1>5. CASE x = q[1]
  BY <1>2, <1>5 DEF Distance
<1> QED
  BY <1>3, <1>4, <1>5

LEMMA ClosestFromInv ==
    ASSUME IInv, FreshInv, ClosestInv
    PROVE  ClosestPublished
<1> SUFFICES ASSUME NEW t \in Threads, pc[t] = "call"
             PROVE  IF t1[t] <= t2[t]
                    THEN \A x \in Undelivered1(Head(queueT1)) :
                            Distance(Head(queueT1), Head(queueT2)) <= Distance(x, Head(queueT2))
                    ELSE \A x \in Undelivered2(Head(queueT2)) :
                            Distance(Head(queueT1), Head(queueT2)) <= Distance(Head(queueT1), x)
  BY DEF ClosestPublished
<1> DEFINE a == Head(queueT1)
           b == Head(queueT2)
<1>1. /\ queueT1 \in Seq(Stamps) /\ queueT1 # <<>> /\ seen1 \in SUBSET Stamps
      /\ queueT2 \in Seq(Stamps) /\ queueT2 # <<>> /\ seen2 \in SUBSET Stamps
      /\ IF t1[t] <= t2[t] THEN b = t2[t] ELSE a = t1[t]
  BY QueuesTyped DEF IInv, SnapshotCurrent
<1>2. ~NobodyDelivers /\ Ordered(queueT1) /\ Ordered(queueT2)
      /\ YoungerQueues(delivered \ {<<a, b>>}) /\ Popped = delivered \ {<<a, b>>}
  <2>1. ~NobodyDelivers
    BY DEF NobodyDelivers, Delivering
  <2> QED
    BY <2>1, FreshFacts DEF IInv, NobodyDelivers, Popped
<1>3. IF t1[t] <= t2[t] THEN NextFar(queueT1, t2[t]) ELSE NextFar(queueT2, t1[t])
  BY DEF ClosestInv, FarInv
<1>4. /\ a = queueT1[1] /\ a \in Nat /\ 1 \in 1 .. Len(queueT1)
      /\ b = queueT2[1] /\ b \in Nat /\ 1 \in 1 .. Len(queueT2)
  BY <1>1, Entries
<1> HIDE DEF a, b
<1>5. \A p \in Popped : p[1] # a /\ p[2] # b
  <2>1. \A p \in Popped : p[1] < queueT1[1] /\ p[2] < queueT2[1]
    BY <1>2, <1>4 DEF YoungerQueues
  <2>2. ~(a < a) /\ ~(b < b)
    BY <1>4
  <2> QED
    BY <1>4, <2>1, <2>2
<1>6. CASE t1[t] <= t2[t]
  <2> SUFFICES ASSUME NEW x \in Undelivered1(a)
               PROVE  Distance(a, b) <= Distance(x, b)
    BY <1>6 DEF a, b
  <2>1. x \in seen1 /\ x \in Nat /\ \A p \in Popped : p[1] < x
    BY <1>1, <1>2, <1>5, StampsAreNat DEF Undelivered1
  <2>2. \A y \in Popped1 : y < x
    BY <2>1 DEF Popped1
  <2>3. InQueue(queueT1, x) \/ (x < queueT1[1] /\ x + queueT1[1] <= 2 * b)
    BY <1>4, <2>1, <2>2 DEF ClosestInv, NearInv, Near
  <2>4. NextFar(queueT1, b)
    BY <1>1, <1>3, <1>6
  <2> QED
    BY <1>1, <1>2, <1>4, <2>1, <2>3, <2>4, NearestOfQueue
<1>7. CASE ~(t1[t] <= t2[t])
  <2> SUFFICES ASSUME NEW x \in Undelivered2(b)
               PROVE  Distance(a, b) <= Distance(a, x)
    BY <1>7 DEF a, b
  <2>1. x \in seen2 /\ x \in Nat /\ \A p \in Popped : p[2] < x
    BY <1>1, <1>2, <1>5, StampsAreNat DEF Undelivered2
  <2>2. \A y \in Popped2 : y < x
    BY <2>1 DEF Popped2
  <2>3. InQueue(queueT2, x) \/ (x < queueT2[1] /\ x + queueT2[1] <= 2 * a)
    BY <1>4, <2>1, <2>2 DEF ClosestInv, NearInv, Near
  <2>4. NextFar(queueT2, a)
    BY <1>1, <1>3, <1>7
  <2> QED
    BY <1>1, <1>2, <1>4, <2>1, <2>3, <2>4, NearestOfQueue
<1> QED
  BY <1>6, <1>7

(* Where nobody resets and no doubled stamp wraps around, of the data that *)
(* arrived and are not older than the last pair none would have been a     *)
(* nearer partner than the one publish() chose, whenever it arrived.       *)
THEOREM ClosestAlwaysPublished ==
    ASSUME Resetters = {}, NoWrap
    PROVE  Spec => []ClosestPublished
<1>1. IInv /\ FreshInv /\ ClosestInv /\ [Next]_vars => ClosestInv'
  BY ClosestStep
<1>2. IInv /\ FreshInv /\ ClosestInv => ClosestPublished
  BY ClosestFromInv
<1> QED
  BY <1>1, <1>2, ClosestInit, InductiveInvariant, FreshInvariant, PTL DEF Spec

-----------------------------------------------------------------------------
(* Whoever holds the last of the three mutexes that is locked is not kept  *)
(* waiting for another one.                                                *)
LEMMA SomeoneContinues ==
    ASSUME BaseInv
    PROVE  NeverAllBlocked
<1> SUFFICES ASSUME NEW t \in Threads, pc[t] # "idle", \A u \in Threads : pc[u] # "undefined"
             PROVE  \E u \in Threads : MayContinue(u)
  BY DEF NeverAllBlocked
<1> USE DEF HoldsPublish, HoldsMutex1, HoldsMutex2, Publishing, Finalizing, Delivering
<1>1. \A u \in Threads :
         /\ pc[u] \in Places
         /\ pc[u] \in HoldsPublish <=> publishMutex = u
         /\ pc[u] \in HoldsMutex1 <=> mutex1 = u
         /\ pc[u] \in HoldsMutex2 <=> mutex2 = u
  BY DEF BaseInv, TypeOK, LocksOwned
<1>2. /\ mutex1 \in Threads \union {NoThread} /\ mutex2 \in Threads \union {NoThread}
      /\ publishMutex \in Threads \union {NoThread}
  BY DEF BaseInv, TypeOK
<1>3. CASE mutex2 # NoThread
  <2>1. mutex2 \in Threads /\ pc[mutex2] \in Delivering
    BY <1>1, <1>2, <1>3
  <2> QED  BY <2>1 DEF MayContinue
<1>4. CASE mutex2 = NoThread /\ mutex1 # NoThread
  <2>1. mutex1 \in Threads /\ pc[mutex1] \in {"publishData2", "finalize2", "reset2"} \union Delivering
    BY <1>1, <1>2, <1>4
  <2> QED  BY <1>4, <2>1 DEF MayContinue
<1>5. CASE mutex2 = NoThread /\ mutex1 = NoThread /\ publishMutex # NoThread
  <2>1. publishMutex \in Threads /\ pc[publishMutex] \in HoldsPublish
    BY <1>1, <1>2, <1>5
  <2> QED  BY <1>5, <2>1 DEF MayContinue
<1>6. CASE mutex2 = NoThread /\ mutex1 = NoThread /\ publishMutex = NoThread
  BY <1>6 DEF MayContinue
<1> QED  BY <1>3, <1>4, <1>5, <1>6

(* No circle of threads waits for each other, with any number of adders,   *)
(* finalizers, resetters and subscribers: what CallsReturn rests on.       *)
THEOREM SomeoneMayContinue == Spec => []NeverAllBlocked
BY SomeoneContinues, BaseInvariant, PTL

-----------------------------------------------------------------------------
(* The steps a thread has left to take in the method it is in.             *)
CallSteps(t) ==
    CASE pc[t] = "publish"                -> MaxCallbacks + 7
      [] pc[t] = "front1"                 -> MaxCallbacks + 6
      [] pc[t] = "front2"                 -> MaxCallbacks + 5
      [] pc[t] \in {"match", "finalize"}  -> MaxCallbacks + 4
      [] pc[t] \in {"publishData1", "finalize1"} -> MaxCallbacks + 3
      [] pc[t] \in {"publishData2", "finalize2"} -> MaxCallbacks + 2
      [] pc[t] \in Delivering             -> Cardinality(todo[t]) + 1
      [] pc[t] = "reset"                  -> 2
      [] pc[t] = "reset2"                 -> 1
      [] OTHER                            -> 0

(* Each step of a thread in a method is one less of a bounded number, and  *)
(* no other thread makes it take more: no path goes back.                  *)
CallsBounded ==
    /\ [](\A t \in Threads : CallSteps(t) \in 0 .. MaxCallbacks + 7)
    /\ [][\A t \in Threads : pc[t] # "idle" =>
            /\ CallSteps(t)' <= CallSteps(t)
            /\ Continue(t) => CallSteps(t)' < CallSteps(t)]_vars

(* There are no more callbacks to call than the bound allows.              *)
LEMMA FewCallbacks ==
    ASSUME BaseInv, NEW S \in SUBSET (0 .. (MaxCallbacks - 1))
    PROVE  IsFiniteSet(S) /\ Cardinality(S) \in 0 .. MaxCallbacks
<1>1. MaxCallbacks \in Nat  BY ConstantsAssumption
<1>2. IsFiniteSet(0 .. (MaxCallbacks - 1)) /\ Cardinality(0 .. (MaxCallbacks - 1)) = MaxCallbacks
  <2>1. 0 \in Int /\ MaxCallbacks - 1 \in Int  BY <1>1
  <2>2. /\ IsFiniteSet(0 .. (MaxCallbacks - 1))
        /\ Cardinality(0 .. (MaxCallbacks - 1))
             = IF 0 > MaxCallbacks - 1 THEN 0 ELSE (MaxCallbacks - 1) - 0 + 1
    BY <2>1, FS_Interval
  <2> QED  BY <1>1, <2>2
<1>3. IsFiniteSet(S) /\ Cardinality(S) <= MaxCallbacks  BY <1>2, FS_Subset
<1>4. Cardinality(S) \in Nat  BY <1>3, FS_CardinalityType
<1> QED  BY <1>1, <1>3, <1>4

LEMMA StepsInRange ==
    ASSUME BaseInv, NEW t \in Threads
    PROVE  CallSteps(t) \in 0 .. MaxCallbacks + 7
<1>1. MaxCallbacks \in Nat  BY ConstantsAssumption
<1>2. todo[t] \in SUBSET (0 .. (MaxCallbacks - 1))  BY DEF BaseInv, TypeOK
<1>3. Cardinality(todo[t]) \in 0 .. MaxCallbacks  BY <1>2, FewCallbacks
<1> QED  BY <1>1, <1>3 DEF CallSteps, Delivering

(* A step in a method brings its thread nearer to the method's end.        *)
LEMMA ContinueShortens ==
    ASSUME BaseInv, NEW t \in Threads, Continue(t)
    PROVE  CallSteps(t)' < CallSteps(t)
<1>0. MaxCallbacks \in Nat /\ pc \in [Threads -> Places] /\ DOMAIN todo = Threads
  BY ConstantsAssumption DEF BaseInv, TypeOK
<1>1. todo[t] \in SUBSET (0 .. (MaxCallbacks - 1)) /\ cb \in SUBSET (0 .. (MaxCallbacks - 1))
  BY CallbacksBounded DEF BaseInv, TypeOK
<1>2. /\ IsFiniteSet(todo[t]) /\ Cardinality(todo[t]) \in 0 .. MaxCallbacks
      /\ Cardinality(cb) \in 0 .. MaxCallbacks
  BY <1>1, FewCallbacks
<1> USE <1>0 DEF Goto, Delivering
<1>3. CASE StartPublish(t) \/ FinalizePublish(t)
  BY <1>3 DEF StartPublish, FinalizePublish, CallSteps
<1>4. CASE Front1(t)  BY <1>4 DEF Front1, ReturnFrom, CallSteps
<1>5. CASE Front2(t)  BY <1>5 DEF Front2, ReturnFrom, CallSteps
<1>6. CASE Match(t)
  <2>1. pc[t] = "match" /\ pc'[t] \in {"publishData1", "idle"}  BY <1>6 DEF Match, Decide
  <2> QED  BY <2>1 DEF CallSteps
<1>7. CASE PublishData1(t) \/ Finalize1(t)
  BY <1>7 DEF PublishData1, Finalize1, LockMutex1, CallSteps
<1>8. CASE PublishData2(t) \/ Finalize2(t)
  <2>1. pc[t] \in {"publishData2", "finalize2"}  BY <1>8 DEF PublishData2, Finalize2, Deliver
  <2>2. \/ pc'[t] \in {"idle", "undefined"}
        \/ pc'[t] \in Delivering /\ todo'[t] = cb
    BY <1>8 DEF PublishData2, Finalize2, Deliver
  <2> QED  BY <1>2, <2>1, <2>2 DEF CallSteps
<1>9. ASSUME NEW id \in cb, Call(t, id) PROVE CallSteps(t)' < CallSteps(t)
  <2>1. pc[t] \in Delivering /\ pc'[t] = pc[t] /\ id \in todo[t] /\ todo'[t] = todo[t] \ {id}
    BY <1>9 DEF Call
  <2>2. Cardinality(todo[t] \ {id}) = Cardinality(todo[t]) - 1  BY <1>2, <2>1, FS_RemoveElement
  <2>3. Cardinality(todo'[t]) = Cardinality(todo[t]) - 1  BY <2>1, <2>2
  <2>4. CallSteps(t) = Cardinality(todo[t]) + 1 /\ CallSteps(t)' = Cardinality(todo'[t]) + 1
    BY <2>1 DEF CallSteps
  <2> QED  BY <1>2, <2>3, <2>4
<1>10. CASE PopFronts(t)
  <2>1. pc[t] \in Delivering /\ pc'[t] = "idle"  BY <1>10 DEF PopFronts, Unlock
  <2> QED  BY <1>2, <2>1 DEF CallSteps
<1>11. CASE Reset1(t) \/ Reset2(t)  BY <1>11 DEF Reset1, Reset2, LockMutex1, CallSteps
<1> QED
  BY <1>3, <1>4, <1>5, <1>6, <1>7, <1>8, <1>9, <1>10, <1>11 DEF Continue

(* A step moves no other thread, and only who is in no method calls one.   *)
LEMMA StepMovesOne ==
    ASSUME BaseInv, NEW t \in Threads, AnyStep(t)
    PROVE  /\ \A u \in Threads \ {t} : pc'[u] = pc[u] /\ todo'[u] = todo[u]
           /\ pc[t] = "idle" \/ Continue(t)
<1>0. pc \in [Threads -> Places] /\ DOMAIN todo = Threads  BY DEF BaseInv, TypeOK
<1> USE <1>0 DEF Goto, locals
<1> DEFINE OneMoves == \A u \in Threads \ {t} : pc'[u] = pc[u] /\ todo'[u] = todo[u]
<1>1. ASSUME Continue(t) PROVE OneMoves
  <2>1. CASE StartPublish(t) \/ Front1(t) \/ Front2(t)
    BY <2>1 DEF StartPublish, Front1, Front2, ReturnFrom
  <2>2. CASE Match(t)  BY <2>2 DEF Match, Decide
  <2>3. CASE PublishData1(t) \/ PublishData2(t)
    BY <2>3 DEF PublishData1, LockMutex1, PublishData2, Deliver
  <2>4. CASE FinalizePublish(t) \/ Finalize1(t) \/ Finalize2(t)
    BY <2>4 DEF FinalizePublish, Finalize1, LockMutex1, Finalize2, Deliver
  <2>5. CASE \E id \in cb : Call(t, id)  BY <2>5 DEF Call
  <2>6. CASE PopFronts(t)  BY <2>6 DEF PopFronts, Unlock
  <2>7. CASE Reset1(t) \/ Reset2(t)  BY <2>7 DEF Reset1, Reset2, LockMutex1
  <2> QED  BY <1>1, <2>1, <2>2, <2>3, <2>4, <2>5, <2>6, <2>7 DEF Continue
<1>2. CASE \E s \in Stamps : Add0(t, s) \/ Add1(t, s)  BY <1>2 DEF Add0, Add1
<1>3. CASE Finalize(t) \/ Reset(t)  BY <1>3 DEF Finalize, Reset
<1>4. CASE Subscribe(t)  BY <1>4 DEF Subscribe, AddCallback, RemoveCallback
<1> QED  BY <1>1, <1>2, <1>3, <1>4 DEF AnyStep, Step, Arrive

(* Nobody takes a thread in a method back. *)
LEMMA StepShortens ==
    ASSUME BaseInv, BaseInv', NEW u \in Threads, AnyStep(u), NEW t \in Threads, pc[t] # "idle"
    PROVE  /\ CallSteps(t)' <= CallSteps(t)
           /\ Continue(t) => CallSteps(t)' < CallSteps(t)
<1>1. CallSteps(t) \in Int /\ MaxCallbacks \in Nat
  BY StepsInRange, ConstantsAssumption
<1>2. CASE Continue(t)
  <2>1. CallSteps(t)' < CallSteps(t)  BY <1>2, ContinueShortens
  <2>2. CallSteps(t)' \in Int
    <3>1. todo'[t] \in SUBSET (0 .. (MaxCallbacks - 1))  BY DEF BaseInv, TypeOK
    <3>2. Cardinality(todo'[t]) \in 0 .. MaxCallbacks  BY <3>1, FewCallbacks
    <3> QED  BY <1>1, <3>2 DEF CallSteps, Delivering
  <2> QED  BY <1>1, <2>1, <2>2
<1>3. CASE ~Continue(t)
  <2>1. t # u /\ pc'[t] = pc[t] /\ todo'[t] = todo[t]  BY <1>3, StepMovesOne
  <2>2. CallSteps(t)' = CallSteps(t)  BY <2>1 DEF CallSteps
  <2> QED  BY <1>1, <1>3, <2>2
<1> QED  BY <1>2, <1>3

(* A call takes a bounded number of steps, and between them only waits for *)
(* mutexes of which one can be got: with SomeoneMayContinue what           *)
(* CallsReturn says but for fairness, with any number of threads.          *)
THEOREM CallsAreBounded == Spec => CallsBounded
<1>1. BaseInv => \A t \in Threads : CallSteps(t) \in 0 .. MaxCallbacks + 7
  BY StepsInRange
<1> DEFINE Shorter(t) == /\ CallSteps(t)' <= CallSteps(t)
                         /\ Continue(t) => CallSteps(t)' < CallSteps(t)
<1>2. BaseInv /\ BaseInv' /\ [Next]_vars => [\A t \in Threads : pc[t] # "idle" => Shorter(t)]_vars
  BY StepShortens DEF Next, AnyStep
<1>3. Spec => [][\A t \in Threads : pc[t] # "idle" => Shorter(t)]_vars
  BY <1>2, BaseInvariant, PTL DEF Spec
<1> QED  BY <1>1, <1>3, BaseInvariant, PTL DEF CallsBounded
=============================================================================
