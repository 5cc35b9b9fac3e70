------------------------ MODULE OpenniRecorderProofs ------------------------
(***************************************************************************)
(* Theorems about the recorder, for buffers of any size and any number of  *)
(* clouds: the types are kept, the consumer never sleeps on a cloud, and   *)
(* what is recorded is in order and complete but for what was overwritten, *)
(* also what is in the buffer when Ctrl-C comes; and from then on there is *)
(* a bounded number of steps to the end, of which somebody can take one.   *)
(***************************************************************************)
EXTENDS OpenniRecorder, SequenceTheorems, TLAPS

(* Between its test of the buffer and its wait() the consumer keeps the    *)
(* buffer's mutex, so that the buffer is still empty when wait() begins.   *)
EmptyUntilWait == consumer = "ioLock" => buffer = <<>>

WakeupInv == EmptyUntilWait /\ NoLostWakeup

-----------------------------------------------------------------------------
(* The ring keeps the newest clouds, as many as fit. *)
LEMMA RingType ==
    ASSUME NEW s \in Seq(1 .. MaxClouds), capacity \in Nat
    PROVE  Ring(s) \in Seq(1 .. MaxClouds) /\ Len(Ring(s)) <= capacity
<1>1. Len(s) \in Nat /\ \A i \in 1 .. Len(s) : s[i] \in 1 .. MaxClouds
  BY ElementOfSeq, LenProperties
<1>2. CASE Len(s) <= capacity
  <2>1. Ring(s) = SubSeq(s, 1, Len(s))
    BY <1>1, <1>2 DEF Ring
  <2>2. SubSeq(s, 1, Len(s)) \in Seq(1 .. MaxClouds) /\ Len(SubSeq(s, 1, Len(s))) = Len(s)
    BY <1>1, SubSeqProperties
  <2> QED
    BY <1>2, <2>1, <2>2
<1>3. CASE ~(Len(s) <= capacity)
  <2> DEFINE first == Len(s) - capacity + 1
  <2>1. Ring(s) = SubSeq(s, first, Len(s))
    BY <1>3 DEF Ring
  <2>2. first \in Int /\ 1 <= first /\ Len(s) - first + 1 = capacity
    BY <1>1, <1>3
  <2> HIDE DEF first
  <2>3. SubSeq(s, first, Len(s)) \in Seq(1 .. MaxClouds) /\ Len(SubSeq(s, first, Len(s))) = capacity
    <3>1. \A i \in first .. Len(s) : s[i] \in 1 .. MaxClouds
      BY <1>1, <2>2
    <3> QED
      BY <1>1, <2>2, <3>1, SubSeqProperties
  <2> QED
    BY <2>1, <2>3
<1> QED
  BY <1>2, <1>3

(* The consumer has a cloud in hand when it writes. *)
TypeInv == TypeOK /\ (consumer = "write" => inHand \in 1 .. MaxClouds)

LEMMA TypeInit == Init => TypeInv
<1> SUFFICES ASSUME Init PROVE TypeInv
  OBVIOUS
<1>1. capacity \in Nat /\ 0 \in 0 .. MaxClouds
  BY RecorderAssumption DEF Init
<1>2. <<>> \in Seq(1 .. MaxClouds) /\ Len(<<>>) = 0
  OBVIOUS
<1>3. capacity \in Capacities /\ buffer \in Seq(1 .. MaxClouds) /\ Len(buffer) <= capacity
  BY <1>1, <1>2 DEF Init
<1>4. isDone \in BOOLEAN /\ draining \in BOOLEAN
  BY DEF Init
<1>5. pushed \in 0 .. MaxClouds /\ inHand \in 0 .. MaxClouds /\ written \in Seq(1 .. MaxClouds)
  BY <1>1, <1>2 DEF Init
<1> QED
  BY <1>3, <1>4, <1>5 DEF Init, TypeOK, TypeInv

(* One step per action; only PushBack and TakeFront touch the buffer. *)
LEMMA TypeStep == TypeInv /\ [Next]_vars => TypeInv'
<1> SUFFICES ASSUME TypeInv, [Next]_vars
             PROVE  TypeInv'
  OBVIOUS
<1> USE RecorderAssumption DEF TypeInv, TypeOK, pushVars, threadVars, consumerVars, ConsumerGoto, MainGoto
<1>1. CASE PushBack
  <2>1. /\ Append(buffer, pushed + 1) \in Seq(1 .. MaxClouds)
        /\ capacity \in Nat
    <3>1. pushed + 1 \in 1 .. MaxClouds
      BY <1>1 DEF PushBack
    <3> QED
      BY <3>1, AppendProperties
  <2>2. Ring(Append(buffer, pushed + 1)) \in Seq(1 .. MaxClouds)
        /\ Len(Ring(Append(buffer, pushed + 1))) <= capacity
    BY <2>1, RingType
  <2>3. overwritten' \subseteq 1 .. MaxClouds
    <3>1. SetOf(Append(buffer, pushed + 1)) \subseteq 1 .. MaxClouds
      BY <2>1 DEF SetOf
    <3> QED
      BY <1>1, <3>1 DEF PushBack
  <2> QED
    BY <1>1, <2>2, <2>3 DEF PushBack
<1>2. CASE Notify
  BY <1>2 DEF Notify, AfterNotify
<1>3. CASE Warn
  BY <1>3 DEF Warn
<1>4. CASE StopGrabber
  BY <1>4 DEF StopGrabber
<1>5. CASE CheckDone
  BY <1>5 DEF CheckDone
<1>6. CASE TakeFront
  <2>1. Head(buffer) \in 1 .. MaxClouds /\ Tail(buffer) \in Seq(1 .. MaxClouds)
        /\ Len(Tail(buffer)) = Len(buffer) - 1 /\ Len(buffer) \in Nat
    BY <1>6, HeadTailProperties DEF TakeFront
  <2> QED
    BY <1>6, <2>1 DEF TakeFront
<1>7. CASE FrontOfEmpty
  BY <1>7 DEF FrontOfEmpty
<1>8. CASE WaitForCloud
  BY <1>8 DEF WaitForCloud
<1>9. CASE SpuriousWakeup
  BY <1>9 DEF SpuriousWakeup
<1>10. CASE WriteToDisk
  <2>1. inHand \in 1 .. MaxClouds
    BY <1>10 DEF WriteToDisk
  <2> QED
    BY <1>10, <2>1, AppendProperties DEF WriteToDisk
<1>11. CASE Announce
  BY <1>11 DEF Announce
<1>12. CASE CheckEmpty
  BY <1>12 DEF CheckEmpty
<1>13. CASE Main
  <2>1. CASE StartProducer  BY <2>1 DEF StartProducer
  <2>2. CASE StartConsumer  BY <2>2 DEF StartConsumer
  <2>3. CASE JoinProducer  BY <2>3 DEF JoinProducer
  <2>4. CASE JoinConsumer  BY <2>4 DEF JoinConsumer
  <2> QED  BY <1>13, <2>1, <2>2, <2>3, <2>4 DEF Main
<1>14. CASE CtrlC
  BY <1>14 DEF CtrlC
<1>15. CASE UNCHANGED vars
  BY <1>15 DEF vars
<1> QED
  BY <1>1, <1>2, <1>3, <1>4, <1>5, <1>6, <1>7, <1>8, <1>9, <1>10, <1>11, <1>12, <1>13,
     <1>14, <1>15 DEF Next, Callback, Consume

-----------------------------------------------------------------------------
LEMMA WakeupInit == Init => WakeupInv
BY DEF Init, WakeupInv, EmptyUntilWait, NoLostWakeup

(* A push finds the mutex free and notifies after it; whoever takes a      *)
(* cloud is awake; wait() follows a test that found nothing.               *)
LEMMA WakeupStep == WakeupInv /\ [Next]_vars => WakeupInv'
<1> SUFFICES ASSUME WakeupInv, [Next]_vars
             PROVE  WakeupInv'
  OBVIOUS
<1> USE DEF WakeupInv, EmptyUntilWait, NoLostWakeup, pushVars, threadVars, consumerVars,
        ConsumerGoto, MainGoto
<1>1. CASE PushBack
  BY <1>1 DEF PushBack, BufferMutexFree
<1>2. CASE Notify
  BY <1>2 DEF Notify, AfterNotify
<1>3. CASE Warn
  BY <1>3 DEF Warn
<1>4. CASE StopGrabber
  BY <1>4 DEF StopGrabber
<1>5. CASE CheckDone
  BY <1>5 DEF CheckDone
<1>6. CASE TakeFront
  BY <1>6 DEF TakeFront
<1>7. CASE FrontOfEmpty
  BY <1>7 DEF FrontOfEmpty
<1>8. CASE WaitForCloud
  BY <1>8 DEF WaitForCloud
<1>9. CASE SpuriousWakeup
  BY <1>9 DEF SpuriousWakeup
<1>10. CASE WriteToDisk
  BY <1>10 DEF WriteToDisk
<1>11. CASE Announce
  BY <1>11 DEF Announce
<1>12. CASE CheckEmpty
  BY <1>12 DEF CheckEmpty
<1>13. CASE Main
  BY <1>13 DEF Main, StartProducer, StartConsumer, JoinProducer, JoinConsumer
<1>14. CASE CtrlC
  BY <1>14 DEF CtrlC
<1>15. CASE UNCHANGED vars
  BY <1>15 DEF vars
<1> QED
  BY <1>1, <1>2, <1>3, <1>4, <1>5, <1>6, <1>7, <1>8, <1>9, <1>10, <1>11, <1>12, <1>13,
     <1>14, <1>15 DEF Next, Callback, Consume

-----------------------------------------------------------------------------
(* Every variable of the recorder keeps its type, and the ring never holds *)
(* more than its capacity, which may be 0.                                 *)
THEOREM TypeCorrect == Spec => []TypeOK
<1>1. Spec => []TypeInv
  BY TypeInit, TypeStep, PTL DEF Spec
<1>2. TypeInv => TypeOK
  BY DEF TypeInv
<1> QED
  BY <1>1, <1>2, PTL

(* The consumer never sleeps on a cloud that nobody is going to announce:  *)
(* getFront() tests and waits under the mutex pushBack() holds.            *)
THEOREM WakeupNeverLost == Spec => []NoLostWakeup
<1>1. Spec => []WakeupInv
  BY WakeupInit, WakeupStep, PTL DEF Spec
<1>2. WakeupInv => NoLostWakeup
  BY DEF WakeupInv
<1> QED
  BY <1>1, <1>2, PTL

-----------------------------------------------------------------------------
(* The buffer holds the newest clouds; of those before them each is on     *)
(* disk, with the writer or overwritten, and what is on disk is in order.  *)
Gone == pushed - Len(buffer)
Hand == IF consumer = "write" THEN {inHand} ELSE {}

BufferInv == Gone \in Nat /\ \A i \in 1 .. Len(buffer) : buffer[i] = Gone + i

DiskInv ==
    /\ \A i, j \in 1 .. Len(written) : i < j => written[i] < written[j]
    /\ consumer = "write" => \A i \in 1 .. Len(written) : written[i] < inHand
    /\ SetOf(written) \union Hand \union overwritten = 1 .. Gone
    /\ (SetOf(written) \union Hand) \intersect overwritten = {}

(* The consumer is born once. *)
UnbornInv == main \in {"startProducer", "startConsumer"} => consumer = "unborn"

RecordInv == TypeInv /\ BufferInv /\ DiskInv /\ UnbornInv

LEMMA RecordInit == Init => RecordInv
<1> SUFFICES ASSUME Init PROVE RecordInv
  OBVIOUS
<1>1. TypeInv
  BY TypeInit
<1>2. Gone = 0 /\ Hand = {} /\ SetOf(written) = {}
  <2>1. Len(<<>>) = 0 /\ 1 .. 0 = {}
    OBVIOUS
  <2>2. Gone = 0 /\ Hand = {}
    <3>1. Len(buffer) = 0 /\ pushed = 0 /\ consumer = "unborn"
      BY <2>1 DEF Init
    <3> QED
      BY <3>1 DEF Gone, Hand
  <2>3. Len(written) = 0
    BY <2>1 DEF Init
  <2> QED
    BY <2>1, <2>2, <2>3 DEF SetOf
<1>3. BufferInv
  BY <1>2 DEF Init, BufferInv
<1>4. DiskInv
  BY <1>2 DEF Init, DiskInv
<1> QED
  BY <1>1, <1>3, <1>4 DEF RecordInv, UnbornInv, Init

(* pushBack() adds the next cloud, and drops the oldest one if it must. *)
LEMMA PushRecords == RecordInv /\ PushBack => BufferInv' /\ DiskInv'
<1> SUFFICES ASSUME RecordInv, PushBack
             PROVE  BufferInv' /\ DiskInv'
  OBVIOUS
<1> DEFINE n == Len(buffer)
           all == Append(buffer, pushed + 1)
<1>1. /\ buffer \in Seq(1 .. MaxClouds) /\ n \in Nat /\ n <= capacity
      /\ capacity \in Nat /\ pushed \in Nat /\ pushed + 1 \in 1 .. MaxClouds
  BY RecorderAssumption, LenProperties DEF RecordInv, TypeInv, TypeOK, PushBack
<1>2. /\ all \in Seq(1 .. MaxClouds) /\ Len(all) = n + 1
      /\ \A i \in 1 .. n + 1 : all[i] = Gone + i
  <2>1. /\ all \in Seq(1 .. MaxClouds) /\ Len(all) = n + 1 /\ all[n + 1] = pushed + 1
        /\ \A i \in 1 .. n : all[i] = buffer[i]
    BY <1>1, AppendProperties
  <2>2. pushed + 1 = Gone + (n + 1)
    BY <1>1 DEF Gone
  <2> QED
    BY <1>1, <2>1, <2>2 DEF RecordInv, BufferInv
<1>3. /\ buffer' = Ring(all) /\ pushed' = pushed + 1
      /\ overwritten' = overwritten \union (SetOf(all) \ SetOf(Ring(all)))
      /\ UNCHANGED <<consumer, inHand, written>>
  BY DEF PushBack, consumerVars
<1>4. Hand' = Hand /\ SetOf(written)' = SetOf(written)
  BY <1>3 DEF Hand, SetOf
<1>5. Gone \in Nat
  BY DEF RecordInv, BufferInv
<1> HIDE DEF n, all
<1>6. CASE n + 1 <= capacity
  <2>1. Ring(all) = all
    <3>1. Ring(all) = SubSeq(all, 1, Len(all))
      BY <1>1, <1>2, <1>6 DEF Ring
    <3> QED
      BY <1>1, <1>2, <3>1, SubSeqProperties
  <2>2. Gone' = Gone
    BY <1>1, <1>2, <1>3, <2>1 DEF Gone, n
  <2>3. overwritten' = overwritten
    BY <1>3, <2>1
  <2> QED
    BY <1>2, <1>3, <1>4, <1>5, <2>1, <2>2, <2>3 DEF RecordInv, BufferInv, DiskInv
<1>7. CASE ~(n + 1 <= capacity)
  <2>1. Ring(all) = SubSeq(all, 2, n + 1)
    <3>1. Len(all) - capacity + 1 = 2
      BY <1>1, <1>2, <1>7
    <3> QED
      BY <1>1, <1>2, <1>7, <3>1 DEF Ring
  <2>2. /\ Len(Ring(all)) = n
        /\ \A i \in 1 .. n : Ring(all)[i] = Gone + i + 1
    <3>1. \A i \in 2 .. n + 1 : all[i] \in 1 .. MaxClouds
      <4>1. \A i \in 1 .. Len(all) : all[i] \in 1 .. MaxClouds
        BY <1>2, ElementOfSeq
      <4> QED
        BY <1>1, <1>2, <4>1
    <3>2. /\ Len(SubSeq(all, 2, n + 1)) = n
          /\ \A i \in 1 .. n : SubSeq(all, 2, n + 1)[i] = all[i + 1]
      BY <1>1, <1>2, <3>1, SubSeqProperties
    <3> QED
      BY <1>1, <1>2, <1>5, <2>1, <3>2
  <2>3. Gone' = Gone + 1
    BY <1>1, <1>3, <2>2 DEF Gone, n
  <2>4. BufferInv'
    <3>1. Len(buffer') = n /\ Gone' \in Nat
      BY <1>3, <1>5, <2>2, <2>3
    <3>2. \A i \in 1 .. n : buffer'[i] = Gone' + i
      BY <1>1, <1>3, <1>5, <2>2, <2>3
    <3> QED
      BY <3>1, <3>2 DEF BufferInv
  <2>5. SetOf(all) \ SetOf(Ring(all)) = {Gone + 1}
    <3>1. SetOf(Ring(all)) = {Gone + i + 1 : i \in 1 .. n}
      BY <2>2 DEF SetOf
    <3>2. SetOf(all) = {Gone + i : i \in 1 .. n + 1}
      BY <1>2 DEF SetOf
    <3>3. ASSUME NEW c \in SetOf(all), c # Gone + 1 PROVE c \in SetOf(Ring(all))
      <4>1. PICK i \in 1 .. n + 1 : c = Gone + i
        BY <3>2
      <4>2. i - 1 \in 1 .. n /\ c = Gone + (i - 1) + 1
        BY <1>1, <1>5, <3>3, <4>1
      <4> QED
        BY <3>1, <4>2
    <3>4. Gone + 1 \in SetOf(all) /\ Gone + 1 \notin SetOf(Ring(all))
      BY <1>1, <1>5, <3>1, <3>2
    <3> QED
      BY <3>3, <3>4
  <2>6. DiskInv'
    <3>1. overwritten' = overwritten \union {Gone + 1}
      BY <1>3, <2>5
    <3>2. 1 .. Gone' = (1 .. Gone) \union {Gone + 1} /\ Gone + 1 \notin 1 .. Gone
      BY <1>5, <2>3
    <3> QED
      BY <1>3, <1>4, <3>1, <3>2 DEF RecordInv, DiskInv
  <2> QED
    BY <2>4, <2>6
<1> QED
  BY <1>6, <1>7

(* getFront() takes the oldest cloud there is. *)
LEMMA TakeRecords == RecordInv /\ TakeFront => BufferInv' /\ DiskInv'
<1> SUFFICES ASSUME RecordInv, TakeFront
             PROVE  BufferInv' /\ DiskInv'
  OBVIOUS
<1>1. /\ buffer \in Seq(1 .. MaxClouds) /\ buffer # <<>> /\ pushed \in Nat /\ Gone \in Nat
      /\ consumer = "front" /\ consumer' = "write"
  BY RecorderAssumption
     DEF RecordInv, TypeInv, TypeOK, BufferInv, TakeFront, ConsumerGoto
<1>2. /\ Head(buffer) = buffer[1] /\ Len(Tail(buffer)) = Len(buffer) - 1 /\ Len(buffer) \in Nat \ {0}
      /\ \A i \in 1 .. Len(Tail(buffer)) : Tail(buffer)[i] = buffer[i + 1]
  BY <1>1, HeadTailProperties, LenProperties
<1>3. Gone' = Gone + 1
  BY <1>1, <1>2 DEF TakeFront, Gone, pushVars
<1>4. inHand' = Gone + 1
  BY <1>2 DEF TakeFront, RecordInv, BufferInv
<1>5. BufferInv'
  <2>1. \A i \in 1 .. Len(buffer) - 1 : Tail(buffer)[i] = Gone + 1 + i
    BY <1>1, <1>2 DEF RecordInv, BufferInv
  <2> QED
    BY <1>1, <1>2, <1>3, <2>1 DEF BufferInv, TakeFront
<1>6. DiskInv'
  <2>1. Hand = {} /\ Hand' = {Gone + 1} /\ SetOf(written)' = SetOf(written)
    BY <1>1, <1>4 DEF Hand, SetOf, TakeFront
  <2>2. SetOf(written) \subseteq 1 .. Gone /\ overwritten \subseteq 1 .. Gone
    BY DEF RecordInv, DiskInv
  <2>3. \A i \in 1 .. Len(written) : written[i] < Gone + 1
    <3>1. \A i \in 1 .. Len(written) : written[i] \in SetOf(written)
      BY DEF SetOf
    <3>2. \A c \in 1 .. Gone : c < Gone + 1
      BY <1>1
    <3> QED
      BY <2>2, <3>1, <3>2
  <2>4. 1 .. Gone' = (1 .. Gone) \union {Gone + 1} /\ Gone + 1 \notin 1 .. Gone
    BY <1>1, <1>3
  <2>5. UNCHANGED <<written, overwritten>>
    BY DEF TakeFront, pushVars
  <2> QED
    BY <1>4, <2>1, <2>2, <2>3, <2>4, <2>5 DEF RecordInv, DiskInv
<1> QED
  BY <1>5, <1>6

(* writeToDisk() puts the cloud in hand behind those on disk. *)
LEMMA WriteRecords == RecordInv /\ WriteToDisk => BufferInv' /\ DiskInv'
<1> SUFFICES ASSUME RecordInv, WriteToDisk
             PROVE  BufferInv' /\ DiskInv'
  OBVIOUS
<1> DEFINE n == Len(written)
<1>1. /\ written \in Seq(1 .. MaxClouds) /\ n \in Nat /\ inHand \in 1 .. MaxClouds
      /\ consumer = "write" /\ consumer' # "write" /\ written' = Append(written, inHand)
  BY LenProperties DEF RecordInv, TypeInv, TypeOK, WriteToDisk, ConsumerGoto
<1>2. Gone' = Gone /\ UNCHANGED <<buffer, overwritten>>
  BY DEF WriteToDisk, Gone, pushVars
<1>3. /\ Len(written') = n + 1 /\ written'[n + 1] = inHand
      /\ \A i \in 1 .. n : written'[i] = written[i]
  BY <1>1, AppendProperties
<1>4. SetOf(written)' = SetOf(written) \union {inHand} /\ Hand = {inHand} /\ Hand' = {}
  <2>1. SetOf(written)' = {written'[i] : i \in 1 .. n + 1}
    BY <1>3 DEF SetOf
  <2>2. 1 .. n + 1 = (1 .. n) \union {n + 1}
    BY <1>1
  <2>3. SetOf(written)' = {written'[i] : i \in 1 .. n} \union {inHand}
    BY <1>3, <2>1, <2>2
  <2> QED
    BY <1>1, <1>3, <2>3 DEF SetOf, Hand
<1>5. \A i, j \in 1 .. n + 1 : i < j => written'[i] < written'[j]
  <2> SUFFICES ASSUME NEW i \in 1 .. n + 1, NEW j \in 1 .. n + 1, i < j
               PROVE  written'[i] < written'[j]
    OBVIOUS
  <2>1. i \in 1 .. n
    BY <1>1
  <2>2. CASE j = n + 1
    BY <1>1, <1>3, <2>1, <2>2 DEF RecordInv, DiskInv
  <2>3. CASE j # n + 1
    <3>1. j \in 1 .. n
      BY <1>1, <2>3
    <3> QED
      BY <1>3, <2>1, <3>1 DEF RecordInv, DiskInv
  <2> QED
    BY <2>2, <2>3
<1>6. DiskInv'
  BY <1>1, <1>2, <1>3, <1>4, <1>5 DEF RecordInv, DiskInv
<1>7. BufferInv'
  BY <1>2 DEF RecordInv, BufferInv
<1> QED
  BY <1>6, <1>7

LEMMA RecordStep == RecordInv /\ [Next]_vars => RecordInv'
<1> SUFFICES ASSUME RecordInv, [Next]_vars
             PROVE  RecordInv'
  OBVIOUS
<1>1. TypeInv'
  BY TypeStep DEF RecordInv
<1>0. UnbornInv'
  <2> USE DEF RecordInv, UnbornInv, pushVars, threadVars, consumerVars, ConsumerGoto, MainGoto
  <2>1. CASE PushBack  BY <2>1 DEF PushBack
  <2>2. CASE Callback  BY <2>2 DEF Callback, Notify, Warn
  <2>3. CASE StopGrabber  BY <2>3 DEF StopGrabber
  <2>4. CASE Consume
    BY <2>4 DEF Consume, CheckDone, TakeFront, FrontOfEmpty, WaitForCloud, WriteToDisk,
       Announce, CheckEmpty
  <2>5. CASE SpuriousWakeup  BY <2>5 DEF SpuriousWakeup
  <2>6. CASE Main  BY <2>6 DEF Main, StartProducer, StartConsumer, JoinProducer, JoinConsumer
  <2>7. CASE CtrlC  BY <2>7 DEF CtrlC
  <2>8. CASE UNCHANGED vars  BY <2>8 DEF vars
  <2> QED
    BY <2>1, <2>2, <2>3, <2>4, <2>5, <2>6, <2>7, <2>8 DEF Next
<1>2. CASE PushBack \/ TakeFront \/ WriteToDisk
  BY <1>0, <1>1, <1>2, PushRecords, TakeRecords, WriteRecords DEF RecordInv
<1>3. CASE ~(PushBack \/ TakeFront \/ WriteToDisk)
  <2>1. /\ UNCHANGED <<buffer, pushed, overwritten, inHand, written>>
        /\ consumer = "write" <=> consumer' = "write"
    <3> USE DEF pushVars, consumerVars, ConsumerGoto
    <3>1. CASE Notify  BY <3>1 DEF Notify
    <3>2. CASE Warn  BY <3>2 DEF Warn
    <3>3. CASE StopGrabber  BY <3>3 DEF StopGrabber
    <3>4. CASE CheckDone  BY <3>4 DEF CheckDone
    <3>5. CASE FrontOfEmpty  BY <3>5 DEF FrontOfEmpty
    <3>6. CASE WaitForCloud  BY <3>6 DEF WaitForCloud
    <3>7. CASE SpuriousWakeup  BY <3>7 DEF SpuriousWakeup
    <3>8. CASE Announce  BY <3>8 DEF Announce
    <3>9. CASE CheckEmpty  BY <3>9 DEF CheckEmpty
    <3>10. CASE StartProducer \/ JoinProducer \/ JoinConsumer
      BY <3>10 DEF StartProducer, JoinProducer, JoinConsumer
    <3>11. CASE StartConsumer
      BY <3>11 DEF StartConsumer, RecordInv, UnbornInv, MainGoto
    <3>12. CASE CtrlC  BY <3>12 DEF CtrlC
    <3>13. CASE UNCHANGED vars  BY <3>13 DEF vars
    <3> QED
      BY <1>3, <3>1, <3>2, <3>3, <3>4, <3>5, <3>6, <3>7, <3>8, <3>9, <3>10, <3>11, <3>12, <3>13
         DEF Next, Callback, Consume, Main
  <2>2. Hand' = Hand /\ Gone' = Gone /\ SetOf(written)' = SetOf(written)
    BY <2>1 DEF Hand, Gone, SetOf
  <2> QED
    BY <1>0, <1>1, <2>1, <2>2 DEF RecordInv, BufferInv, DiskInv
<1> QED
  BY <1>2, <1>3

-----------------------------------------------------------------------------
Increasing(s) == \A i, j \in 1 .. Len(s) : i < j => s[i] < s[j]

(* Two increasing sequences, all of the first before all of the second. *)
LEMMA ConcatIncreasing ==
    ASSUME NEW s \in Seq(1 .. MaxClouds), NEW t \in Seq(1 .. MaxClouds),
           Increasing(s), Increasing(t),
           \A i \in 1 .. Len(s) : \A j \in 1 .. Len(t) : s[i] < t[j]
    PROVE  /\ s \o t \in Seq(1 .. MaxClouds)
           /\ Increasing(s \o t)
           /\ SetOf(s \o t) = SetOf(s) \union SetOf(t)
<1> DEFINE m == Len(s)
           n == Len(t)
           c == s \o t
<1>1. m \in Nat /\ n \in Nat
  BY LenProperties
<1>2. /\ c \in Seq(1 .. MaxClouds) /\ Len(c) = m + n
      /\ \A i \in 1 .. m + n : c[i] = IF i <= m THEN s[i] ELSE t[i - m]
  BY ConcatProperties
<1>3. \A i \in 1 .. m : c[i] = s[i]
  BY <1>1, <1>2
<1>4. \A i \in m + 1 .. m + n : i - m \in 1 .. n /\ c[i] = t[i - m]
  BY <1>1, <1>2
<1> HIDE DEF c
<1>5. Increasing(c)
  <2> SUFFICES ASSUME NEW i \in 1 .. m + n, NEW j \in 1 .. m + n, i < j
               PROVE  c[i] < c[j]
    BY <1>2 DEF Increasing
  <2>1. CASE j <= m
    <3>1. i \in 1 .. m /\ j \in 1 .. m
      BY <1>1, <2>1
    <3> QED
      BY <1>3, <3>1 DEF Increasing
  <2>2. CASE i <= m /\ ~(j <= m)
    <3>1. i \in 1 .. m /\ j \in m + 1 .. m + n
      BY <1>1, <2>2
    <3> QED
      BY <1>3, <1>4, <3>1
  <2>3. CASE ~(i <= m)
    <3>1. i \in m + 1 .. m + n /\ j \in m + 1 .. m + n /\ i - m < j - m
      BY <1>1, <2>3
    <3> QED
      BY <1>4, <3>1 DEF Increasing
  <2> QED
    BY <2>1, <2>2, <2>3
<1>6. SetOf(c) = SetOf(s) \union SetOf(t)
  <2>1. SetOf(c) = {c[i] : i \in 1 .. m + n}
    BY <1>2 DEF SetOf
  <2>2. ASSUME NEW x \in SetOf(c) PROVE x \in SetOf(s) \union SetOf(t)
    <3>1. PICK i \in 1 .. m + n : x = c[i]
      BY <2>1
    <3>2. i \in 1 .. m \/ i \in m + 1 .. m + n
      BY <1>1
    <3> QED
      BY <1>3, <1>4, <3>1, <3>2 DEF SetOf
  <2>3. ASSUME NEW x \in SetOf(s) PROVE x \in SetOf(c)
    <3>1. PICK i \in 1 .. m : x = s[i]
      BY DEF SetOf
    <3>2. i \in 1 .. m + n
      BY <1>1
    <3> QED
      BY <1>3, <2>1, <3>1, <3>2
  <2>4. ASSUME NEW x \in SetOf(t) PROVE x \in SetOf(c)
    <3>1. PICK i \in 1 .. n : x = t[i]
      BY DEF SetOf
    <3>2. m + i \in m + 1 .. m + n /\ m + i \in 1 .. m + n /\ (m + i) - m = i
      BY <1>1
    <3> QED
      BY <1>4, <2>1, <3>1, <3>2
  <2> QED
    BY <2>2, <2>3, <2>4
<1> QED
  BY <1>2, <1>5, <1>6 DEF c

LEMMA RecordedFromInv == RecordInv => RecordedInOrder
<1> SUFFICES ASSUME RecordInv PROVE RecordedInOrder
  OBVIOUS
<1> DEFINE hand == IF consumer = "write" THEN <<inHand>> ELSE <<>>
           front == written \o hand
<1>1. /\ written \in Seq(1 .. MaxClouds) /\ buffer \in Seq(1 .. MaxClouds)
      /\ pushed \in Nat /\ Gone \in Nat /\ Len(buffer) \in Nat
      /\ (consumer = "write" => inHand \in 1 .. MaxClouds)
  BY RecorderAssumption, LenProperties DEF RecordInv, TypeInv, TypeOK, BufferInv
<1>2. hand \in Seq(1 .. MaxClouds) /\ Increasing(hand) /\ SetOf(hand) = Hand
      /\ \A i \in 1 .. Len(written) : \A j \in 1 .. Len(hand) : written[i] < hand[j]
  <2>1. CASE consumer = "write"
    <3>1. hand = <<inHand>> /\ Hand = {inHand}
      BY <2>1 DEF Hand
    <3>2. <<inHand>> \in Seq(1 .. MaxClouds) /\ Len(<<inHand>>) = 1 /\ <<inHand>>[1] = inHand
      BY <1>1, <2>1
    <3>3. \A i \in 1 .. Len(hand) : i = 1
      BY <3>1, <3>2
    <3>4. Increasing(hand)
      BY <3>3 DEF Increasing
    <3>5. SetOf(hand) = {inHand}
      BY <3>1, <3>2, <3>3 DEF SetOf
    <3>6. \A i \in 1 .. Len(written) : written[i] < inHand
      BY <2>1 DEF RecordInv, DiskInv
    <3> QED
      BY <3>1, <3>2, <3>3, <3>4, <3>5, <3>6
  <2>2. CASE consumer # "write"
    <3>1. hand = <<>> /\ Hand = {}
      BY <2>2 DEF Hand
    <3>2. <<>> \in Seq(1 .. MaxClouds) /\ \A i \in 1 .. Len(<<>>) : FALSE
      OBVIOUS
    <3> QED
      BY <3>1, <3>2 DEF Increasing, SetOf
  <2> QED
    BY <2>1, <2>2
<1> HIDE DEF hand
<1>3. Increasing(written)
  BY DEF RecordInv, DiskInv, Increasing
<1>4. /\ front \in Seq(1 .. MaxClouds) /\ Increasing(front)
      /\ SetOf(front) = SetOf(written) \union Hand
  BY <1>1, <1>2, <1>3, ConcatIncreasing
<1> HIDE DEF front
<1>5. \A i \in 1 .. Len(buffer) : buffer[i] = Gone + i
  BY DEF RecordInv, BufferInv
<1>6. Increasing(buffer)
  BY <1>1, <1>5 DEF Increasing
<1>7. SetOf(front) \subseteq 1 .. Gone /\ overwritten \subseteq 1 .. Gone
      /\ SetOf(front) \union overwritten = 1 .. Gone
      /\ SetOf(front) \intersect overwritten = {}
  BY <1>4 DEF RecordInv, DiskInv
<1>8. \A c \in 1 .. Gone : \A j \in 1 .. Len(buffer) : c < buffer[j]
  BY <1>1, <1>5
<1>9. \A i \in 1 .. Len(front) : \A j \in 1 .. Len(buffer) : front[i] < buffer[j]
  <2>1. \A i \in 1 .. Len(front) : front[i] \in SetOf(front)
    BY DEF SetOf
  <2> QED
    BY <1>7, <1>8, <2>1
<1>10. Track = front \o buffer
  BY ConcatAssociative, <1>1, <1>2 DEF Track, front, hand
<1>11. Increasing(Track) /\ SetOf(Track) = SetOf(front) \union SetOf(buffer)
  BY <1>1, <1>4, <1>6, <1>9, <1>10, ConcatIncreasing
<1>12. SetOf(buffer) = Gone + 1 .. pushed
  <2>1. Len(buffer) = pushed - Gone
    BY <1>1 DEF Gone
  <2>2. ASSUME NEW c \in Gone + 1 .. pushed PROVE c \in SetOf(buffer)
    <3>1. c - Gone \in 1 .. Len(buffer) /\ Gone + (c - Gone) = c
      BY <1>1, <2>1
    <3> QED
      BY <1>5, <3>1 DEF SetOf
  <2>3. ASSUME NEW c \in SetOf(buffer) PROVE c \in Gone + 1 .. pushed
    <3>1. PICK i \in 1 .. Len(buffer) : c = buffer[i]
      BY DEF SetOf
    <3> QED
      BY <1>1, <1>5, <2>1, <3>1
  <2> QED
    BY <2>2, <2>3
<1>13. /\ 1 .. pushed = (1 .. Gone) \union (Gone + 1 .. pushed)
       /\ (1 .. Gone) \intersect (Gone + 1 .. pushed) = {}
  <2>1. pushed >= Gone
    BY <1>1 DEF Gone
  <2> QED
    BY <1>1, <2>1
<1> QED
  BY <1>7, <1>8, <1>11, <1>12, <1>13 DEF RecordedInOrder, Increasing

(* No cloud is recorded twice, out of order or without a trace: whatever   *)
(* the buffer's size, each of those the camera delivered is on disk, with  *)
(* the writer, in the buffer or overwritten by newer ones.                 *)
THEOREM RecordsInOrder == Spec => []RecordedInOrder
<1>1. Spec => []RecordInv
  BY RecordInit, RecordStep, PTL DEF Spec
<1> QED
  BY <1>1, RecordedFromInv, PTL

-----------------------------------------------------------------------------
(* The consumer leaves its first loop only after Ctrl-C, and main() returns *)
(* only when it has ended.                                                 *)
EndInv ==
    /\ consumer \in {"announce", "size", "isEmpty", "done"} \/ draining => isDone
    /\ main = "end" => consumer = "done"

LEMMA EndStep == RecordInv /\ EndInv /\ [Next]_vars => EndInv'
<1> SUFFICES ASSUME RecordInv, EndInv, [Next]_vars PROVE EndInv'
  OBVIOUS
<1> USE DEF EndInv, ConsumerGoto, MainGoto, pushVars, threadVars, consumerVars
<1>1. CASE PushBack  BY <1>1 DEF PushBack
<1>2. CASE Callback  BY <1>2 DEF Callback, Notify, Warn
<1>3. CASE StopGrabber  BY <1>3 DEF StopGrabber
<1>4. CASE Consume
  BY <1>4 DEF Consume, CheckDone, TakeFront, FrontOfEmpty, WaitForCloud, WriteToDisk, Announce,
              CheckEmpty
<1>5. CASE SpuriousWakeup  BY <1>5 DEF SpuriousWakeup
<1>6. CASE Main
  BY <1>6 DEF Main, StartProducer, StartConsumer, JoinProducer, JoinConsumer
<1>7. CASE CtrlC  BY <1>7 DEF CtrlC
<1>8. CASE UNCHANGED vars  BY <1>8 DEF vars
<1> QED
  BY <1>1, <1>2, <1>3, <1>4, <1>5, <1>6, <1>7, <1>8 DEF Next

(* What was delivered and is not lost when the consumer ends. *)
Kept(c) == c <= pushed /\ (consumer = "done" => c \in SetOf(written) \union overwritten)

(* The consumer ends on an empty buffer with nothing in its hand: each     *)
(* cloud delivered by then is on disk or was overwritten.                  *)
LEMMA KeptStep ==
    ASSUME NEW c \in 1 .. MaxClouds, RecordInv, Kept(c), [Next]_vars
    PROVE  Kept(c)'
<1> USE DEF Kept, ConsumerGoto, MainGoto, pushVars, threadVars, consumerVars
<1>1. pushed \in Nat  BY RecorderAssumption DEF RecordInv, TypeInv, TypeOK
<1>2. CASE PushBack
  BY <1>1, <1>2 DEF PushBack, SetOf
<1>3. CASE Callback  BY <1>3 DEF Callback, Notify, Warn, SetOf
<1>4. CASE StopGrabber  BY <1>4 DEF StopGrabber, SetOf
<1>5. CASE CheckEmpty
  <2>1. CASE buffer = <<>>
    <3>1. Gone = pushed /\ Hand = {} /\ UNCHANGED <<pushed, written, overwritten>>
      BY <1>1, <1>5, <2>1 DEF CheckEmpty, Gone, Hand
    <3>2. c \in SetOf(written) \union overwritten
      BY <1>1, <3>1 DEF RecordInv, DiskInv
    <3> QED  BY <3>1, <3>2 DEF SetOf
  <2>2. CASE buffer # <<>>  BY <1>5, <2>2 DEF CheckEmpty
  <2> QED  BY <2>1, <2>2
<1>6. CASE Consume /\ ~CheckEmpty
  <2>1. consumer' # "done" /\ UNCHANGED pushed
    BY <1>6 DEF Consume, CheckDone, TakeFront, FrontOfEmpty, WaitForCloud, WriteToDisk, Announce
  <2> QED  BY <2>1
<1>7. CASE SpuriousWakeup  BY <1>7 DEF SpuriousWakeup
<1>8. CASE Main
  BY <1>8 DEF Main, StartProducer, StartConsumer, JoinProducer, JoinConsumer, SetOf
<1>9. CASE CtrlC  BY <1>9 DEF CtrlC, SetOf
<1>10. CASE UNCHANGED vars  BY <1>10 DEF vars, SetOf
<1> QED
  BY <1>2, <1>3, <1>4, <1>5, <1>6, <1>7, <1>8, <1>9, <1>10 DEF Next

(* However early the consumer finds the buffer empty, and however late the *)
(* grabber stops, a cloud delivered before Ctrl-C is on disk or was        *)
(* overwritten when the program has ended, for buffers of any size.        *)
THEOREM WritesRemaining == Spec => RemainingWritten
<1>1. Spec => [](RecordInv /\ EndInv)
  <2>1. Init => EndInv  BY DEF Init, EndInv
  <2> QED  BY <2>1, RecordInit, RecordStep, EndStep, PTL DEF Spec
<1>2. ASSUME NEW c \in 1 .. MaxClouds
      PROVE  Spec => [](~isDone /\ pushed >= c
                          => [](main = "end" => c \in SetOf(written) \union overwritten))
  <2>1. RecordInv /\ EndInv /\ ~isDone /\ pushed >= c => Kept(c)
    BY RecorderAssumption DEF RecordInv, TypeInv, TypeOK, EndInv, Kept
  <2>2. RecordInv /\ Kept(c) /\ [Next]_vars => Kept(c)'
    BY KeptStep
  <2>3. EndInv /\ Kept(c) => (main = "end" => c \in SetOf(written) \union overwritten)
    BY DEF EndInv, Kept
  <2> QED  BY <1>1, <2>1, <2>2, <2>3, PTL DEF Spec
<1> QED  BY <1>2 DEF RemainingWritten

-----------------------------------------------------------------------------
(* How the program ends.  Where the threads are after Ctrl-C: the consumer *)
(* writes what remains only then, and on that way it finds a cloud each    *)
(* time it goes to the front of the buffer, for the others only add to it. *)
EndingInv ==
    /\ main \in {"startProducer", "startConsumer"} => consumer = "unborn" /\ ~isDone
    /\ main \notin {"startProducer", "startConsumer"} => consumer # "unborn"
    /\ main \in {"joinConsumer", "end"} => producer = "stopped"
    /\ main = "joinProducer" => producer # "unborn"
    /\ main = "startConsumer" => producer # "unborn"
    /\ consumer \in {"announce", "size", "isEmpty", "done"} => isDone
    /\ consumer \in {"size", "isEmpty", "done"} => draining
    /\ draining =>
         /\ isDone
         /\ consumer \in {"size", "isEmpty", "front", "write", "done"}
         /\ consumer = "front" => buffer # <<>>

(* What a thread would do next is not kept from it: each line is the guard *)
(* of a step that a thread takes by itself, no cloud and no user needed.   *)
MayGoOn ==
    \/ grabber \in {"notify", "notifyAndWarn"}
    \/ grabber = "warn" /\ IoMutexFree
    \/ producer = "running" /\ isDone
    \/ consumer \in {"loop", "front", "write", "announce", "isEmpty"}
    \/ consumer = "ioLock" /\ IoMutexFree
    \/ consumer = "size" /\ BufferMutexFree
    \/ main = "joinProducer" /\ producer = "stopped" /\ IoMutexFree
    \/ main = "joinConsumer" /\ consumer = "done"

(* After Ctrl-C some thread may go on, or the program has ended, or the    *)
(* consumer is where nobody wakes it: asleep before a cloud that will not  *)
(* come, or past the front of an empty buffer, neither of them where it    *)
(* writes the remaining clouds.                                            *)
NotStuck ==
    /\ isDone => \/ MayGoOn
                 \/ main = "end"
                 \/ consumer \in {"waiting", "undefined"}
    /\ draining => consumer \notin {"waiting", "undefined"}

(* The steps there are at most until the program rests: of the callback,   *)
(* of the consumer but for the clouds in the buffer, and of main().        *)
CallbackSteps ==
    CASE grabber \in {"notify", "warn"} -> 1
      [] grabber = "notifyAndWarn"      -> 2
      [] OTHER                          -> 0
ConsumerSteps ==
    IF draining
    THEN CASE consumer = "front"              -> 1
           [] consumer = "isEmpty"            -> 2
           [] consumer \in {"write", "size"}  -> 3
           [] OTHER                           -> 0
    ELSE CASE consumer = "announce" -> 4
           [] consumer = "loop"     -> 5
           [] consumer = "write"    -> 6
           [] consumer = "front"    -> 7
           [] consumer = "waiting"  -> 8
           [] consumer = "ioLock"   -> 9
           [] OTHER                 -> 0
ProducerSteps == IF producer = "running" THEN 1 ELSE 0
MainSteps ==
    CASE main = "joinProducer" -> 2
      [] main = "joinConsumer" -> 1
      [] OTHER                 -> 0

StepsLeft ==
    6 * (MaxClouds - pushed) + 3 * Len(buffer)
        + CallbackSteps + ConsumerSteps + ProducerSteps + MainSteps

(* After Ctrl-C each step, whoever takes it, is one of a bounded number: 6 *)
(* for a cloud the camera may still deliver, 3 for one in the buffer and a *)
(* few more.  Being woken for nothing does not add to them.                *)
StepsBounded == [][isDone => isDone' /\ StepsLeft' \in Nat /\ StepsLeft' < StepsLeft]_vars

RunInv == TypeInv /\ EndingInv

LEMMA RingKeepsSome ==
    ASSUME NEW s \in Seq(1 .. MaxClouds), capacity \in Nat,
           Len(s) <= capacity, NEW x \in 1 .. MaxClouds
    PROVE  s # <<>> => Ring(Append(s, x)) # <<>>
<1> DEFINE all == Append(s, x)
<1> SUFFICES ASSUME s # <<>>
             PROVE  Len(Ring(all)) # 0
  BY RingType
<1>1. all \in Seq(1 .. MaxClouds) /\ Len(all) = Len(s) + 1 /\ Len(s) \in Nat /\ Len(s) # 0
  BY AppendProperties, EmptySeq
<1>2. \A i \in 1 .. Len(all) : all[i] \in 1 .. MaxClouds
  BY <1>1, ElementOfSeq
<1> DEFINE kept == IF Len(all) <= capacity THEN Len(all) ELSE capacity
           first == Len(all) - kept + 1
<1> HIDE DEF all
<1>3. kept \in Nat /\ kept # 0 /\ kept <= Len(all) /\ first \in 1 .. Len(all)
      /\ Len(all) - first + 1 = kept
  <2>1. CASE Len(all) <= capacity
    <3>1. kept = Len(all)  BY <2>1
    <3> HIDE DEF kept
    <3> QED  BY <1>1, <3>1
  <2>2. CASE ~(Len(all) <= capacity)
    <3>1. kept = capacity  BY <2>2
    <3> HIDE DEF kept
    <3> QED  BY <1>1, <2>2, <3>1
  <2> QED  BY <2>1, <2>2
<1>4. Ring(all) = SubSeq(all, first, Len(all))
  BY DEF Ring
<1> HIDE DEF first, kept
<1>5. Len(SubSeq(all, first, Len(all))) = kept
  <2>1. \A i \in first .. Len(all) : all[i] \in 1 .. MaxClouds
    BY <1>1, <1>2, <1>3
  <2> QED  BY <1>1, <1>3, <2>1, SubSeqProperties
<1> QED  BY <1>3, <1>4, <1>5

LEMMA EndingInit == Init => EndingInv
BY DEF Init, EndingInv

LEMMA EndingStep == RunInv /\ [Next]_vars => EndingInv'
<1> SUFFICES ASSUME RunInv, [Next]_vars
             PROVE  EndingInv'
  OBVIOUS
<1> USE DEF RunInv, EndingInv, pushVars, threadVars, consumerVars, ConsumerGoto, MainGoto
<1>1. CASE PushBack
  <2>1. capacity \in Nat /\ buffer \in Seq(1 .. MaxClouds) /\ Len(buffer) <= capacity
        /\ pushed + 1 \in 1 .. MaxClouds
    BY <1>1, RecorderAssumption DEF PushBack, TypeInv, TypeOK
  <2>2. buffer # <<>> => buffer' # <<>>
    BY <1>1, <2>1, RingKeepsSome DEF PushBack
  <2> QED  BY <1>1, <2>2 DEF PushBack
<1>2. CASE Callback  BY <1>2 DEF Callback, Notify, Warn, AfterNotify
<1>3. CASE StopGrabber  BY <1>3 DEF StopGrabber
<1>4. CASE CheckDone  BY <1>4 DEF CheckDone
<1>5. CASE TakeFront  BY <1>5 DEF TakeFront
<1>6. CASE FrontOfEmpty  BY <1>6 DEF FrontOfEmpty
<1>7. CASE WaitForCloud  BY <1>7 DEF WaitForCloud
<1>8. CASE SpuriousWakeup  BY <1>8 DEF SpuriousWakeup
<1>9. CASE WriteToDisk  BY <1>9 DEF WriteToDisk
<1>10. CASE Announce  BY <1>10 DEF Announce
<1>11. CASE CheckEmpty  BY <1>11 DEF CheckEmpty
<1>12. CASE StartProducer  BY <1>12 DEF StartProducer
<1>13. CASE StartConsumer  BY <1>13 DEF StartConsumer
<1>14. CASE JoinProducer  BY <1>14 DEF JoinProducer
<1>15. CASE JoinConsumer  BY <1>15 DEF JoinConsumer
<1>16. CASE CtrlC  BY <1>16 DEF CtrlC
<1>17. CASE UNCHANGED vars  BY <1>17 DEF vars
<1> QED
  BY <1>1, <1>2, <1>3, <1>4, <1>5, <1>6, <1>7, <1>8, <1>9, <1>10, <1>11, <1>12, <1>13,
     <1>14, <1>15, <1>16, <1>17 DEF Next, Consume, Main

LEMMA RunInvariant == Spec => []RunInv
BY TypeInit, TypeStep, EndingInit, EndingStep, PTL DEF Spec, RunInv

(* Whatever the order the threads run in, Ctrl-C never leaves all of them  *)
(* waiting for each other: the safety part of EndsOrWaits.                 *)
THEOREM RecorderNotStuck == Spec => []NotStuck
<1>1. RunInv => NotStuck
  <2> SUFFICES ASSUME RunInv PROVE NotStuck  OBVIOUS
  <2> USE DEF RunInv, EndingInv, TypeInv, TypeOK
  <2>1. ASSUME isDone, consumer \notin {"waiting", "undefined"}, main # "end"
        PROVE  MayGoOn
    <3>1. CASE consumer = "done"
      <4>1. main \in {"joinProducer", "joinConsumer"} /\ IoMutexFree
        BY <2>1, <3>1 DEF IoMutexFree
      <4>2. main = "joinProducer" => producer \in {"running", "stopped"}
        BY <4>1
      <4> QED  BY <2>1, <3>1, <4>1, <4>2 DEF MayGoOn
    <3>2. CASE consumer # "done"
      <4>1. consumer # "unborn"  BY <2>1
      <4> QED  BY <2>1, <3>2, <4>1 DEF MayGoOn, IoMutexFree, BufferMutexFree
    <3> QED  BY <3>1, <3>2
  <2>2. draining => consumer \notin {"waiting", "undefined"}
    OBVIOUS
  <2> QED  BY <2>1, <2>2 DEF NotStuck
<1> QED  BY <1>1, RunInvariant, PTL

(* Only the buffer and the clouds to come matter besides where the threads *)
(* are.                                                                    *)
LEMMA StepsType ==
    RunInv => /\ {CallbackSteps, ConsumerSteps, ProducerSteps, MainSteps} \subseteq Nat
              /\ MaxClouds - pushed \in Nat /\ Len(buffer) \in Nat
              /\ StepsLeft \in Nat
<1> SUFFICES ASSUME RunInv
             PROVE  /\ {CallbackSteps, ConsumerSteps, ProducerSteps, MainSteps} \subseteq Nat
                    /\ MaxClouds - pushed \in Nat /\ Len(buffer) \in Nat
                    /\ StepsLeft \in Nat
  OBVIOUS
<1>1. CallbackSteps \in Nat /\ ProducerSteps \in Nat /\ MainSteps \in Nat
  BY DEF CallbackSteps, ProducerSteps, MainSteps
<1>2. ConsumerSteps \in Nat
  BY DEF ConsumerSteps
<1>3. MaxClouds - pushed \in Nat /\ Len(buffer) \in Nat
  BY RecorderAssumption, LenProperties DEF RunInv, TypeInv, TypeOK
<1> QED  BY <1>1, <1>2, <1>3, SMTT(30) DEF StepsLeft

(* One step per action: what it adds to one summand it takes from another. *)
LEMMA StepsDecrease == RunInv /\ isDone /\ Next => isDone' /\ StepsLeft' < StepsLeft
<1> SUFFICES ASSUME RunInv, isDone, Next
             PROVE  isDone' /\ StepsLeft' < StepsLeft
  OBVIOUS
<1>1. /\ MaxClouds \in Nat /\ pushed \in Nat /\ Len(buffer) \in Nat
      /\ CallbackSteps \in Nat /\ ConsumerSteps \in Nat /\ ProducerSteps \in Nat /\ MainSteps \in Nat
  BY StepsType, RecorderAssumption DEF RunInv, TypeInv, TypeOK
<1> USE DEF pushVars, threadVars, consumerVars, ConsumerGoto, MainGoto
<1>2. CASE PushBack
  <2>1. pushed' = pushed + 1 /\ isDone'
        /\ UNCHANGED <<producer, main, consumer, draining>>
        /\ grabber = "idle" /\ grabber' \in {"notify", "notifyAndWarn"}
    BY <1>2 DEF PushBack
  <2>2. Len(buffer') \in Nat /\ Len(buffer') <= Len(buffer) + 1
    <3>1. /\ Append(buffer, pushed + 1) \in Seq(1 .. MaxClouds)
          /\ Len(Append(buffer, pushed + 1)) = Len(buffer) + 1 /\ capacity \in Nat
      <4>1. pushed + 1 \in 1 .. MaxClouds /\ buffer \in Seq(1 .. MaxClouds) /\ capacity \in Nat
        BY <1>2, RecorderAssumption DEF PushBack, RunInv, TypeInv, TypeOK
      <4> QED  BY <4>1, AppendProperties
    <3>2. Len(Ring(Append(buffer, pushed + 1))) <= Len(buffer) + 1
          /\ Len(Ring(Append(buffer, pushed + 1))) \in Nat
      <4> DEFINE all == Append(buffer, pushed + 1)
                 first == Len(all) - (IF Len(all) <= capacity THEN Len(all) ELSE capacity) + 1
      <4>1. first \in 1 .. Len(all) + 1
        <5>1. Len(all) \in Nat /\ capacity \in Nat  BY <1>1, <3>1
        <5> HIDE DEF all
        <5>2. CASE Len(all) <= capacity
          <6>1. first = 1  BY <5>1, <5>2
          <6> HIDE DEF first
          <6> QED  BY <5>1, <6>1
        <5>3. CASE ~(Len(all) <= capacity)
          <6>1. first = Len(all) - capacity + 1  BY <5>3
          <6> HIDE DEF first
          <6> QED  BY <5>1, <5>3, <6>1
        <5> QED  BY <5>2, <5>3
      <4>2. \A i \in 1 .. Len(all) : all[i] \in 1 .. MaxClouds
        BY <3>1, ElementOfSeq
      <4>3. Ring(all) = SubSeq(all, first, Len(all))
        BY DEF Ring
      <4> HIDE DEF first, all
      <4>4. Len(SubSeq(all, first, Len(all))) \in Nat
            /\ Len(SubSeq(all, first, Len(all))) <= Len(all)
        <5>1. \A i \in first .. Len(all) : all[i] \in 1 .. MaxClouds
          BY <1>1, <3>1, <4>1, <4>2 DEF all
        <5>2. Len(all) \in Nat  BY <1>1, <3>1 DEF all
        <5> QED  BY <3>1, <4>1, <5>1, <5>2, SubSeqProperties DEF all
      <4> QED  BY <3>1, <4>3, <4>4 DEF all
    <3> QED  BY <1>2, <3>2 DEF PushBack
  <2>3. CallbackSteps = 0 /\ CallbackSteps' \in 1 .. 2 /\ ConsumerSteps' = ConsumerSteps
        /\ ProducerSteps' = ProducerSteps /\ MainSteps' = MainSteps
    BY <2>1 DEF CallbackSteps, ConsumerSteps, ProducerSteps, MainSteps
  <2> QED  BY <1>1, <2>1, <2>2, <2>3, SMTT(30) DEF StepsLeft
<1>3. CASE Notify
  <2>1. ConsumerSteps' \in Nat /\ ConsumerSteps' <= ConsumerSteps
    <3>1. CASE consumer = "waiting"
      <4>1. ~draining  BY <3>1 DEF RunInv, EndingInv
      <4> QED  BY <1>3, <3>1, <4>1 DEF Notify, ConsumerSteps
    <3>2. CASE consumer # "waiting"
      BY <1>1, <1>3, <3>2 DEF Notify, ConsumerSteps
    <3> QED  BY <3>1, <3>2
  <2>2. CallbackSteps' \in Nat /\ CallbackSteps' < CallbackSteps
    BY <1>3 DEF Notify, AfterNotify, CallbackSteps
  <2>3. UNCHANGED <<pushed, buffer, isDone>> /\ ProducerSteps' = ProducerSteps /\ MainSteps' = MainSteps
    BY <1>3 DEF Notify, ProducerSteps, MainSteps
  <2> QED  BY <1>1, <2>1, <2>2, <2>3, SMTT(30) DEF StepsLeft
<1>4. CASE Warn
  <2>1. CallbackSteps' = 0 /\ CallbackSteps = 1 /\ UNCHANGED <<pushed, buffer, isDone>>
        /\ ConsumerSteps' = ConsumerSteps /\ ProducerSteps' = ProducerSteps /\ MainSteps' = MainSteps
    BY <1>4 DEF Warn, CallbackSteps, ConsumerSteps, ProducerSteps, MainSteps
  <2> QED  BY <1>1, <2>1, SMTT(30) DEF StepsLeft
<1>5. CASE StopGrabber
  <2>1. ProducerSteps' = 0 /\ ProducerSteps = 1 /\ UNCHANGED <<pushed, buffer, isDone>>
        /\ ConsumerSteps' = ConsumerSteps /\ CallbackSteps' = CallbackSteps /\ MainSteps' = MainSteps
    BY <1>5 DEF StopGrabber, CallbackSteps, ConsumerSteps, ProducerSteps, MainSteps
  <2> QED  BY <1>1, <2>1, SMTT(30) DEF StepsLeft
<1>6. CASE TakeFront
  <2>1. Len(buffer') = Len(buffer) - 1
    BY <1>6, HeadTailProperties DEF TakeFront, RunInv, TypeInv, TypeOK
  <2>2. UNCHANGED <<pushed, isDone>> /\ CallbackSteps' = CallbackSteps
        /\ ProducerSteps' = ProducerSteps /\ MainSteps' = MainSteps
    BY <1>6 DEF TakeFront, CallbackSteps, ProducerSteps, MainSteps
  <2>3. ConsumerSteps' \in Nat /\ ConsumerSteps' <= ConsumerSteps + 2
    BY <1>6 DEF TakeFront, ConsumerSteps
  <2> QED  BY <1>1, <2>1, <2>2, <2>3, SMTT(30) DEF StepsLeft
<1>7. CASE CheckDone \/ FrontOfEmpty \/ WaitForCloud \/ SpuriousWakeup
           \/ WriteToDisk \/ Announce \/ CheckEmpty
  <2>1. UNCHANGED <<pushed, buffer, isDone, grabber, producer, main>>
    BY <1>7 DEF CheckDone, FrontOfEmpty, WaitForCloud, SpuriousWakeup, WriteToDisk, Announce, CheckEmpty
  <2>2. CallbackSteps' = CallbackSteps /\ ProducerSteps' = ProducerSteps /\ MainSteps' = MainSteps
    BY <2>1 DEF CallbackSteps, ProducerSteps, MainSteps
  <2>3. ConsumerSteps' \in Nat /\ ConsumerSteps' < ConsumerSteps
    <3> USE DEF ConsumerSteps, RunInv, EndingInv
    <3>1. CASE CheckDone  BY <3>1 DEF CheckDone
    <3>2. CASE FrontOfEmpty  BY <3>2 DEF FrontOfEmpty
    <3>3. CASE WaitForCloud  BY <3>3 DEF WaitForCloud
    <3>4. CASE SpuriousWakeup  BY <3>4 DEF SpuriousWakeup
    <3>5. CASE WriteToDisk  BY <3>5 DEF WriteToDisk
    <3>6. CASE Announce  BY <3>6 DEF Announce
    <3>7. CASE CheckEmpty  BY <3>7 DEF CheckEmpty
    <3> QED  BY <1>7, <3>1, <3>2, <3>3, <3>4, <3>5, <3>6, <3>7
  <2> QED  BY <1>1, <2>1, <2>2, <2>3, SMTT(30) DEF StepsLeft
<1>8. CASE Main
  <2>1. UNCHANGED <<pushed, buffer, isDone, grabber, producer, consumer, draining>>
        /\ MainSteps' \in Nat /\ MainSteps' < MainSteps
    <3> USE DEF MainSteps
    <3>1. main \notin {"startProducer", "startConsumer"}  BY DEF RunInv, EndingInv
    <3>2. CASE JoinProducer  BY <3>2 DEF JoinProducer
    <3>3. CASE JoinConsumer  BY <3>3 DEF JoinConsumer
    <3>4. ~StartProducer /\ ~StartConsumer  BY <3>1 DEF StartProducer, StartConsumer
    <3> QED  BY <1>8, <3>2, <3>3, <3>4 DEF Main
  <2>2. CallbackSteps' = CallbackSteps /\ ProducerSteps' = ProducerSteps
        /\ ConsumerSteps' = ConsumerSteps
    BY <2>1 DEF CallbackSteps, ProducerSteps, ConsumerSteps
  <2> QED  BY <1>1, <2>1, <2>2, SMTT(30) DEF StepsLeft
<1>9. CASE CtrlC  BY <1>9 DEF CtrlC
<1> QED
  BY <1>2, <1>3, <1>4, <1>5, <1>6, <1>7, <1>8, <1>9 DEF Next, Callback, Consume

(* Ctrl-C bounds what is left to do: no loop of the two threads, no wakeup *)
(* and no late cloud keeps the program busy for ever.  With                *)
(* RecorderNotStuck this is what EndsOrWaits says but for fairness.        *)
THEOREM RecorderStepsBounded == Spec => StepsBounded
<1>1. RunInv /\ RunInv' /\ [Next]_vars
        => [isDone => isDone' /\ StepsLeft' \in Nat /\ StepsLeft' < StepsLeft]_vars
  <2> SUFFICES ASSUME RunInv, RunInv', Next, isDone
               PROVE  isDone' /\ StepsLeft' \in Nat /\ StepsLeft' < StepsLeft
    OBVIOUS
  <2>1. isDone' /\ StepsLeft' < StepsLeft  BY StepsDecrease
  <2>2. StepsLeft' \in Nat
    <3>1. (RunInv => StepsLeft \in Nat)'
      BY StepsType, PTL
    <3> QED  BY <3>1
  <2> QED  BY <2>1, <2>2
<1> QED  BY <1>1, RunInvariant, PTL DEF Spec, StepsBounded

=============================================================================
