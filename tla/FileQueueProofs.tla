-------------------------- MODULE FileQueueProofs --------------------------
(***************************************************************************)
(* Proofs of the safety properties of FileQueue for every number of        *)
(* workers, every batch and memory queue size and every bound.             *)
(***************************************************************************)
EXTENDS FileQueue, FiniteSetTheorems, TLAPS

USE DEF CallBacks

(* BigArray, m_nextIndex and the memory queue stay in step.                *)
QueueInv ==
    /\ MemoryQueueInSync
    /\ Len(memoryQueue) <= head
    /\ tail <= nextIndex /\ nextIndex <= head

(* No batch is larger than the bound of m_batchSize, nor is the number of  *)
(* events that was asked for.                                              *)
BatchInv ==
    /\ Len(delivery.ret) <= MaxBatchSize
    /\ delivery.pc = "loop" => /\ Len(delivery.ret) <= delivery.taken
                               /\ delivery.taken <= delivery.asked
                               /\ delivery.asked <= MaxBatchSize
    /\ \A w \in Workers : Len(worker[w].events) <= MaxBatchSize

(* A reduction that is under way writes at most half of that bound, so the *)
(* delivery thread can add the increment to whatever it finds after it saw *)
(* the size below the configured one.                                      *)
SizeInv ==
    /\ BatchSizeBounded
    /\ \A w \in Workers : 2 * reducing[w] <= MaxBatchSize
    /\ delivery.pc = "read" => batchSize + Increment <= MaxBatchSize
    /\ delivery.pc = "write" => delivery.read + Increment <= MaxBatchSize

(* The callback the batch of the delivery thread belongs to.               *)
Resized == {"full", "limit", "read", "write", "handle"}
Counted == {"callback", "child"} \cup Resized
Owner == IF delivery.pc \in Resized THEN delivery.cb ELSE last

(* Where a callback stops collecting batches.                              *)
EndOf(c) == IF c < last THEN start[c + 1] ELSE nextIndex

CallBackInv ==
    /\ \A c \in CallBacks : finalized[c] <=> (c < last \/ (c = last /\ delivery.pc = "child"))
    /\ \A c, d \in CallBacks : (c <= d /\ d <= last) => start[c] <= start[d]
    /\ \A c \in CallBacks : c <= last => start[c] <= nextIndex
    /\ \A c \in CallBacks : c <= last => completionIndex[c] <= EndOf(c)
    /\ \A c \in CallBacks : c > last => counter[c] = 0 /\ completionIndex[c] = 0
    /\ delivery.returnIndex <= nextIndex
    /\ delivery.pc = "child" => last <= MaxCheckpoints /\ delivery.cb = last
    /\ delivery.pc \in Resized => delivery.cb \in CallBacks /\ delivery.cb <= last
    /\ \A c \in stuck : c <= last

(* Who still owes callback c a complete().                                 *)
WorkersAt(c) == {w \in Workers : \/ worker[w].pc = "writing" /\ worker[w].cb = c
                                 \/ worker[w].pc = "calling" /\ worker[w].cur = c}
DeliveryAt(c) == IF delivery.pc \in Counted /\ Owner = c THEN 1 ELSE 0
ParentAt(c) == IF c > 1 /\ counter[c - 1] > 0 THEN 1 ELSE 0
StuckAt(c) == IF c \in stuck THEN 1 ELSE 0

CountInv ==
    \A c \in CallBacks : c <= last =>
        counter[c] >= Cardinality(WorkersAt(c)) + DeliveryAt(c) + ParentAt(c) + StuckAt(c)

OrderInv ==
    \A c, d \in CallBacks : (c < d /\ d <= last /\ counter[d] = 0) => counter[c] = 0

WorkerInv ==
    \A w \in Workers :
        /\ worker[w].pc = "writing" => worker[w].cb \in CallBacks /\ worker[w].cb <= last
        /\ worker[w].pc = "calling" =>
             /\ worker[w].cb \in CallBacks /\ worker[w].cur \in CallBacks
             /\ worker[w].cb < worker[w].cur /\ worker[w].cur <= last
             /\ counter[worker[w].cur - 1] = 0
        /\ worker[w].pc = "removing" =>
             /\ worker[w].cb \in CallBacks /\ worker[w].cur \in CallBacks
             /\ worker[w].cb <= worker[w].cur /\ worker[w].cur < last
             /\ counter[worker[w].cur] = 0

(* An event that is past m_nextIndex and not settled is held under a       *)
(* callback that was created no later than the event was taken.            *)
Held(i) ==
    \/ i \in Elements(delivery.ret) /\ start[Owner] <= i
    \/ \E w \in Workers : /\ worker[w].pc = "writing"
                          /\ i \in Elements(worker[w].events)
                          /\ start[worker[w].cb] <= i
    \/ \E c \in stuck : start[c] <= i

CoverInv == \A i \in Nat : (i < nextIndex /\ i \notin settled) => Held(i)

HoldInv ==
    /\ delivery.pc = "check" => delivery.ret = <<>>
    /\ \A i \in Elements(delivery.ret) : i < nextIndex
    /\ \A w \in Workers : worker[w].pc # "writing" => worker[w].events = <<>>
    /\ AtMostOncePerRun

IInv ==
    /\ TypeOK /\ QueueInv /\ BatchInv /\ SizeInv /\ CallBackInv /\ CountInv /\ OrderInv
    /\ WorkerInv /\ CoverInv /\ HoldInv /\ CheckpointSafe

-----------------------------------------------------------------------------
(* Facts about the operators the invariant is made of.                     *)

(* The batch of the delivery thread or of a worker, extended by one event. *)
LEMMA ElementsAppend ==
    ASSUME NEW seq \in Seq(Nat), NEW x \in Nat
    PROVE  /\ Append(seq, x) \in Seq(Nat)
           /\ Elements(Append(seq, x)) = Elements(seq) \cup {x}
BY DEF Elements

(* A batch is made of indices.                                             *)
LEMMA ElementsNat ==
    ASSUME NEW seq \in Seq(Nat)
    PROVE  Elements(seq) \subseteq Nat
BY DEF Elements

(* A worker that owes callback c a complete() is counted there.            *)
LEMMA WorkersAtCounted ==
    ASSUME TypeOK, CountInv, NEW c \in CallBacks, c <= last
    PROVE  /\ IsFiniteSet(WorkersAt(c))
           /\ Cardinality(WorkersAt(c)) \in Nat
           /\ counter[c] \in Nat
           /\ \A w \in WorkersAt(c) : Cardinality(WorkersAt(c)) >= 1 /\ counter[c] >= 1
<1>1. IsFiniteSet(WorkersAt(c)) /\ Cardinality(WorkersAt(c)) \in Nat
  BY WorkersAssumption, FS_Subset, FS_CardinalityType DEF WorkersAt
<1>2. counter[c] \in Nat /\ DeliveryAt(c) \in Nat /\ ParentAt(c) \in Nat /\ StuckAt(c) \in Nat
  BY DEF TypeOK, DeliveryAt, ParentAt, StuckAt
<1>3. ASSUME NEW w \in WorkersAt(c)
      PROVE  Cardinality(WorkersAt(c)) >= 1
  <2>1. WorkersAt(c) # {}
    OBVIOUS
  <2>2. Cardinality(WorkersAt(c)) # 0
    BY <1>1, <2>1, FS_EmptySet
  <2> QED BY <1>1, <2>2
<1>4. counter[c] >= Cardinality(WorkersAt(c)) + DeliveryAt(c) + ParentAt(c) + StuckAt(c)
  BY DEF CountInv
<1> QED BY <1>1, <1>2, <1>3, <1>4

(* What the bound of m_batchSize is good for: the increment fits on top of *)
(* a size below the configured one and on top of half the bound.           *)
LEMMA MaxSize ==
    /\ MaxBatchSize \in Nat
    /\ InitialBatchSize <= MaxBatchSize
    /\ \A n \in Nat : n < InitialBatchSize => n + Increment <= MaxBatchSize
    /\ \A n \in Nat : 2 * n <= MaxBatchSize => n + Increment <= MaxBatchSize
BY SizesAssumption DEF MaxBatchSize

(* A batch sent in two parts or more asks for at most half its size.       *)
LEMMA HalfFits ==
    ASSUME NEW n \in Nat, NEW m \in Nat, n <= m, NEW limit \in 1 .. (n \div 2)
    PROVE  limit \in Nat /\ 2 * limit <= m
OBVIOUS

-----------------------------------------------------------------------------
(* The initial state.                                                      *)
LEMMA InitIInv == Init => IInv
<1> SUFFICES ASSUME Init PROVE IInv
  OBVIOUS
<1> USE SizesAssumption, BoundsAssumption
<1>1. TypeOK
  BY DEF Init, TypeOK, DeliveryType, WorkerType, IdleDelivery, IdleWorker,
         DeliverySteps, WorkerSteps
<1>2. QueueInv
  BY DEF Init, QueueInv, MemoryQueueInSync
<1>3. BatchInv /\ SizeInv
  BY MaxSize DEF Init, BatchInv, SizeInv, BatchSizeBounded, IdleDelivery, IdleWorker
<1>4. CallBackInv
  BY DEF Init, CallBackInv, EndOf, IdleDelivery, Resized
<1>5. CountInv
  <2>1. \A c \in CallBacks : WorkersAt(c) = {}
    BY DEF Init, WorkersAt, IdleWorker
  <2>2. \A c \in CallBacks : DeliveryAt(c) = 0 /\ ParentAt(c) = 0 /\ StuckAt(c) = 0
    BY DEF Init, DeliveryAt, ParentAt, StuckAt, Counted, Resized, IdleDelivery
  <2>3. \A c \in CallBacks : counter[c] = 0 /\ Cardinality(WorkersAt(c)) = 0
    BY <2>1, FS_EmptySet DEF Init
  <2> QED BY <2>2, <2>3 DEF CountInv
<1>6. OrderInv
  BY DEF Init, OrderInv
<1>7. WorkerInv
  BY DEF Init, WorkerInv, IdleWorker
<1>8. CoverInv
  BY DEF Init, CoverInv
<1>9. HoldInv
  BY DEF Init, HoldInv, AtMostOncePerRun, Elements, IdleDelivery, IdleWorker
<1>10. CheckpointSafe
  BY DEF Init, CheckpointSafe
<1> QED BY <1>1, <1>2, <1>3, <1>4, <1>5, <1>6, <1>7, <1>8, <1>9, <1>10 DEF IInv

-----------------------------------------------------------------------------
(* Each part of the invariant over a step.                                 *)

(* CircularFifoQueue.add yields a queue of indices.                        *)
LEMMA MemoryQueueType ==
    ASSUME NEW queue \in Seq(Nat), NEW index \in Nat
    PROVE  AddToMemory(queue, index) \in Seq(Nat)
<1>1. CASE Len(queue) = MemoryQueueSize
  <2>1. queue # <<>>
    BY <1>1, SizesAssumption
  <2> QED BY <1>1, <2>1 DEF AddToMemory
<1>2. CASE Len(queue) # MemoryQueueSize
  BY <1>2 DEF AddToMemory
<1> QED BY <1>1, <1>2

(* A turn of the loop of get() leaves a well-formed delivery thread.       *)
LEMMA AdvanceType ==
    ASSUME delivery \in DeliveryType, nextIndex \in Nat, NEW ret \in Seq(Nat), Advance(ret)
    PROVE  delivery' \in DeliveryType
<1>1. delivery.taken + 1 \in Nat
  BY DEF DeliveryType
<1>2. delivery' = [delivery EXCEPT !.taken = delivery.taken + 1, !.ret = ret,
                                   !.returnIndex = nextIndex]
  BY DEF Advance
<1> QED BY <1>1, <1>2 DEF DeliveryType

(* Leaving a complete() leaves well-formed workers.                        *)
LEMMA ReturnType ==
    ASSUME worker \in [Workers -> WorkerType], NEW w \in Workers,
           worker[w].cur - 1 \in Nat, Return(w)
    PROVE  worker' \in [Workers -> WorkerType]
<1>1. IdleWorker \in WorkerType
  BY DEF IdleWorker, WorkerType, WorkerSteps
<1>2. [worker[w] EXCEPT !.cur = worker[w].cur - 1] \in WorkerType
  BY DEF WorkerType
<1>3. worker' = [worker EXCEPT ![w] =
                   IF worker[w].cur = worker[w].cb THEN IdleWorker
                   ELSE [worker[w] EXCEPT !.cur = worker[w].cur - 1]]
  BY DEF Return
<1> QED BY <1>1, <1>2, <1>3

(* Type correctness over a step; the counters stay in Nat because a worker *)
(* about to call complete() is counted.                                    *)
LEMMA TypeStep == IInv /\ Next => TypeOK'
<1> SUFFICES ASSUME IInv, Next PROVE TypeOK'
  OBVIOUS
<1> USE DEF queueVars, sizeVars, callBackVars
<1>0. TypeOK
  BY DEF IInv
<1>d. /\ delivery \in DeliveryType /\ worker \in [Workers -> WorkerType]
      /\ last \in Nat /\ batchSize \in Nat /\ nextIndex \in Nat /\ faults \in Nat
      /\ head \in Nat /\ memoryQueue \in Seq(Nat) /\ delivery.ret \in Seq(Nat) /\ delivery.taken \in Nat
      /\ delivery.cb \in Nat
  BY <1>0, BoundsAssumption DEF TypeOK, DeliveryType
<1>1. CASE Put
  <2>1. memoryQueue' \in Seq(Nat)
    BY <1>d, <1>1, MemoryQueueType DEF Put
  <2> QED BY <1>0, <1>1, <2>1 DEF TypeOK, Put
<1>2. CASE Poll
  BY <1>0, <1>2 DEF TypeOK, Poll, vars
<1>3. CASE StartGet
  <2>1. delivery' \in DeliveryType
    <3>1. IdleDelivery \in DeliveryType
      BY DEF IdleDelivery, DeliveryType, DeliverySteps
    <3> QED BY <1>d, <1>3, <3>1 DEF StartGet, DeliveryType, DeliverySteps
  <2> QED BY <1>0, <1>3, <2>1 DEF TypeOK, StartGet
<1>4. CASE TakeFromMemory
  <2>1. Head(memoryQueue) \in Nat /\ Tail(memoryQueue) \in Seq(Nat)
    BY <1>0, <1>4 DEF TypeOK, TakeFromMemory, MoreToTake
  <2>2. delivery' \in DeliveryType
    BY <1>4, <2>1, <1>d, AdvanceType, ElementsAppend DEF TakeFromMemory
  <2>3. nextIndex' \in Nat
    BY <1>d, <1>4 DEF TakeFromMemory, Advance
  <2> QED BY <1>0, <1>4, <2>1, <2>2, <2>3 DEF TypeOK, TakeFromMemory, Advance
<1>5. CASE TakeFromFile
  <2>1. Head(memoryQueue) \in Nat
    BY <1>0, <1>5 DEF TypeOK, TakeFromFile, MoreToTake
  <2>2. delivery' \in DeliveryType
    BY <1>5, <2>1, <1>d, AdvanceType, ElementsAppend DEF TakeFromFile
  <2>3. nextIndex' \in Nat
    BY <1>d, <1>5 DEF TakeFromFile, Advance
  <2> QED BY <1>0, <1>5, <2>1, <2>2, <2>3 DEF TypeOK, TakeFromFile, Advance
<1>6. CASE TakeUnreadable
  <2>1. delivery' \in DeliveryType
    BY <1>6, <1>d, AdvanceType DEF TakeUnreadable
  <2>2. nextIndex' \in Nat /\ faults' \in Nat /\ settled' \subseteq Nat
    <3>1. settled \subseteq Nat
      BY <1>0 DEF TypeOK
    <3> QED BY <1>d, <1>6, <3>1 DEF TakeUnreadable, Advance, Fault
  <2> QED BY <1>0, <1>6, <2>1, <2>2 DEF TypeOK, TakeUnreadable, Advance
<1>7. CASE ReadFails
  <2>1. delivery' \in DeliveryType
    BY <1>d, <1>7 DEF ReadFails, DeliveryType, DeliverySteps
  <2>f. faults' \in Nat
    BY <1>d, <1>7 DEF ReadFails, Fault
  <2> QED BY <1>0, <1>7, <2>f, <2>1 DEF TypeOK, ReadFails
<1>8. CASE EndGet
  <2>1. delivery' \in DeliveryType
    BY <1>d, <1>8 DEF EndGet, DeliveryType, DeliverySteps
  <2> QED BY <1>0, <1>8, <2>1 DEF TypeOK, EndGet
<1>9. CASE CountBatch
  <2>1. delivery' \in DeliveryType
    BY <1>d, <1>9 DEF CountBatch, DeliveryType, DeliverySteps
  <2>2. delivery.returnIndex \in Nat
    BY <1>0, <1>9 DEF TypeOK, DeliveryType
  <2>3. counter' \in [CallBacks -> Nat] /\ completionIndex' \in [CallBacks -> Nat]
    BY <1>0, <1>9, <2>2 DEF TypeOK, CountBatch
  <2> QED BY <1>0, <1>9, <2>1, <2>3 DEF TypeOK, CountBatch
<1>10. CASE KeepCallBack
  <2>1. delivery' \in DeliveryType
    BY <1>d, <1>10 DEF KeepCallBack, DeliveryType, DeliverySteps
  <2> QED BY <1>0, <1>10, <2>1 DEF TypeOK, KeepCallBack
<1>11. CASE SetFinalized
  <2>1. delivery' \in DeliveryType
    BY <1>d, <1>11 DEF SetFinalized, DeliveryType, DeliverySteps
  <2>2. finalized' \in [CallBacks -> BOOLEAN]
    BY <1>0, <1>11 DEF TypeOK, SetFinalized
  <2> QED BY <1>0, <1>11, <2>1, <2>2 DEF TypeOK, SetFinalized
<1>12. CASE SetChildCallBack
  <2>1. delivery' \in DeliveryType
    BY <1>d, <1>12 DEF SetChildCallBack, DeliveryType, DeliverySteps
  <2>2. last <= MaxCheckpoints
    BY <1>12 DEF IInv, CallBackInv, SetChildCallBack
  <2>3. counter' \in [CallBacks -> Nat] /\ start' \in [CallBacks -> Nat]
    <3>1. counter \in [CallBacks -> Nat] /\ start \in [CallBacks -> Nat]
      BY <1>0 DEF TypeOK
    <3>2. last + 1 \in CallBacks /\ counter[last + 1] + 1 \in Nat
      BY <1>d, <2>2, <3>1, BoundsAssumption
    <3> QED BY <1>d, <1>12, <3>1, <3>2 DEF SetChildCallBack
  <2>4. last' \in CallBacks
    <3>1. last \in CallBacks
      BY <1>0 DEF TypeOK
    <3>2. last + 1 \in CallBacks
      BY <3>1, <2>2, BoundsAssumption DEF CallBacks
    <3> QED BY <1>12, <3>2 DEF SetChildCallBack
  <2> QED BY <1>0, <1>12, <2>1, <2>3, <2>4 DEF TypeOK, SetChildCallBack
<1>13. CASE TestFull \/ TestLimit
  <2>1. delivery' \in DeliveryType
    BY <1>d, <1>13 DEF TestFull, TestLimit, GoesOn, DeliveryType, DeliverySteps
  <2> QED BY <1>0, <1>13, <2>1 DEF TypeOK, TestFull, TestLimit, GoesOn
<1>14. CASE ReadSize \/ WriteSize
  <2>1. delivery.read \in Nat /\ Increment \in Nat
    BY <1>d, SizesAssumption DEF DeliveryType
  <2>2. delivery' \in DeliveryType
    BY <1>d, <1>14 DEF ReadSize, WriteSize, DeliveryType, DeliverySteps
  <2>3. batchSize' \in Nat
    BY <1>d, <1>14, <2>1 DEF ReadSize, WriteSize
  <2> QED BY <1>0, <1>14, <2>2, <2>3 DEF TypeOK, ReadSize, WriteSize
<1>15. ASSUME NEW w \in Workers, HandleEvents(w) PROVE TypeOK'
  <2>1. delivery' \in DeliveryType
    BY <1>d, <1>15 DEF HandleEvents, IdleDelivery, DeliveryType, DeliverySteps
  <2>2. worker' \in [Workers -> WorkerType]
    BY <1>d, <1>15 DEF HandleEvents, WorkerType, WorkerSteps
  <2> QED BY <1>0, <1>15, <2>1, <2>2 DEF TypeOK, HandleEvents
<1>16. CASE HandleFails
  <2>1. delivery' \in DeliveryType
    BY <1>d, <1>16 DEF HandleFails, IdleDelivery, DeliveryType, DeliverySteps
  <2>2. delivery.cb \in CallBacks
    BY <1>16 DEF HandleFails, IInv, CallBackInv, Resized
  <2>f. faults' \in Nat
    BY <1>d, <1>16 DEF HandleFails, Fault
  <2> QED BY <1>0, <1>16, <2>f, <2>1, <2>2 DEF TypeOK, HandleFails
<1>17. ASSUME NEW w \in Workers, ReduceRead(w) PROVE TypeOK'
  <2>1. reducing' \in [Workers -> Nat]
    BY <1>0, <1>17 DEF TypeOK, ReduceRead
  <2> QED BY <1>0, <1>17, <2>1 DEF TypeOK, ReduceRead
<1>18. ASSUME NEW w \in Workers, ReduceWrite(w) PROVE TypeOK'
  BY <1>0, <1>18 DEF TypeOK, ReduceWrite
<1>19. ASSUME NEW w \in Workers, Complete(w) PROVE TypeOK'
  <2>1. worker[w].cb \in CallBacks /\ worker[w].cb <= last /\ w \in WorkersAt(worker[w].cb)
    BY <1>19 DEF IInv, WorkerInv, Complete, WorkersAt
  <2>2. counter[worker[w].cb] >= 1
    BY <2>1, WorkersAtCounted DEF IInv
  <2>3. Elements(worker[w].events) \subseteq Nat
    BY <1>d DEF WorkerType, Elements
  <2>4. worker[w].cb \in Nat /\ worker[w].cb + 1 \in Nat
    BY <1>d DEF WorkerType
  <2>5. worker' \in [Workers -> WorkerType]
    BY <1>d, <1>19, <2>4 DEF Complete, WorkerType, WorkerSteps, IdleWorker
  <2>6. counter' \in [CallBacks -> Nat]
    <3>1. counter \in [CallBacks -> Nat]
      BY <1>0 DEF TypeOK
    <3> QED BY <1>19, <2>1, <2>2, <3>1 DEF Complete
  <2> QED BY <1>0, <1>19, <2>3, <2>5, <2>6 DEF TypeOK, Complete
<1>20. ASSUME NEW w \in Workers, CompleteChild(w) PROVE TypeOK'
  <2>1. /\ worker[w].cur \in CallBacks /\ worker[w].cur <= last /\ worker[w].cur > 1
        /\ w \in WorkersAt(worker[w].cur)
    BY <1>20 DEF IInv, WorkerInv, CompleteChild, WorkersAt
  <2>2. counter[worker[w].cur] >= 1
    BY <2>1, WorkersAtCounted DEF IInv
  <2>3. worker[w].cur + 1 \in Nat /\ worker[w].cur - 1 \in Nat
    BY <2>1
  <2>4. worker' \in [Workers -> WorkerType]
    BY <1>d, <1>20, <2>3 DEF CompleteChild, WorkerType, WorkerSteps
  <2>5. counter' \in [CallBacks -> Nat]
    <3>1. counter \in [CallBacks -> Nat]
      BY <1>0 DEF TypeOK
    <3> QED BY <1>20, <2>1, <2>2, <3>1 DEF CompleteChild
  <2> QED BY <1>0, <1>20, <2>4, <2>5 DEF TypeOK, CompleteChild
<1>21. ASSUME NEW w \in Workers, RemoveBeforeIndex(w) PROVE TypeOK'
  <2>1. worker[w].cur \in CallBacks
    BY <1>21 DEF IInv, WorkerInv, RemoveBeforeIndex
  <2>2. worker[w].cur - 1 \in Nat
    BY <2>1
  <2>3. worker' \in [Workers -> WorkerType]
    BY <1>d, <1>21, <2>2, ReturnType DEF RemoveBeforeIndex
  <2> QED BY <1>0, <1>21, <1>d, <2>1, <2>3 DEF TypeOK, RemoveBeforeIndex
<1>22. ASSUME NEW w \in Workers, RemoveThrows(w) PROVE TypeOK'
  <2>1. worker' \in [Workers -> WorkerType]
    BY <1>d, <1>22 DEF RemoveThrows, WorkerType, WorkerSteps, IdleWorker
  <2> QED BY <1>0, <1>22, <2>1 DEF TypeOK, RemoveThrows
<1>23. ASSUME NEW w \in Workers, RemoveFails(w) PROVE TypeOK'
  <2>1. worker[w].cur \in CallBacks
    BY <1>23 DEF IInv, WorkerInv, RemoveFails
  <2>2. worker[w].cur - 1 \in Nat
    BY <2>1
  <2>3. worker' \in [Workers -> WorkerType]
    BY <1>d, <1>23, <2>2, ReturnType DEF RemoveFails
  <2> QED BY <1>0, <1>23, <1>d, <2>1, <2>3 DEF TypeOK, RemoveFails, Fault
<1>24. ASSUME NEW w \in Workers, WorkerFails(w) PROVE TypeOK'
  <2>1. worker[w].cb \in CallBacks
    BY <1>24 DEF IInv, WorkerInv, WorkerFails
  <2>2. worker' \in [Workers -> WorkerType]
    BY <1>d, <1>24 DEF WorkerFails, WorkerType, WorkerSteps, IdleWorker
  <2>f. faults' \in Nat
    BY <1>d, <1>24 DEF WorkerFails, Fault
  <2> QED BY <1>0, <1>24, <2>f, <2>1, <2>2 DEF TypeOK, WorkerFails
<1>25. CASE Shutdown
  BY <1>0, <1>25 DEF TypeOK, Shutdown
<1>26. CASE Restart
  <2>1. delivery' \in DeliveryType /\ worker' \in [Workers -> WorkerType]
    BY <1>26 DEF Restart, NewProcess, DeliveryType, DeliverySteps, WorkerType,
                 WorkerSteps, IdleDelivery, IdleWorker
  <2> QED BY <1>0, <1>26, <2>1, SizesAssumption, BoundsAssumption DEF TypeOK, Restart, NewProcess
<1> QED
  BY <1>1, <1>2, <1>3, <1>4, <1>5, <1>6, <1>7, <1>8, <1>9, <1>10, <1>11, <1>12,
     <1>13, <1>14, <1>15, <1>16, <1>17, <1>18, <1>19, <1>20, <1>21, <1>22,
     <1>23, <1>24, <1>25, <1>26
  DEF Next, Deliver, Work

(* Evicting the oldest event of a full memory queue to add the newest      *)
(* leaves a run of consecutive indices that ends at the new head.          *)
InSync(queue, h) ==
    /\ Len(queue) <= h
    /\ \A k \in 1 .. Len(queue) : queue[k] = h - Len(queue) + k - 1

(* Removing the oldest event keeps the run.                                *)
LEMMA InSyncTail ==
    ASSUME NEW queue \in Seq(Nat), queue # <<>>, NEW h \in Nat, InSync(queue, h)
    PROVE  /\ Tail(queue) \in Seq(Nat)
           /\ Len(Tail(queue)) = Len(queue) - 1
           /\ InSync(Tail(queue), h)
           /\ Len(queue) >= 1 /\ Head(queue) \in Nat /\ Head(queue) = h - Len(queue)
           /\ Tail(queue) # <<>> => Head(Tail(queue)) = Head(queue) + 1
<1>1. /\ Tail(queue) \in Seq(Nat) /\ Len(Tail(queue)) = Len(queue) - 1
      /\ Len(queue) \in Nat /\ Len(queue) >= 1
  OBVIOUS
<1>2. \A k \in 1 .. Len(Tail(queue)) : Tail(queue)[k] = queue[k + 1]
  OBVIOUS
<1>3. \A k \in 1 .. Len(Tail(queue)) : Tail(queue)[k] = h - Len(Tail(queue)) + k - 1
  <2> SUFFICES ASSUME NEW k \in 1 .. Len(Tail(queue))
               PROVE  Tail(queue)[k] = h - Len(Tail(queue)) + k - 1
    OBVIOUS
  <2>1. k + 1 \in 1 .. Len(queue)
    BY <1>1
  <2>2. queue[k + 1] = h - Len(queue) + (k + 1) - 1
    BY <2>1 DEF InSync
  <2> QED BY <1>1, <1>2, <2>2
<1>4. Head(queue) = h - Len(queue)
  BY <1>1 DEF InSync
<1>5. InSync(Tail(queue), h)
  BY <1>1, <1>3 DEF InSync
<1>6. Tail(queue) # <<>> => Head(Tail(queue)) = Head(queue) + 1
  <2> SUFFICES ASSUME Tail(queue) # <<>> PROVE Head(Tail(queue)) = Head(queue) + 1
    OBVIOUS
  <2>1. 1 \in 1 .. Len(Tail(queue)) /\ Head(Tail(queue)) = Tail(queue)[1]
    BY <1>1
  <2>2. Tail(queue)[1] = h - Len(Tail(queue)) + 1 - 1
    BY <1>3, <2>1
  <2> QED BY <1>1, <1>4, <2>1, <2>2
<1>7. Head(queue) \in Nat
  BY <1>1, <1>4 DEF InSync
<1> QED BY <1>1, <1>4, <1>5, <1>6, <1>7

(* Adding the event just appended to the array keeps the run.              *)
LEMMA InSyncAppend ==
    ASSUME NEW queue \in Seq(Nat), NEW h \in Nat, InSync(queue, h)
    PROVE  /\ InSync(Append(queue, h), h + 1)
           /\ Append(queue, h) # <<>>
           /\ Head(Append(queue, h)) = IF queue = <<>> THEN h ELSE Head(queue)
<1>1. /\ Append(queue, h) \in Seq(Nat) /\ Len(Append(queue, h)) = Len(queue) + 1
      /\ Len(queue) \in Nat
      /\ \A k \in 1 .. Len(queue) : Append(queue, h)[k] = queue[k]
      /\ Append(queue, h)[Len(queue) + 1] = h
  OBVIOUS
<1>2. \A k \in 1 .. (Len(queue) + 1) :
          Append(queue, h)[k] = (h + 1) - (Len(queue) + 1) + k - 1
  BY <1>1 DEF InSync
<1>3. InSync(Append(queue, h), h + 1)
  BY <1>1, <1>2 DEF InSync
<1>4. Append(queue, h) # <<>> /\ Head(Append(queue, h)) = Append(queue, h)[1]
  BY <1>1
<1>5. Head(Append(queue, h)) = IF queue = <<>> THEN h ELSE Head(queue)
  <2>1. CASE queue = <<>>
    BY <1>1, <1>4, <2>1
  <2>2. CASE queue # <<>>
    BY <1>1, <1>4, <2>2
  <2> QED BY <2>1, <2>2
<1> QED BY <1>3, <1>4, <1>5

(* The index a finalized callback removes up to was taken before its child *)
(* was created.                                                            *)
LEMMA CompletionBelow ==
    ASSUME TypeOK, CallBackInv, NEW c \in CallBacks, c < last
    PROVE  /\ c + 1 \in CallBacks /\ c + 1 <= last
           /\ completionIndex[c] \in Nat /\ start[c + 1] \in Nat
           /\ completionIndex[c] <= start[c + 1]
           /\ completionIndex[c] <= nextIndex
<1>1. c \in Nat /\ last \in CallBacks /\ nextIndex \in Nat
  BY DEF TypeOK
<1>2. c + 1 \in CallBacks /\ c + 1 <= last
  BY <1>1, BoundsAssumption
<1>3. completionIndex[c] \in Nat /\ start[c + 1] \in Nat
  BY <1>2 DEF TypeOK
<1>4. c <= last
  BY <1>1
<1>5. completionIndex[c] <= start[c + 1]
  BY <1>4 DEF CallBackInv, EndOf
<1>6. start[c + 1] <= nextIndex
  BY <1>2 DEF CallBackInv
<1> QED BY <1>1, <1>2, <1>3, <1>5, <1>6

(* The queue side: only Put, the takes of get(), a removal and a restart   *)
(* move an index or the memory queue.                                      *)
LEMMA QueueStep == IInv /\ Next => QueueInv'
<1> SUFFICES ASSUME IInv, Next PROVE QueueInv'
  OBVIOUS
<1> USE DEF queueVars, sizeVars, callBackVars
<1>0. /\ tail \in Nat /\ head \in Nat /\ nextIndex \in Nat
      /\ memoryQueue \in Seq(Nat)
      /\ QueueInv
  BY DEF IInv, TypeOK
<1>m. InSync(memoryQueue, head) /\ (memoryQueue # <<>> => nextIndex <= Head(memoryQueue))
  BY <1>0 DEF QueueInv, MemoryQueueInSync, InSync
<1>q. ASSUME InSync(memoryQueue', head'),
             memoryQueue' # <<>> => nextIndex' <= Head(memoryQueue'),
             tail' <= nextIndex', nextIndex' <= head'
      PROVE  QueueInv'
  BY <1>q DEF QueueInv, MemoryQueueInSync, InSync
<1>1. CASE Put
  <2>1. CASE Len(memoryQueue) = MemoryQueueSize
    <3>1. memoryQueue # <<>>
      BY <2>1, SizesAssumption
    <3>2. memoryQueue' = Append(Tail(memoryQueue), head)
      BY <1>1, <2>1 DEF Put, AddToMemory
    <3>3. /\ Tail(memoryQueue) \in Seq(Nat) /\ InSync(Tail(memoryQueue), head)
          /\ Tail(memoryQueue) # <<>> => Head(Tail(memoryQueue)) = Head(memoryQueue) + 1
          /\ Head(memoryQueue) \in Nat
      BY <1>0, <1>m, <3>1, InSyncTail
    <3>4. /\ InSync(memoryQueue', head + 1)
          /\ Head(memoryQueue') = IF Tail(memoryQueue) = <<>> THEN head ELSE Head(Tail(memoryQueue))
      BY <1>0, <3>2, <3>3, InSyncAppend
    <3>5. /\ head' = head + 1 /\ UNCHANGED <<tail, nextIndex>>
          /\ nextIndex <= head /\ tail <= nextIndex
      BY <1>0, <1>1 DEF Put, QueueInv
    <3>6. nextIndex <= Head(memoryQueue')
      <4>1. CASE Tail(memoryQueue) = <<>>
        BY <3>4, <3>5, <4>1
      <4>2. CASE Tail(memoryQueue) # <<>>
        <5>1. Head(memoryQueue') = Head(memoryQueue) + 1
          BY <3>3, <3>4, <4>2
        <5> QED BY <1>0, <1>m, <3>1, <3>3, <5>1
      <4> QED BY <4>1, <4>2
    <3> QED BY <1>0, <1>q, <3>4, <3>5, <3>6
  <2>2. CASE Len(memoryQueue) # MemoryQueueSize
    <3>1. memoryQueue' = Append(memoryQueue, head)
      BY <1>1, <2>2 DEF Put, AddToMemory
    <3>2. /\ InSync(memoryQueue', head + 1)
          /\ Head(memoryQueue') = IF memoryQueue = <<>> THEN head ELSE Head(memoryQueue)
      BY <1>0, <1>m, <3>1, InSyncAppend
    <3>3. /\ head' = head + 1 /\ UNCHANGED <<tail, nextIndex>>
          /\ nextIndex <= head /\ tail <= nextIndex
      BY <1>0, <1>1 DEF Put, QueueInv
    <3> QED BY <1>0, <1>m, <1>q, <3>2, <3>3
  <2> QED BY <2>1, <2>2
<1>2. CASE TakeFromMemory
  <2>1. /\ memoryQueue # <<>> /\ Head(memoryQueue) = nextIndex
        /\ memoryQueue' = Tail(memoryQueue) /\ nextIndex' = nextIndex + 1
        /\ UNCHANGED <<tail, head>>
    BY <1>2 DEF TakeFromMemory, MoreToTake, Advance
  <2>2. /\ InSync(memoryQueue', head')
        /\ memoryQueue' # <<>> => Head(memoryQueue') = nextIndex'
        /\ nextIndex = head - Len(memoryQueue)
        /\ Len(memoryQueue) >= 1
    <3>1. /\ InSync(Tail(memoryQueue), head) /\ Len(memoryQueue) >= 1
          /\ Head(memoryQueue) = head - Len(memoryQueue)
          /\ Tail(memoryQueue) # <<>> => Head(Tail(memoryQueue)) = Head(memoryQueue) + 1
      BY <1>0, <1>m, <2>1, InSyncTail
    <3> QED BY <2>1, <3>1
  <2> QED BY SMTT(30), <1>0, <1>q, <2>1, <2>2 DEF QueueInv
<1>3. CASE TakeFromFile \/ TakeUnreadable
  BY <1>0, <1>3 DEF QueueInv, MemoryQueueInSync, TakeFromFile, TakeUnreadable, MoreToTake, Advance
<1>4. ASSUME NEW w \in Workers, RemoveBeforeIndex(w) PROVE QueueInv'
  <2>1. /\ worker[w].cur \in CallBacks
        /\ completionIndex[worker[w].cur] \in Nat
        /\ completionIndex[worker[w].cur] <= nextIndex
    <3>1. worker[w].cur \in CallBacks /\ worker[w].cur < last
      BY <1>4 DEF RemoveBeforeIndex, IInv, WorkerInv
    <3> QED BY <1>0, <3>1, CompletionBelow DEF IInv
  <2> QED BY <1>0, <1>4, <2>1 DEF QueueInv, MemoryQueueInSync, RemoveBeforeIndex
<1>5. CASE Restart
  BY <1>0, <1>5 DEF QueueInv, MemoryQueueInSync, Restart, NewProcess
<1>6. CASE UNCHANGED queueVars
  BY <1>0, <1>6 DEF QueueInv, MemoryQueueInSync
<1>7. \/ Put \/ TakeFromMemory \/ TakeFromFile \/ TakeUnreadable \/ Restart
      \/ \E w \in Workers : RemoveBeforeIndex(w)
      \/ UNCHANGED queueVars
  BY DEF Next, Deliver, Work, vars, Poll, StartGet, ReadFails, EndGet, CountBatch,
         KeepCallBack, SetFinalized, SetChildCallBack, TestFull, TestLimit, ReadSize, WriteSize, GoesOn, HandleEvents,
         HandleFails, ReduceRead, ReduceWrite, Complete, CompleteChild,
         RemoveThrows, RemoveFails, WorkerFails, Shutdown
<1> QED BY <1>1, <1>2, <1>3, <1>4, <1>5, <1>6, <1>7

(* Batches: the loop of get() takes no more than it was asked for.         *)
LEMMA BatchStep == IInv /\ Next => BatchInv'
<1> SUFFICES ASSUME IInv, Next PROVE BatchInv'
  OBVIOUS
<1> USE MaxSize DEF queueVars, sizeVars, callBackVars
<1>0. /\ delivery \in DeliveryType /\ delivery.ret \in Seq(Nat)
      /\ delivery.taken \in Nat /\ delivery.asked \in Nat
      /\ worker \in [Workers -> WorkerType] /\ batchSize \in Nat
      /\ batchSize <= MaxBatchSize /\ BatchInv
  BY DEF IInv, TypeOK, SizeInv, BatchSizeBounded, DeliveryType
<1>1. CASE StartGet
  <2>1. /\ delivery'.ret = <<>> /\ delivery'.taken = 0 /\ delivery'.asked = batchSize
        /\ worker' = worker
    BY <1>1 DEF StartGet, IdleDelivery
  <2> QED BY <1>0, <2>1 DEF BatchInv
<1>2. CASE TakeFromMemory \/ TakeFromFile \/ TakeUnreadable
  <2>1. PICK ret : MoreToTake /\ Advance(ret)
                   /\ (ret = delivery.ret \/ \E x : ret = Append(delivery.ret, x))
    BY <1>2 DEF TakeFromMemory, TakeFromFile, TakeUnreadable
  <2>2. Len(ret) <= Len(delivery.ret) + 1
    BY <1>0, <2>1
  <2>3. /\ delivery'.pc = "loop" /\ delivery'.ret = ret /\ worker' = worker
        /\ delivery'.taken = delivery.taken + 1 /\ delivery'.asked = delivery.asked
        /\ delivery.pc = "loop" /\ delivery.taken < delivery.asked
    BY <1>0, <2>1 DEF Advance, MoreToTake, DeliveryType
  <2>4. Len(ret) \in Nat /\ Len(delivery.ret) \in Nat
    BY <1>0, <2>1
  <2> QED BY <1>0, <2>2, <2>3, <2>4 DEF BatchInv
<1>3. CASE \/ ReadFails \/ EndGet \/ CountBatch \/ KeepCallBack \/ SetFinalized \/ SetChildCallBack
           \/ TestFull \/ TestLimit \/ ReadSize \/ WriteSize
  <2>1. delivery'.ret = delivery.ret /\ delivery'.pc # "loop" /\ worker' = worker
    BY <1>0, <1>3 DEF ReadFails, EndGet, CountBatch, KeepCallBack, SetFinalized,
       SetChildCallBack, TestFull, TestLimit, ReadSize, WriteSize, GoesOn, DeliveryType
  <2> QED BY <1>0, <2>1 DEF BatchInv
<1>4. ASSUME NEW w \in Workers, HandleEvents(w) PROVE BatchInv'
  <2>1. /\ delivery'.ret = <<>> /\ delivery'.pc = "check"
        /\ worker'[w].events = delivery.ret
        /\ \A v \in Workers \ {w} : worker'[v] = worker[v]
    BY <1>0, <1>4 DEF HandleEvents, IdleDelivery
  <2> QED BY <1>0, <2>1 DEF BatchInv
<1>5. CASE HandleFails
  <2>1. delivery'.ret = <<>> /\ delivery'.pc = "check" /\ worker' = worker
    BY <1>5 DEF HandleFails, IdleDelivery
  <2> QED BY <1>0, <2>1 DEF BatchInv
<1>6. CASE Restart
  <2>1. /\ delivery'.ret = <<>> /\ delivery'.pc = "check"
        /\ \A w \in Workers : worker'[w].events = <<>>
    BY <1>6 DEF Restart, NewProcess, IdleDelivery, IdleWorker
  <2> QED BY <2>1 DEF BatchInv
<1>7. ASSUME NEW w \in Workers, Complete(w) \/ CompleteChild(w) \/ RemoveBeforeIndex(w)
                                \/ RemoveThrows(w) \/ RemoveFails(w) \/ WorkerFails(w)
      PROVE  BatchInv'
  <2>1. /\ delivery' = delivery
        /\ worker'[w].events = <<>> \/ worker'[w].events = worker[w].events
        /\ \A v \in Workers \ {w} : worker'[v] = worker[v]
    <3>1. CASE Complete(w) \/ RemoveThrows(w) \/ WorkerFails(w)
      BY <1>0, <3>1 DEF Complete, RemoveThrows, WorkerFails, IdleWorker
    <3>2. CASE CompleteChild(w)
      BY <1>0, <3>2 DEF CompleteChild, IdleWorker, WorkerType
    <3>3. CASE RemoveBeforeIndex(w) \/ RemoveFails(w)
      <4>1. Return(w) /\ delivery' = delivery
        BY <3>3 DEF RemoveBeforeIndex, RemoveFails
      <4> QED BY <1>0, <4>1 DEF Return, IdleWorker, WorkerType
    <3> QED BY <1>7, <3>1, <3>2, <3>3
  <2> QED BY <1>0, <2>1 DEF BatchInv
<1>8. CASE UNCHANGED <<delivery, worker>>
  BY <1>0, <1>8 DEF BatchInv
<1>9. ASSUME NEW w \in Workers, ReduceRead(w) \/ ReduceWrite(w) PROVE UNCHANGED <<delivery, worker>>
  BY <1>9 DEF ReduceRead, ReduceWrite
<1>10. CASE Put \/ Poll \/ Shutdown
  BY <1>8, <1>10 DEF Put, Poll, Shutdown, vars
<1> QED BY <1>1, <1>2, <1>3, <1>4, <1>5, <1>6, <1>7, <1>8, <1>9, <1>10 DEF Next, Deliver, Work

(* The batch size: each write of the racing read-modify-writes is in range *)
(* whatever was written since its read.                                    *)
LEMMA SizeStep == IInv /\ Next => SizeInv'
<1> SUFFICES ASSUME IInv, Next PROVE SizeInv'
  OBVIOUS
<1> USE MaxSize, SizesAssumption DEF queueVars, sizeVars, callBackVars
<1>0. /\ batchSize \in Nat /\ reducing \in [Workers -> Nat] /\ BatchInv /\ SizeInv
      /\ delivery \in DeliveryType /\ delivery.read \in Nat
  BY DEF IInv, TypeOK, DeliveryType
<1>1. CASE TestFull \/ TestLimit
  <2>1. /\ delivery'.pc = "read" => batchSize < InitialBatchSize
        /\ delivery'.pc # "write" /\ UNCHANGED <<batchSize, reducing>>
    BY <1>0, <1>1 DEF TestFull, TestLimit, GoesOn, DeliveryType
  <2> QED BY <1>0, <2>1 DEF SizeInv, BatchSizeBounded
<1>2. CASE ReadSize
  <2>1. /\ delivery.pc = "read" /\ delivery'.pc = "write" /\ delivery'.read = batchSize
        /\ UNCHANGED <<batchSize, reducing>>
    BY <1>0, <1>2 DEF ReadSize, DeliveryType
  <2> QED BY <1>0, <2>1 DEF SizeInv, BatchSizeBounded
<1>3. CASE WriteSize
  <2>1. /\ delivery.pc = "write" /\ delivery'.pc = "handle"
        /\ batchSize' = delivery.read + Increment /\ UNCHANGED reducing
    BY <1>0, <1>3 DEF WriteSize, DeliveryType
  <2> QED BY <1>0, <2>1 DEF SizeInv, BatchSizeBounded
<1>4. ASSUME NEW w \in Workers, ReduceRead(w) PROVE SizeInv'
  <2>1. PICK limit \in 1 .. (Len(worker[w].events) \div 2) :
             reducing' = [reducing EXCEPT ![w] = IF limit < batchSize THEN limit ELSE batchSize]
    BY <1>4 DEF ReduceRead
  <2>2. Len(worker[w].events) \in Nat /\ Len(worker[w].events) <= MaxBatchSize
    BY <1>0 DEF BatchInv, IInv, TypeOK, WorkerType
  <2>3. limit \in Nat /\ 2 * limit <= MaxBatchSize
    BY <2>1, <2>2, MaxSize, HalfFits
  <2>4. reducing'[w] \in Nat /\ reducing'[w] <= limit
    BY <1>0, <2>1, <2>3
  <2>5. \A v \in Workers : 2 * reducing'[v] <= MaxBatchSize
    BY <1>0, <2>1, <2>3, <2>4 DEF SizeInv
  <2> QED BY <1>0, <1>4, <2>5 DEF SizeInv, BatchSizeBounded, ReduceRead
<1>5. ASSUME NEW w \in Workers, ReduceWrite(w) PROVE SizeInv'
  <2>1. /\ reducing[w] \in Nat /\ reducing[w] # 0 /\ 2 * reducing[w] <= MaxBatchSize
        /\ batchSize' = reducing[w] /\ delivery' = delivery
        /\ reducing' = [reducing EXCEPT ![w] = 0]
    BY <1>0, <1>5 DEF SizeInv, ReduceWrite
  <2>2. batchSize' + Increment <= MaxBatchSize /\ batchSize' <= MaxBatchSize /\ 1 <= batchSize'
    <3>1. reducing[w] + Increment <= MaxBatchSize
      BY <2>1, MaxSize
    <3> QED BY <2>1, <3>1
  <2>3. \A v \in Workers : 2 * reducing'[v] <= MaxBatchSize
    BY <1>0, <2>1 DEF SizeInv
  <2> QED BY <1>0, <2>1, <2>2, <2>3 DEF SizeInv, BatchSizeBounded
<1>6. CASE Restart
  BY <1>6 DEF SizeInv, BatchSizeBounded, Restart, NewProcess, IdleDelivery
<1>7. CASE /\ UNCHANGED <<batchSize, reducing>>
           /\ UNCHANGED delivery \/ delivery'.pc \notin {"read", "write"}
  BY <1>0, <1>7 DEF SizeInv, BatchSizeBounded
<1>8. CASE Put \/ Poll \/ Shutdown
  BY <1>7, <1>8 DEF Put, Poll, Shutdown, vars
<1>9. ASSUME NEW w \in Workers, Complete(w) \/ CompleteChild(w) \/ RemoveBeforeIndex(w)
                                \/ RemoveThrows(w) \/ RemoveFails(w) \/ WorkerFails(w)
      PROVE  UNCHANGED <<batchSize, reducing, delivery>>
  BY <1>9 DEF Complete, CompleteChild, RemoveBeforeIndex, RemoveThrows, RemoveFails, WorkerFails
<1>10. CASE StartGet \/ HandleFails \/ \E w \in Workers : HandleEvents(w)
  <2>1. delivery'.pc \in {"loop", "check"} /\ UNCHANGED <<batchSize, reducing>>
    <3>1. CASE StartGet
      BY <3>1 DEF StartGet, IdleDelivery
    <3>2. CASE HandleFails
      BY <3>2 DEF HandleFails, IdleDelivery
    <3>3. ASSUME NEW w \in Workers, HandleEvents(w)
          PROVE  delivery'.pc \in {"loop", "check"} /\ UNCHANGED <<batchSize, reducing>>
      BY <3>3 DEF HandleEvents, IdleDelivery
    <3> QED BY <1>10, <3>1, <3>2, <3>3
  <2> QED BY <1>7, <2>1
<1>11. CASE TakeFromMemory \/ TakeFromFile \/ TakeUnreadable
  <2>1. delivery'.pc = "loop" /\ UNCHANGED <<batchSize, reducing>>
    BY <1>0, <1>11 DEF TakeFromMemory, TakeFromFile, TakeUnreadable, Advance, MoreToTake, DeliveryType
  <2> QED BY <1>7, <2>1
<1>12. CASE ReadFails \/ EndGet \/ CountBatch \/ KeepCallBack \/ SetFinalized \/ SetChildCallBack
  <2>1. delivery'.pc \notin {"read", "write"} /\ UNCHANGED <<batchSize, reducing>>
    BY <1>0, <1>12 DEF ReadFails, EndGet, CountBatch, KeepCallBack, SetFinalized,
                       SetChildCallBack, DeliveryType
  <2> QED BY <1>7, <2>1
<1> QED BY <1>1, <1>2, <1>3, <1>4, <1>5, <1>6, <1>7, <1>8, <1>9, <1>10, <1>11, <1>12
        DEF Next, Deliver, Work

(* What each step of the DeliveryThread does to its own state.             *)
Moves(from, to) == delivery.pc \in from /\ delivery'.pc \in to
Keeps == /\ delivery'.ret = delivery.ret
         /\ delivery'.returnIndex = delivery.returnIndex

(* Where each step moves the DeliveryThread.                               *)
LEMMA DeliveryFacts ==
    ASSUME delivery \in DeliveryType
    PROVE  /\ StartGet => /\ Moves({"check"}, {"loop"})
                          /\ delivery'.ret = <<>> /\ delivery'.returnIndex = 0
           /\ \A ret : (MoreToTake /\ Advance(ret)) =>
                 /\ Moves({"loop"}, {"loop"})
                 /\ delivery'.ret = ret /\ delivery'.returnIndex = nextIndex
           /\ (ReadFails \/ EndGet) => Moves({"loop"}, {"count"}) /\ Keeps
           /\ CountBatch => Moves({"count"}, {"callback"}) /\ Keeps
           /\ KeepCallBack => Moves({"callback"}, {"full"}) /\ Keeps /\ delivery'.cb = last
           /\ SetFinalized => Moves({"callback"}, {"child"}) /\ Keeps /\ delivery'.cb = last
           /\ SetChildCallBack =>
                 Moves({"child"}, {"full"}) /\ Keeps /\ delivery'.cb = delivery.cb
           /\ (TestFull \/ TestLimit \/ ReadSize \/ WriteSize) =>
                 Moves({"full", "limit", "read", "write"}, {"limit", "read", "write", "handle"}) /\ Keeps /\ delivery'.cb = delivery.cb
           /\ ((\E w \in Workers : HandleEvents(w)) \/ HandleFails) =>
                 Moves({"handle"}, {"check"}) /\ delivery'.ret = <<>> /\ delivery'.returnIndex = 0
<1> USE DEF Moves, Keeps, DeliveryType
<1>1. StartGet => /\ Moves({"check"}, {"loop"})
                  /\ delivery'.ret = <<>> /\ delivery'.returnIndex = 0
  BY DEF StartGet, IdleDelivery
<1>2. ASSUME NEW ret, MoreToTake, Advance(ret)
      PROVE  /\ Moves({"loop"}, {"loop"})
             /\ delivery'.ret = ret /\ delivery'.returnIndex = nextIndex
  BY <1>2 DEF MoreToTake, Advance
<1>3. (ReadFails \/ EndGet) => Moves({"loop"}, {"count"}) /\ Keeps
  BY DEF ReadFails, EndGet, MoreToTake
<1>4. CountBatch => Moves({"count"}, {"callback"}) /\ Keeps
  BY DEF CountBatch
<1>5. KeepCallBack => Moves({"callback"}, {"full"}) /\ Keeps /\ delivery'.cb = last
  BY DEF KeepCallBack
<1>6. SetFinalized => Moves({"callback"}, {"child"}) /\ Keeps /\ delivery'.cb = last
  BY DEF SetFinalized
<1>7. SetChildCallBack =>
        Moves({"child"}, {"full"}) /\ Keeps /\ delivery'.cb = delivery.cb
  BY DEF SetChildCallBack
<1>8. (TestFull \/ TestLimit) =>
        /\ Moves({"full", "limit", "read", "write"}, {"limit", "read", "write", "handle"})
        /\ Keeps /\ delivery'.cb = delivery.cb
  BY DEF TestFull, TestLimit, GoesOn
<1>9. (ReadSize \/ WriteSize) =>
        /\ Moves({"full", "limit", "read", "write"}, {"limit", "read", "write", "handle"})
        /\ Keeps /\ delivery'.cb = delivery.cb
  BY DEF ReadSize, WriteSize
<1>10. ASSUME NEW w \in Workers, HandleEvents(w)
       PROVE  Moves({"handle"}, {"check"}) /\ delivery'.ret = <<>> /\ delivery'.returnIndex = 0
  BY <1>10 DEF HandleEvents, IdleDelivery
<1>11. HandleFails =>
         Moves({"handle"}, {"check"}) /\ delivery'.ret = <<>> /\ delivery'.returnIndex = 0
  BY DEF HandleFails, IdleDelivery
<1> HIDE DEF Moves, Keeps
<1> QED BY <1>1, <1>2, <1>3, <1>4, <1>5, <1>6, <1>7, <1>8, <1>9, <1>10, <1>11

(* One turn of the loop of get(), whichever way the event is found.        *)
Take == TakeFromMemory \/ TakeFromFile \/ TakeUnreadable

(* It appends the event at m_nextIndex or passes over it.                  *)
LEMMA TakeFacts ==
    ASSUME IInv, Take
    PROVE  /\ Moves({"loop"}, {"loop"})
           /\ delivery'.returnIndex = nextIndex
           /\ nextIndex' = nextIndex + 1
           /\ UNCHANGED <<callBackVars, worker, stuck, tail>>
           /\ delivery'.ret \in Seq(Nat)
           /\ \/ settled' = settled /\ Elements(delivery'.ret) = Elements(delivery.ret) \cup {nextIndex}
              \/ settled' = settled \cup {nextIndex} /\ delivery'.ret = delivery.ret
<1>0. /\ delivery \in DeliveryType /\ nextIndex \in Nat /\ head \in Nat
      /\ memoryQueue \in Seq(Nat) /\ delivery.ret \in Seq(Nat)
  BY DEF IInv, TypeOK, DeliveryType
<1>1. CASE TakeFromMemory
  <2>1. MoreToTake /\ Advance(Append(delivery.ret, nextIndex)) /\ UNCHANGED settled
    BY <1>1 DEF TakeFromMemory
  <2>2. /\ Elements(Append(delivery.ret, nextIndex)) = Elements(delivery.ret) \cup {nextIndex}
        /\ Append(delivery.ret, nextIndex) \in Seq(Nat)
    BY <1>0, ElementsAppend
  <2> QED BY <1>0, <2>1, <2>2, DeliveryFacts DEF Advance
<1>2. CASE TakeFromFile
  <2>1. nextIndex # head
    <3>1. memoryQueue # <<>> /\ QueueInv
      BY <1>2 DEF TakeFromFile, MoreToTake, IInv
    <3>2. InSync(memoryQueue, head) /\ nextIndex <= Head(memoryQueue)
      BY <3>1 DEF QueueInv, MemoryQueueInSync, InSync
    <3> QED BY <1>0, <3>1, <3>2, InSyncTail
  <2>2. MoreToTake /\ Advance(Append(delivery.ret, nextIndex)) /\ UNCHANGED settled
    BY <1>2, <2>1 DEF TakeFromFile
  <2>3. /\ Elements(Append(delivery.ret, nextIndex)) = Elements(delivery.ret) \cup {nextIndex}
        /\ Append(delivery.ret, nextIndex) \in Seq(Nat)
    BY <1>0, ElementsAppend
  <2> QED BY <1>0, <2>2, <2>3, DeliveryFacts DEF Advance
<1>3. CASE TakeUnreadable
  <2>1. MoreToTake /\ Advance(delivery.ret) /\ settled' = settled \cup {nextIndex}
    BY <1>3 DEF TakeUnreadable
  <2> QED BY <1>0, <2>1, DeliveryFacts DEF Advance
<1> QED BY <1>1, <1>2, <1>3 DEF Take

(* The callback chain: each callback starts where its parent ended.        *)
LEMMA CallBackStep == IInv /\ Next => CallBackInv'
<1> SUFFICES ASSUME IInv, Next PROVE CallBackInv'
  OBVIOUS
<1> USE DEF queueVars, sizeVars, callBackVars
<1>0. TypeOK /\ CallBackInv /\ delivery \in DeliveryType
  BY DEF IInv, TypeOK
<1>t. /\ last \in CallBacks /\ nextIndex \in Nat /\ start \in [CallBacks -> Nat]
      /\ completionIndex \in [CallBacks -> Nat] /\ counter \in [CallBacks -> Nat]
      /\ finalized \in [CallBacks -> BOOLEAN] /\ delivery.returnIndex \in Nat
  BY <1>0 DEF TypeOK, DeliveryType
<1>1. CASE Take
  <2>1. /\ Moves({"loop"}, {"loop"}) /\ delivery'.returnIndex = nextIndex
        /\ nextIndex' = nextIndex + 1 /\ UNCHANGED <<callBackVars, stuck>>
    BY <1>1, TakeFacts
  <2> QED BY <1>0, <1>t, <2>1 DEF CallBackInv, EndOf, Moves, Resized
<1>2. CASE StartGet \/ ReadFails \/ EndGet
  <2>1. /\ Moves({"check", "loop"}, {"loop", "count"})
        /\ delivery'.returnIndex \in {0, delivery.returnIndex}
        /\ UNCHANGED <<callBackVars, nextIndex, stuck>>
    BY <1>0, <1>2, DeliveryFacts DEF StartGet, ReadFails, EndGet, Moves, Keeps
  <2> QED BY <1>0, <1>t, <2>1 DEF CallBackInv, EndOf, Moves, Resized
<1>3. CASE CountBatch
  <2>1. /\ Moves({"count"}, {"callback"}) /\ Keeps
        /\ UNCHANGED <<finalized, last, start, nextIndex, stuck>>
        /\ counter' = [counter EXCEPT ![last] = @ + 1]
        /\ completionIndex' = [completionIndex EXCEPT ![last] = delivery.returnIndex]
    BY <1>0, <1>3, DeliveryFacts DEF CountBatch
  <2> QED BY <1>0, <1>t, <2>1 DEF CallBackInv, EndOf, Moves, Keeps, Resized
<1>4. CASE KeepCallBack \/ TestFull \/ TestLimit \/ ReadSize \/ WriteSize
  <2>1. /\ delivery.pc \in Counted \ {"child"} /\ delivery'.pc \in Resized /\ Keeps
        /\ delivery'.cb = last \/ (delivery.pc \in Resized /\ delivery'.cb = delivery.cb)
        /\ UNCHANGED <<callBackVars, nextIndex, stuck>>
    BY <1>0, <1>4, DeliveryFacts
    DEF KeepCallBack, TestFull, TestLimit, ReadSize, WriteSize, GoesOn, Moves, Keeps, Counted, Resized
  <2> QED BY <1>0, <1>t, <2>1 DEF CallBackInv, EndOf, Keeps, Counted, Resized
<1>5. CASE SetFinalized
  <2>1. /\ Moves({"callback"}, {"child"}) /\ Keeps /\ delivery'.cb = last
        /\ UNCHANGED <<counter, completionIndex, last, start, nextIndex, stuck>>
        /\ last <= MaxCheckpoints
        /\ finalized' = [finalized EXCEPT ![last] = TRUE]
    BY <1>0, <1>5, DeliveryFacts DEF SetFinalized
  <2> QED BY <1>0, <1>t, <2>1 DEF CallBackInv, EndOf, Moves, Keeps, Resized
<1>6. CASE SetChildCallBack
  <2>1. /\ Moves({"child"}, {"full"}) /\ Keeps /\ delivery'.cb = delivery.cb
        /\ UNCHANGED <<finalized, completionIndex, nextIndex, stuck>>
        /\ last' = last + 1
        /\ counter' = [counter EXCEPT ![last + 1] = @ + 1]
        /\ start' = [start EXCEPT ![last + 1] = nextIndex]
    BY <1>0, <1>6, DeliveryFacts DEF SetChildCallBack
  <2>2. last + 1 \in CallBacks /\ delivery.cb = last /\ delivery.pc = "child"
    BY <1>0, <1>t, <2>1, BoundsAssumption DEF CallBackInv, Moves
  <2>3. /\ delivery'.pc = "full" /\ delivery'.cb \in CallBacks /\ delivery'.cb <= last'
        /\ delivery'.returnIndex <= nextIndex' /\ \A c \in stuck' : c <= last'
    BY <1>0, <1>t, <2>1, <2>2 DEF CallBackInv, Moves, Keeps, TypeOK
  <2>4. \A c \in CallBacks : finalized'[c] <=> (c < last' \/ (c = last' /\ delivery'.pc = "child"))
    BY <1>0, <1>t, <2>1, <2>2, <2>3 DEF CallBackInv
  <2>5. \A c \in CallBacks : c > last' => counter'[c] = 0 /\ completionIndex'[c] = 0
    BY <1>0, <1>t, <2>1, <2>2 DEF CallBackInv
  <2>6. \A c \in CallBacks : c <= last' => start'[c] <= nextIndex'
    BY <1>0, <1>t, <2>1, <2>2 DEF CallBackInv
  <2>7. \A c, d \in CallBacks : (c <= d /\ d <= last') => start'[c] <= start'[d]
    BY <1>0, <1>t, <2>1, <2>2 DEF CallBackInv
  <2>8. \A c \in CallBacks : c <= last' => completionIndex'[c] <= EndOf(c)'
    <3> SUFFICES ASSUME NEW c \in CallBacks, c <= last + 1
                 PROVE  completionIndex[c] <= EndOf(c)'
      BY <2>1
    <3>1. CASE c < last
      <4>1. EndOf(c) = start[c + 1] /\ EndOf(c)' = start'[c + 1] /\ c + 1 # last + 1
        BY <1>t, <2>1, <3>1 DEF EndOf
      <4>2. c + 1 \in CallBacks
        BY <1>t, <3>1, BoundsAssumption
      <4> QED BY <1>0, <1>t, <2>1, <3>1, <4>1, <4>2 DEF CallBackInv
    <3>2. CASE c = last
      BY <1>0, <1>t, <2>1, <2>2, <3>2 DEF CallBackInv, EndOf
    <3>3. CASE c = last + 1
      <4>1. EndOf(c)' = nextIndex /\ completionIndex[c] = 0
        BY <1>0, <1>t, <2>1, <2>2, <3>3 DEF CallBackInv, EndOf
      <4> QED BY <1>t, <4>1
    <3> QED BY <1>t, <3>1, <3>2, <3>3
  <2> QED BY <2>3, <2>4, <2>5, <2>6, <2>7, <2>8 DEF CallBackInv, Resized
<1>7. CASE HandleFails \/ \E w \in Workers : HandleEvents(w)
  <2>1. /\ Moves({"handle"}, {"check"}) /\ delivery'.returnIndex = 0
        /\ UNCHANGED <<callBackVars, nextIndex>>
        /\ stuck' \subseteq stuck \cup {delivery.cb}
    BY <1>0, <1>7, DeliveryFacts DEF HandleFails, HandleEvents
  <2> QED BY <1>0, <1>t, <2>1 DEF CallBackInv, EndOf, Moves, Resized
<1>8. ASSUME NEW w \in Workers, Complete(w) \/ CompleteChild(w) \/ WorkerFails(w)
      PROVE  CallBackInv'
  <2>1. PICK c \in CallBacks : /\ c <= last
                               /\ counter' = [counter EXCEPT ![c] = @ - 1] \/ UNCHANGED counter
                               /\ stuck' \subseteq stuck \cup {c}
    BY <1>8 DEF Complete, CompleteChild, WorkerFails, IInv, WorkerInv
  <2>2. UNCHANGED <<delivery, finalized, completionIndex, last, start, nextIndex>>
    BY <1>8 DEF Complete, CompleteChild, WorkerFails
  <2>3. \A d \in CallBacks : d > last => counter'[d] = 0
    <3> SUFFICES ASSUME NEW d \in CallBacks, d > last PROVE counter'[d] = 0
      OBVIOUS
    <3>1. d # c /\ counter[d] = 0
      BY <1>0, <1>t, <2>1 DEF CallBackInv
    <3> QED BY <1>t, <2>1, <3>1
  <2>4. \A d \in stuck' : d <= last
    BY <1>0, <1>t, <2>1 DEF CallBackInv
  <2> QED BY <1>0, <2>2, <2>3, <2>4 DEF CallBackInv, EndOf
<1>9. CASE Restart
  <2>1. /\ delivery'.pc = "check" /\ delivery'.returnIndex = 0 /\ last' = 1
        /\ nextIndex' = tail /\ stuck' = {} /\ tail \in Nat
    BY <1>0, <1>9 DEF Restart, NewProcess, IdleDelivery, TypeOK
  <2>2. \A c \in CallBacks : /\ counter'[c] = 0 /\ finalized'[c] = FALSE
                             /\ completionIndex'[c] = 0 /\ start'[c] = tail
    BY <1>9 DEF Restart, NewProcess
  <2>3. \A c \in CallBacks : c <= 1 => c = 1
    BY BoundsAssumption
  <2> QED BY <2>1, <2>2, <2>3 DEF CallBackInv, EndOf, Resized
<1>10. CASE UNCHANGED <<delivery, callBackVars, nextIndex, stuck>>
  BY <1>0, <1>10 DEF CallBackInv, EndOf
<1>11. \/ Put \/ Poll \/ Shutdown
       \/ \E w \in Workers : ReduceRead(w) \/ ReduceWrite(w) \/ RemoveBeforeIndex(w) \/ RemoveThrows(w) \/ RemoveFails(w)
       => UNCHANGED <<delivery, callBackVars, nextIndex, stuck>>
  BY DEF Put, Poll, vars, ReduceWrite, Shutdown, ReduceRead, RemoveBeforeIndex,
         RemoveThrows, RemoveFails
<1> QED BY <1>1, <1>2, <1>3, <1>4, <1>5, <1>6, <1>7, <1>8, <1>9, <1>10, <1>11
    DEF Next, Deliver, Work, Take

(* What the steps of a worker do to the workers that owe a complete().     *)
LEMMA WorkersAtLeave ==
    ASSUME TypeOK, NEW c \in CallBacks, NEW w \in WorkersAt(c), WorkersAt(c)' = WorkersAt(c) \ {w}
    PROVE  /\ Cardinality(WorkersAt(c)) \in Nat /\ Cardinality(WorkersAt(c)') \in Nat
           /\ Cardinality(WorkersAt(c)') = Cardinality(WorkersAt(c)) - 1
<1>1. IsFiniteSet(WorkersAt(c))
  BY WorkersAssumption, FS_Subset DEF WorkersAt
<1> QED BY <1>1, FS_RemoveElement, FS_CardinalityType

(* A worker that is handed a batch joins its callback.                     *)
LEMMA WorkersAtJoin ==
    ASSUME TypeOK, NEW c \in CallBacks, NEW w \in Workers, w \notin WorkersAt(c),
           WorkersAt(c)' = WorkersAt(c) \cup {w}
    PROVE  /\ Cardinality(WorkersAt(c)) \in Nat /\ Cardinality(WorkersAt(c)') \in Nat
           /\ Cardinality(WorkersAt(c)') = Cardinality(WorkersAt(c)) + 1
<1>1. IsFiniteSet(WorkersAt(c))
  BY WorkersAssumption, FS_Subset DEF WorkersAt
<1> QED BY <1>1, FS_AddElement, FS_CardinalityType

(* complete() on callback c by worker w: it leaves c, and when it was the  *)
(* last one out of a finalized callback it goes on to the child.           *)
Completes(w, c) ==
    /\ w \in WorkersAt(c)
    /\ counter' = [counter EXCEPT ![c] = @ - 1]
    /\ \A v \in Workers \ {w} : worker'[v] = worker[v]
    /\ IsLastOut(c) => worker'[w].pc = "calling" /\ worker'[w].cur = c + 1
    /\ ~IsLastOut(c) => worker'[w].pc \in {"idle", "removing"}
    /\ UNCHANGED <<delivery, finalized, completionIndex, last, start, stuck, nextIndex>>

(* Both calls of complete(), the worker's and the cascade's, are of that   *)
(* form.                                                                   *)
LEMMA CompleteFacts ==
    ASSUME IInv, NEW w \in Workers
    PROVE  /\ Complete(w) => Completes(w, worker[w].cb) /\ worker[w].cb \in CallBacks
                                /\ worker[w].cb <= last
           /\ CompleteChild(w) => Completes(w, worker[w].cur) /\ worker[w].cur \in CallBacks
                                /\ worker[w].cur <= last
<1> USE DEF queueVars, sizeVars, callBackVars
<1>0. worker \in [Workers -> WorkerType]
  BY DEF IInv, TypeOK
<1>1. ASSUME Complete(w)
      PROVE  Completes(w, worker[w].cb) /\ worker[w].cb \in CallBacks /\ worker[w].cb <= last
  <2>1. worker[w].cb \in CallBacks /\ worker[w].cb <= last /\ w \in WorkersAt(worker[w].cb)
    BY <1>1 DEF IInv, WorkerInv, Complete, WorkersAt
  <2>2. \A v \in Workers \ {w} : worker'[v] = worker[v]
    BY <1>0, <1>1 DEF Complete
  <2>3. IsLastOut(worker[w].cb) => worker'[w].pc = "calling" /\ worker'[w].cur = worker[w].cb + 1
    BY <1>0, <1>1 DEF Complete
  <2>4. ~IsLastOut(worker[w].cb) => worker'[w].pc \in {"idle", "removing"}
    BY <1>0, <1>1 DEF Complete, IdleWorker
  <2> QED BY <1>1, <2>1, <2>2, <2>3, <2>4 DEF Completes, Complete
<1>2. ASSUME CompleteChild(w)
      PROVE  Completes(w, worker[w].cur) /\ worker[w].cur \in CallBacks /\ worker[w].cur <= last
  <2>1. worker[w].cur \in CallBacks /\ worker[w].cur <= last /\ w \in WorkersAt(worker[w].cur)
    BY <1>2 DEF IInv, WorkerInv, CompleteChild, WorkersAt
  <2>2. \A v \in Workers \ {w} : worker'[v] = worker[v]
    BY <1>0, <1>2 DEF CompleteChild
  <2>3. IsLastOut(worker[w].cur) => worker'[w].pc = "calling" /\ worker'[w].cur = worker[w].cur + 1
    BY <1>0, <1>2 DEF CompleteChild, WorkerType
  <2>4. ~IsLastOut(worker[w].cur) => worker'[w].pc \in {"idle", "removing"}
    BY <1>0, <1>2 DEF CompleteChild, WorkerType
  <2> QED BY <1>2, <2>1, <2>2, <2>3, <2>4 DEF Completes, CompleteChild
<1> QED BY <1>1, <1>2

(* A callback whose last complete() is near has no other holder.           *)
LEMMA LastOutFacts ==
    ASSUME IInv, NEW c \in CallBacks, c <= last, NEW w \in WorkersAt(c)
    PROVE  /\ counter[c] \in Nat /\ counter[c] >= 1
           /\ counter[c] = 1 => /\ DeliveryAt(c) = 0 /\ ParentAt(c) = 0 /\ StuckAt(c) = 0
                                /\ \A v \in WorkersAt(c) : v = w
           /\ IsLastOut(c) => c < last /\ c + 1 \in CallBacks
<1>0. /\ IsFiniteSet(WorkersAt(c)) /\ Cardinality(WorkersAt(c)) \in Nat /\ counter[c] \in Nat
      /\ Cardinality(WorkersAt(c)) >= 1 /\ counter[c] >= 1
  BY WorkersAtCounted DEF IInv
<1>1. counter[c] >= Cardinality(WorkersAt(c)) + DeliveryAt(c) + ParentAt(c) + StuckAt(c)
  BY DEF IInv, CountInv
<1>2. DeliveryAt(c) \in {0, 1} /\ ParentAt(c) \in {0, 1} /\ StuckAt(c) \in {0, 1}
  BY DEF DeliveryAt, ParentAt, StuckAt
<1>3. ASSUME counter[c] = 1
      PROVE  /\ DeliveryAt(c) = 0 /\ ParentAt(c) = 0 /\ StuckAt(c) = 0
             /\ Cardinality(WorkersAt(c)) = 1
  BY <1>0, <1>1, <1>2, <1>3
<1>4. ASSUME counter[c] = 1, NEW v \in WorkersAt(c), v # w PROVE FALSE
  <2>1. /\ IsFiniteSet(WorkersAt(c) \ {w})
        /\ Cardinality(WorkersAt(c) \ {w}) = Cardinality(WorkersAt(c)) - 1
    BY <1>0, FS_RemoveElement
  <2>2. Cardinality(WorkersAt(c) \ {w}) = 0
    BY <1>0, <1>3, <1>4, <2>1
  <2>3. WorkersAt(c) \ {w} = {}
    BY <2>1, <2>2, FS_EmptySet
  <2> QED BY <1>4, <2>3
<1>5. ASSUME IsLastOut(c) PROVE c < last /\ c + 1 \in CallBacks
  <2>1. counter[c] = 1 /\ finalized[c]
    BY <1>5 DEF IsLastOut
  <2>2. last \in CallBacks
    BY DEF IInv, TypeOK
  <2>3. c < last \/ (c = last /\ delivery.pc = "child")
    BY <2>1 DEF IInv, CallBackInv
  <2>4. c = last /\ delivery.pc = "child" => DeliveryAt(c) = 1
    BY DEF DeliveryAt, Owner, Counted, Resized
  <2> QED BY <1>3, <2>1, <2>2, <2>3, <2>4, BoundsAssumption
<1> QED BY <1>0, <1>3, <1>4, <1>5

(* The counter of a callback is never below the number of those that will  *)
(* still call its complete().                                              *)
Balanced(c) ==
    counter[c] >= Cardinality(WorkersAt(c)) + DeliveryAt(c) + ParentAt(c) + StuckAt(c)

(* The counters over a step.                                               *)
LEMMA CountStep == IInv /\ Next => CountInv'
<1> SUFFICES ASSUME IInv, Next PROVE CountInv'
  OBVIOUS
<1> USE DEF queueVars, sizeVars, callBackVars
<1>0. TypeOK /\ CountInv /\ CallBackInv /\ WorkerInv /\ delivery \in DeliveryType
  BY DEF IInv, TypeOK
<1>t. /\ last \in CallBacks /\ counter \in [CallBacks -> Nat]
      /\ worker \in [Workers -> WorkerType]
  BY <1>0 DEF TypeOK
<1>b. \A c \in CallBacks : c <= last => Balanced(c)
  BY <1>0 DEF CountInv, Balanced
<1>c. \A c \in CallBacks : Cardinality(WorkersAt(c)) \in Nat
  BY WorkersAssumption, FS_Subset, FS_CardinalityType DEF WorkersAt
<1>n. \A c \in CallBacks : DeliveryAt(c) \in {0, 1} /\ ParentAt(c) \in {0, 1} /\ StuckAt(c) \in {0, 1}
  BY DEF DeliveryAt, ParentAt, StuckAt
<1>q. ASSUME \A c \in CallBacks : c <= last' => Balanced(c)'
      PROVE  CountInv'
  BY <1>q DEF CountInv, Balanced
<1>1. ASSUME UNCHANGED <<counter, last, stuck>>,
             \A c \in CallBacks : WorkersAt(c)' = WorkersAt(c),
             \A c \in CallBacks : c <= last => DeliveryAt(c)' = DeliveryAt(c)
      PROVE  CountInv'
  <2> SUFFICES ASSUME NEW c \in CallBacks, c <= last PROVE Balanced(c)'
    BY <1>1, <1>q
  <2>1. ParentAt(c)' = ParentAt(c) /\ StuckAt(c)' = StuckAt(c)
    BY <1>1 DEF ParentAt, StuckAt
  <2> QED BY <1>b, <1>1, <2>1 DEF Balanced
<1>2. CASE Put \/ Poll \/ Shutdown \/ \E w \in Workers : ReduceRead(w) \/ ReduceWrite(w)
  <2>1. UNCHANGED <<counter, last, stuck, worker, delivery>>
    BY <1>2 DEF Put, Poll, vars, ReduceWrite, Shutdown, ReduceRead
  <2> QED BY <1>1, <2>1 DEF WorkersAt, DeliveryAt, Owner
<1>3. CASE Take \/ StartGet \/ ReadFails \/ EndGet
  <2>1. Moves({"check", "loop"}, {"loop", "count"}) /\ UNCHANGED <<counter, last, stuck, worker>>
    BY <1>0, <1>3, TakeFacts, DeliveryFacts DEF StartGet, ReadFails, EndGet, Moves
  <2> QED BY <1>1, <2>1 DEF WorkersAt, DeliveryAt, Moves, Counted, Resized
<1>4. CASE KeepCallBack \/ SetFinalized \/ TestFull \/ TestLimit \/ ReadSize \/ WriteSize
  <2>1. UNCHANGED <<counter, last, stuck, worker>>
    BY <1>4 DEF KeepCallBack, SetFinalized, TestFull, TestLimit, ReadSize, WriteSize, GoesOn
  <2>2. delivery.pc \in Counted /\ delivery'.pc \in Counted /\ Owner' = Owner
    BY <1>0, <1>4, <2>1, DeliveryFacts DEF Counted, Resized, Moves, Owner
  <2> QED BY <1>1, <2>1, <2>2 DEF WorkersAt, DeliveryAt
<1>5. ASSUME NEW w \in Workers, RemoveBeforeIndex(w) \/ RemoveThrows(w) \/ RemoveFails(w)
      PROVE  CountInv'
  <2>1. UNCHANGED <<counter, last, stuck, delivery>>
    BY <1>5 DEF RemoveBeforeIndex, RemoveThrows, RemoveFails
  <2>2. \A v \in Workers \ {w} : worker'[v] = worker[v]
    BY <1>t, <1>5 DEF RemoveBeforeIndex, RemoveThrows, RemoveFails, Return
  <2>3. worker[w].pc = "removing" /\ worker'[w].pc \in {"idle", "removing"}
    BY <1>t, <1>5 DEF RemoveBeforeIndex, RemoveThrows, RemoveFails, Return, IdleWorker, WorkerType
  <2> QED BY <1>1, <2>1, <2>2, <2>3 DEF WorkersAt, DeliveryAt, Owner
<1>6. CASE CountBatch
  <2>1. /\ Moves({"count"}, {"callback"})
        /\ counter' = [counter EXCEPT ![last] = @ + 1]
        /\ UNCHANGED <<last, stuck, worker>>
    BY <1>0, <1>6, DeliveryFacts DEF CountBatch
  <2> SUFFICES ASSUME NEW c \in CallBacks, c <= last PROVE Balanced(c)'
    BY <2>1, <1>q
  <2>2. WorkersAt(c)' = WorkersAt(c) /\ StuckAt(c)' = StuckAt(c)
    BY <2>1 DEF WorkersAt, StuckAt
  <2>3. ParentAt(c)' = ParentAt(c)
    BY <1>t, <2>1 DEF ParentAt
  <2>4. DeliveryAt(c) = 0 /\ DeliveryAt(c)' = IF c = last THEN 1 ELSE 0
    BY <2>1 DEF DeliveryAt, Owner, Counted, Resized, Moves
  <2>5. counter'[c] = IF c = last THEN counter[c] + 1 ELSE counter[c]
    BY <1>t, <2>1
  <2>6. counter[c] >= Cardinality(WorkersAt(c)) + DeliveryAt(c) + ParentAt(c) + StuckAt(c)
    BY <1>b DEF Balanced
  <2> QED BY <1>t, <1>c, <1>n, <2>2, <2>3, <2>4, <2>5, <2>6 DEF Balanced
<1>7. CASE SetChildCallBack
  <2>1. /\ Moves({"child"}, {"full"}) /\ delivery'.cb = delivery.cb
        /\ last' = last + 1
        /\ counter' = [counter EXCEPT ![last + 1] = @ + 1]
        /\ UNCHANGED <<stuck, worker>>
    BY <1>0, <1>7, DeliveryFacts DEF SetChildCallBack
  <2>2. delivery.cb = last /\ last + 1 \in CallBacks /\ counter[last + 1] = 0
    BY <1>0, <1>t, <2>1, BoundsAssumption DEF CallBackInv, Moves
  <2> SUFFICES ASSUME NEW c \in CallBacks, c <= last + 1 PROVE Balanced(c)'
    BY <2>1, <1>q
  <2>3. WorkersAt(c)' = WorkersAt(c) /\ StuckAt(c)' = StuckAt(c)
    BY <2>1 DEF WorkersAt, StuckAt
  <2>4. DeliveryAt(c)' = DeliveryAt(c) /\ DeliveryAt(c) = IF c = last THEN 1 ELSE 0
    BY <2>1, <2>2 DEF DeliveryAt, Owner, Counted, Resized, Moves
  <2>5. CASE c <= last
    <3>1. counter'[c] = counter[c] /\ ParentAt(c)' = ParentAt(c)
      BY <1>t, <2>1, <2>5 DEF ParentAt
    <3>2. Balanced(c)
      BY <1>b, <2>5
    <3> QED BY <2>3, <2>4, <3>1, <3>2 DEF Balanced
  <2>6. CASE c = last + 1
    <3>1. WorkersAt(c) = {}
      BY <1>0, <1>t, <2>6 DEF WorkersAt, WorkerInv
    <3>2. Cardinality(WorkersAt(c)') = 0
      BY <2>3, <3>1, FS_EmptySet
    <3>3. StuckAt(c) = 0
      BY <1>0, <1>t, <2>6 DEF StuckAt, CallBackInv
    <3>4. ParentAt(c)' \in {0, 1}
      BY DEF ParentAt
    <3>5. counter'[c] = 1 /\ DeliveryAt(c) = 0
      BY <1>t, <2>1, <2>2, <2>4, <2>6
    <3> QED BY <2>3, <2>4, <3>2, <3>3, <3>4, <3>5 DEF Balanced
  <2> QED BY <1>t, <2>5, <2>6
<1>8. ASSUME NEW w \in Workers, HandleEvents(w) PROVE CountInv'
  <2>1. /\ Moves({"handle"}, {"check"}) /\ UNCHANGED <<counter, last, stuck>>
        /\ worker[w].pc = "idle"
    BY <1>0, <1>8, DeliveryFacts DEF HandleEvents
  <2>2. /\ \A v \in Workers \ {w} : worker'[v] = worker[v]
        /\ worker'[w].pc = "writing" /\ worker'[w].cb = delivery.cb
    BY <1>t, <1>8 DEF HandleEvents
  <2> SUFFICES ASSUME NEW c \in CallBacks, c <= last PROVE Balanced(c)'
    BY <2>1, <1>q
  <2>3. /\ ParentAt(c)' = ParentAt(c) /\ StuckAt(c)' = StuckAt(c)
        /\ DeliveryAt(c)' = 0 /\ DeliveryAt(c) = IF c = delivery.cb THEN 1 ELSE 0
    BY <2>1 DEF ParentAt, StuckAt, DeliveryAt, Owner, Counted, Resized, Moves
  <2>4. Balanced(c)
    BY <1>b
  <2>5. CASE c = delivery.cb
    <3>1. WorkersAt(c)' = WorkersAt(c) \cup {w} /\ w \notin WorkersAt(c)
      BY <2>1, <2>2, <2>5 DEF WorkersAt
    <3>2. Cardinality(WorkersAt(c)') = Cardinality(WorkersAt(c)) + 1
      BY <1>0, <3>1, WorkersAtJoin
    <3> QED BY <1>t, <1>c, <1>n, <2>1, <2>3, <2>4, <2>5, <3>2 DEF Balanced
  <2>6. CASE c # delivery.cb
    <3>1. WorkersAt(c)' = WorkersAt(c)
      BY <2>1, <2>2, <2>6 DEF WorkersAt
    <3> QED BY <1>t, <1>c, <1>n, <2>1, <2>3, <2>4, <2>6, <3>1 DEF Balanced
  <2> QED BY <2>5, <2>6
<1>9. CASE HandleFails
  <2>1. /\ Moves({"handle"}, {"check"}) /\ UNCHANGED <<counter, last, worker>>
        /\ stuck' = stuck \cup {delivery.cb}
    BY <1>0, <1>9, DeliveryFacts DEF HandleFails
  <2> SUFFICES ASSUME NEW c \in CallBacks, c <= last PROVE Balanced(c)'
    BY <2>1, <1>q
  <2>2. WorkersAt(c)' = WorkersAt(c) /\ ParentAt(c)' = ParentAt(c)
    BY <2>1 DEF WorkersAt, ParentAt
  <2>3. /\ DeliveryAt(c)' = 0 /\ DeliveryAt(c) = IF c = delivery.cb THEN 1 ELSE 0
        /\ StuckAt(c)' = IF c = delivery.cb THEN 1 ELSE StuckAt(c)
    BY <2>1 DEF StuckAt, DeliveryAt, Owner, Counted, Resized, Moves
  <2>4. Balanced(c)
    BY <1>b
  <2> QED BY <1>t, <1>c, <1>n, <2>1, <2>2, <2>3, <2>4 DEF Balanced
<1>10. ASSUME NEW w \in Workers, WorkerFails(w) PROVE CountInv'
  <2>1. /\ UNCHANGED <<counter, last, delivery>>
        /\ stuck' = stuck \cup {worker[w].cb}
        /\ worker[w].pc = "writing"
    BY <1>10 DEF WorkerFails
  <2>2. /\ \A v \in Workers \ {w} : worker'[v] = worker[v]
        /\ worker'[w].pc = "idle"
    BY <1>t, <1>10 DEF WorkerFails, IdleWorker
  <2> SUFFICES ASSUME NEW c \in CallBacks, c <= last PROVE Balanced(c)'
    BY <2>1, <1>q
  <2>3. /\ ParentAt(c)' = ParentAt(c) /\ DeliveryAt(c)' = DeliveryAt(c)
        /\ StuckAt(c)' = IF c = worker[w].cb THEN 1 ELSE StuckAt(c)
    BY <2>1 DEF ParentAt, StuckAt, DeliveryAt, Owner
  <2>4. Balanced(c)
    BY <1>b
  <2>5. CASE c = worker[w].cb
    <3>1. WorkersAt(c)' = WorkersAt(c) \ {w} /\ w \in WorkersAt(c)
      BY <2>1, <2>2, <2>5 DEF WorkersAt
    <3>2. Cardinality(WorkersAt(c)') = Cardinality(WorkersAt(c)) - 1
      BY <1>0, <3>1, WorkersAtLeave
    <3> QED BY SMTT(30), <1>t, <1>c, <1>n, <2>1, <2>3, <2>4, <2>5, <3>2 DEF Balanced
  <2>6. CASE c # worker[w].cb
    <3>1. WorkersAt(c)' = WorkersAt(c)
      BY <2>1, <2>2, <2>6 DEF WorkersAt
    <3> QED BY <1>t, <1>c, <1>n, <2>1, <2>3, <2>4, <2>6, <3>1 DEF Balanced
  <2> QED BY <2>5, <2>6
<1>11. ASSUME NEW w \in Workers, NEW d \in CallBacks, d <= last, Completes(w, d)
       PROVE  CountInv'
  <2>1. /\ w \in WorkersAt(d) /\ UNCHANGED <<last, delivery, stuck>>
        /\ counter' = [counter EXCEPT ![d] = @ - 1]
        /\ \A v \in Workers \ {w} : worker'[v] = worker[v]
    BY <1>11 DEF Completes
  <2>2. /\ counter[d] \in Nat /\ counter[d] >= 1
        /\ IsLastOut(d) => d < last /\ d + 1 \in CallBacks
    BY <1>11, <2>1, LastOutFacts
  <2> SUFFICES ASSUME NEW c \in CallBacks, c <= last PROVE Balanced(c)'
    BY <2>1, <1>q
  <2>3. DeliveryAt(c)' = DeliveryAt(c) /\ StuckAt(c)' = StuckAt(c)
    BY <2>1 DEF StuckAt, DeliveryAt, Owner
  <2>4. Balanced(c)
    BY <1>b
  <2>5. CASE c = d
    <3>1. ParentAt(c)' = ParentAt(c) /\ counter'[c] = counter[c] - 1
      BY <1>t, <2>1, <2>5 DEF ParentAt
    <3>2. WorkersAt(c)' = WorkersAt(c) \ {w}
      BY <1>11, <2>1, <2>5 DEF WorkersAt, Completes
    <3>3. Cardinality(WorkersAt(c)') = Cardinality(WorkersAt(c)) - 1
      BY <1>0, <2>1, <2>5, <3>2, WorkersAtLeave
    <3>4. counter[c] \in Nat
      BY <1>t
    <3> QED BY <1>c, <1>n, <2>3, <2>4, <3>1, <3>3, <3>4 DEF Balanced
  <2>6. CASE c = d + 1
    <3>1. w \notin WorkersAt(c) /\ counter'[c] = counter[c]
      BY <1>t, <2>1, <2>6 DEF WorkersAt
    <3>2. CASE IsLastOut(d)
      <4>1. counter[d] = 1 /\ worker'[w].pc = "calling" /\ worker'[w].cur = c
        BY <1>11, <2>6, <3>2 DEF Completes, IsLastOut
      <4>2. ParentAt(c) = 1 /\ ParentAt(c)' = 0
        BY <1>t, <2>1, <2>6, <4>1 DEF ParentAt
      <4>3. WorkersAt(c)' = WorkersAt(c) \cup {w}
        BY <2>1, <4>1 DEF WorkersAt
      <4>4. Cardinality(WorkersAt(c)') = Cardinality(WorkersAt(c)) + 1
        BY <1>0, <3>1, <4>3, WorkersAtJoin
      <4> QED BY <1>t, <1>c, <1>n, <2>3, <2>4, <3>1, <4>2, <4>4 DEF Balanced
    <3>3. CASE ~IsLastOut(d)
      <4>1. WorkersAt(c)' = WorkersAt(c)
        BY <1>11, <2>1, <3>1, <3>3 DEF WorkersAt, Completes
      <4>2. ParentAt(c) = 1 /\ ParentAt(c)' \in {0, 1}
        BY <1>t, <2>2, <2>6 DEF ParentAt
      <4> QED BY <1>t, <1>c, <1>n, <2>3, <2>4, <3>1, <4>1, <4>2 DEF Balanced
    <3> QED BY <3>2, <3>3
  <2>7. CASE c # d /\ c # d + 1
    <3>1. counter'[c] = counter[c] /\ ParentAt(c)' = ParentAt(c)
      BY <1>t, <2>1, <2>7 DEF ParentAt
    <3>2. WorkersAt(c)' = WorkersAt(c)
      BY <1>11, <2>1, <2>7 DEF WorkersAt, Completes
    <3> QED BY <2>3, <2>4, <3>1, <3>2 DEF Balanced
  <2> QED BY <2>5, <2>6, <2>7
<1>12. CASE Restart
  <2>1. /\ last' = 1 /\ delivery'.pc = "check" /\ stuck' = {}
        /\ \A c \in CallBacks : counter'[c] = 0
        /\ \A w \in Workers : worker'[w].pc = "idle"
    BY <1>12 DEF Restart, NewProcess, IdleDelivery, IdleWorker
  <2> SUFFICES ASSUME NEW c \in CallBacks, c <= 1 PROVE Balanced(c)'
    BY <2>1, <1>q
  <2>2. WorkersAt(c)' = {} /\ DeliveryAt(c)' = 0 /\ StuckAt(c)' = 0
    BY <2>1 DEF WorkersAt, DeliveryAt, StuckAt, Counted, Resized
  <2>3. ParentAt(c)' = 0
    BY DEF ParentAt
  <2>4. Cardinality(WorkersAt(c)') = 0
    BY <2>2, FS_EmptySet
  <2> QED BY <2>1, <2>2, <2>3, <2>4 DEF Balanced
<1> QED
  BY <1>2, <1>3, <1>4, <1>5, <1>6, <1>7, <1>8, <1>9, <1>10, <1>11, <1>12, CompleteFacts
  DEF Next, Deliver, Work, Take

(* The parent of a callback that is not the first is a callback.           *)
LEMMA ParentInRange ==
    ASSUME NEW b \in CallBacks, NEW c \in CallBacks, b < c
    PROVE  /\ c > 1 /\ c - 1 \in CallBacks /\ b <= c - 1
           /\ \A d \in CallBacks : c <= d => c - 1 < d
BY BoundsAssumption

(* Callbacks run out from the oldest to the newest, and a worker inside    *)
(* complete() is where every older one has run out.                        *)
LEMMA OrderStep == IInv /\ Next => OrderInv' /\ WorkerInv'
<1> SUFFICES ASSUME IInv, Next PROVE OrderInv' /\ WorkerInv'
  OBVIOUS
<1> USE DEF queueVars, sizeVars, callBackVars
<1>0. TypeOK /\ OrderInv /\ WorkerInv /\ CallBackInv /\ delivery \in DeliveryType
  BY DEF IInv, TypeOK
<1>t. /\ last \in CallBacks /\ counter \in [CallBacks -> Nat]
      /\ worker \in [Workers -> WorkerType]
  BY <1>0 DEF TypeOK
<1>p. \A v \in Workers : worker[v].pc = "calling" =>
        worker[v].cur - 1 \in CallBacks /\ worker[v].cur - 1 < last /\ counter[worker[v].cur - 1] = 0
  <2> SUFFICES ASSUME NEW v \in Workers, worker[v].pc = "calling"
               PROVE  worker[v].cur - 1 \in CallBacks /\ worker[v].cur - 1 < last
                      /\ counter[worker[v].cur - 1] = 0
    OBVIOUS
  <2>1. /\ worker[v].cb \in CallBacks /\ worker[v].cur \in CallBacks
        /\ worker[v].cb < worker[v].cur /\ worker[v].cur <= last
        /\ counter[worker[v].cur - 1] = 0
    BY <1>0 DEF WorkerInv
  <2> QED BY <1>t, <2>1, ParentInRange
<1>1. ASSUME UNCHANGED <<counter, last, worker>> PROVE OrderInv' /\ WorkerInv'
  BY <1>0, <1>1 DEF OrderInv, WorkerInv
<1>2. CASE \/ Put \/ Poll \/ Shutdown \/ \E w \in Workers : ReduceRead(w) \/ ReduceWrite(w)
           \/ Take \/ StartGet \/ ReadFails \/ EndGet
           \/ KeepCallBack \/ SetFinalized \/ TestFull \/ TestLimit \/ ReadSize \/ WriteSize \/ HandleFails
  <2>1. UNCHANGED <<counter, last, worker>>
    BY <1>2 DEF Put, Poll, vars, ReduceWrite, Shutdown, ReduceRead, Take, TakeFromMemory,
                TakeFromFile, TakeUnreadable, Advance, StartGet, ReadFails, EndGet,
                KeepCallBack, SetFinalized, TestFull, TestLimit, ReadSize, WriteSize, GoesOn, HandleFails
  <2> QED BY <1>1, <2>1
<1>3. CASE CountBatch
  <2>1. counter' = [counter EXCEPT ![last] = @ + 1] /\ UNCHANGED <<last, worker>>
    BY <1>3 DEF CountBatch
  <2>2. \A c \in CallBacks : c < last => counter'[c] = counter[c]
    BY <1>t, <2>1
  <2>3. counter'[last] # 0
    BY <1>t, <2>1
  <2>4. OrderInv'
    BY <1>0, <1>t, <2>1, <2>2, <2>3 DEF OrderInv
  <2>5. WorkerInv'
    <3> SUFFICES ASSUME NEW w \in Workers
                 PROVE  /\ worker[w].pc = "calling" => counter'[worker[w].cur - 1] = 0
                        /\ worker[w].pc = "removing" => counter'[worker[w].cur] = 0
      BY <1>0, <2>1 DEF WorkerInv
    <3>1. CASE worker[w].pc = "calling"
      <4>1. worker[w].cur - 1 \in CallBacks /\ worker[w].cur - 1 < last /\ counter[worker[w].cur - 1] = 0
        BY <1>p, <1>t, <3>1
      <4> QED BY <2>2, <3>1, <4>1
    <3>2. CASE worker[w].pc = "removing"
      <4>1. worker[w].cur \in CallBacks /\ worker[w].cur < last /\ counter[worker[w].cur] = 0
        BY <1>0, <1>t, <3>2 DEF WorkerInv
      <4> QED BY <2>2, <3>2, <4>1
    <3> QED BY <3>1, <3>2
  <2> QED BY <2>4, <2>5
<1>4. CASE SetChildCallBack
  <2>1. /\ delivery.pc = "child" /\ last' = last + 1 /\ UNCHANGED worker
        /\ counter' = [counter EXCEPT ![last + 1] = @ + 1]
    BY <1>4 DEF SetChildCallBack
  <2>2. last + 1 \in CallBacks
    BY <1>0, <1>t, <2>1, BoundsAssumption DEF CallBackInv
  <2>3. \A c \in CallBacks : c <= last => counter'[c] = counter[c]
    BY <1>t, <2>1
  <2>4. counter'[last + 1] # 0
    BY <1>t, <2>1, <2>2
  <2>5. OrderInv'
    BY <1>0, <1>t, <2>1, <2>3, <2>4 DEF OrderInv
  <2>6. WorkerInv'
    <3> SUFFICES ASSUME NEW w \in Workers
                 PROVE  /\ worker[w].pc = "writing" => worker[w].cb \in CallBacks /\ worker[w].cb <= last + 1
                        /\ worker[w].pc = "calling" =>
                             /\ worker[w].cb \in CallBacks /\ worker[w].cur \in CallBacks
                             /\ worker[w].cb < worker[w].cur /\ worker[w].cur <= last + 1
                             /\ counter'[worker[w].cur - 1] = 0
                        /\ worker[w].pc = "removing" =>
                             /\ worker[w].cb \in CallBacks /\ worker[w].cur \in CallBacks
                             /\ worker[w].cb <= worker[w].cur /\ worker[w].cur < last + 1
                             /\ counter'[worker[w].cur] = 0
      BY <2>1 DEF WorkerInv
    <3>1. CASE worker[w].pc = "writing"
      BY <1>0, <1>t, <3>1 DEF WorkerInv
    <3>2. CASE worker[w].pc = "calling"
      <4>1. worker[w].cur - 1 \in CallBacks /\ worker[w].cur - 1 <= last /\ counter[worker[w].cur - 1] = 0
        BY <1>p, <1>t, <3>2
      <4> QED BY <1>0, <1>t, <2>3, <3>2, <4>1 DEF WorkerInv
    <3>3. CASE worker[w].pc = "removing"
      BY <1>0, <1>t, <2>3, <3>3 DEF WorkerInv
    <3> QED BY <3>1, <3>2, <3>3
  <2> QED BY <2>5, <2>6
<1>5. ASSUME NEW w \in Workers, HandleEvents(w) PROVE OrderInv' /\ WorkerInv'
  <2>1. /\ UNCHANGED <<counter, last>> /\ delivery.cb \in CallBacks /\ delivery.cb <= last
    BY <1>0, <1>5 DEF HandleEvents, CallBackInv, Resized
  <2>2. /\ \A v \in Workers \ {w} : worker'[v] = worker[v]
        /\ worker'[w].pc = "writing" /\ worker'[w].cb = delivery.cb
    BY <1>t, <1>5 DEF HandleEvents
  <2> QED BY <1>0, <2>1, <2>2 DEF OrderInv, WorkerInv
<1>6. ASSUME NEW w \in Workers, WorkerFails(w) \/ RemoveThrows(w) PROVE OrderInv' /\ WorkerInv'
  <2>1. UNCHANGED <<counter, last>>
    BY <1>6 DEF WorkerFails, RemoveThrows
  <2>2. /\ \A v \in Workers \ {w} : worker'[v] = worker[v]
        /\ worker'[w].pc = "idle"
    BY <1>t, <1>6 DEF WorkerFails, RemoveThrows, IdleWorker
  <2> QED BY <1>0, <2>1, <2>2 DEF OrderInv, WorkerInv
<1>7. ASSUME NEW w \in Workers, RemoveBeforeIndex(w) \/ RemoveFails(w) PROVE OrderInv' /\ WorkerInv'
  <2>1. UNCHANGED <<counter, last>> /\ worker[w].pc = "removing" /\ Return(w)
    BY <1>7 DEF RemoveBeforeIndex, RemoveFails
  <2>2. \A v \in Workers \ {w} : worker'[v] = worker[v]
    BY <1>t, <2>1 DEF Return
  <2>3. /\ worker[w].cb \in CallBacks /\ worker[w].cur \in CallBacks
        /\ worker[w].cb <= worker[w].cur /\ worker[w].cur < last
        /\ counter[worker[w].cur] = 0
    BY <1>0, <2>1 DEF WorkerInv
  <2>4. CASE worker[w].cur = worker[w].cb
    <3>1. worker'[w].pc = "idle"
      BY <1>t, <2>1, <2>4 DEF Return, IdleWorker
    <3> QED BY <1>0, <2>1, <2>2, <3>1 DEF OrderInv, WorkerInv
  <2>5. CASE worker[w].cur # worker[w].cb
    <3>1. /\ worker'[w].pc = "removing" /\ worker'[w].cb = worker[w].cb
          /\ worker'[w].cur = worker[w].cur - 1
      BY <1>t, <2>1, <2>5 DEF Return, WorkerType
    <3>2. worker[w].cur - 1 \in CallBacks /\ worker[w].cb <= worker[w].cur - 1 /\ worker[w].cur - 1 < last
      <4>1. worker[w].cb < worker[w].cur
        BY <2>3, <2>5
      <4> QED BY <1>t, <2>3, <4>1, ParentInRange
    <3>3. counter[worker[w].cur - 1] = 0
      BY <1>0, <1>t, <2>3, <3>2 DEF OrderInv
    <3>4. OrderInv'
      BY <1>0, <2>1 DEF OrderInv
    <3>5. WorkerInv'
      BY <1>0, <2>1, <2>2, <2>3, <3>1, <3>2, <3>3 DEF WorkerInv
    <3> QED BY <3>4, <3>5
  <2> QED BY <2>4, <2>5
<1>8. ASSUME NEW w \in Workers, NEW d \in CallBacks, d <= last, Completes(w, d)
      PROVE  /\ OrderInv'
             /\ \A c \in CallBacks : (c < last /\ counter[c] = 0) => counter'[c] = 0
             /\ counter'[d] = 0 => counter[d] = 1
             /\ \A c \in CallBacks : c < d /\ counter'[d] = 0 => counter'[c] = 0
  <2>1. /\ w \in WorkersAt(d) /\ UNCHANGED last
        /\ counter' = [counter EXCEPT ![d] = @ - 1]
    BY <1>8 DEF Completes
  <2>2. /\ counter[d] \in Nat /\ counter[d] >= 1
        /\ counter[d] = 1 => ParentAt(d) = 0
    BY <1>8, <2>1, LastOutFacts
  <2>3. counter'[d] = counter[d] - 1 /\ \A c \in CallBacks : c # d => counter'[c] = counter[c]
    BY <1>t, <2>1
  <2>4. ASSUME NEW c \in CallBacks, c < d, counter[d] = 1 PROVE counter[c] = 0
    <3>1. d > 1 /\ d - 1 \in CallBacks
      BY <2>4, ParentInRange
    <3>2. counter[d - 1] = 0
      BY <1>t, <2>2, <2>4, <3>1 DEF ParentAt
    <3>3. c = d - 1 \/ c < d - 1
      BY <2>4
    <3>4. d - 1 <= last
      BY <1>8, <1>t, <3>1
    <3> QED BY <1>0, <3>1, <3>2, <3>3, <3>4 DEF OrderInv
  <2>5. \A c \in CallBacks : c < d /\ counter'[d] = 0 => counter'[c] = 0
    BY <2>2, <2>3, <2>4
  <2>6. OrderInv'
    <3> SUFFICES ASSUME NEW c \in CallBacks, NEW e \in CallBacks, c < e, e <= last, counter'[e] = 0
                 PROVE  counter'[c] = 0
      BY <2>1 DEF OrderInv
    <3>1. CASE e = d
      BY <2>5, <3>1
    <3>2. CASE e # d
      <4>1. counter[e] = 0
        BY <2>3, <3>2
      <4>2. counter[c] = 0
        BY <1>0, <4>1 DEF OrderInv
      <4>3. c # d
        BY <2>2, <4>2
      <4> QED BY <2>3, <4>2, <4>3
    <3> QED BY <3>1, <3>2
  <2> QED BY <2>2, <2>3, <2>5, <2>6
<1>9. ASSUME NEW w \in Workers, Complete(w) PROVE OrderInv' /\ WorkerInv'
  <2>1. Completes(w, worker[w].cb) /\ worker[w].cb \in CallBacks /\ worker[w].cb <= last
    BY <1>9, CompleteFacts
  <2>2. /\ OrderInv' /\ UNCHANGED last /\ \A v \in Workers \ {w} : worker'[v] = worker[v]
        /\ \A c \in CallBacks : (c < last /\ counter[c] = 0) => counter'[c] = 0
    BY <1>8, <2>1 DEF Completes
  <2>3. CASE IsLastOut(worker[w].cb)
    <3>1. worker'[w].pc = "calling" /\ worker'[w].cb = worker[w].cb /\ worker'[w].cur = worker[w].cb + 1
      BY <1>t, <1>9, <2>3 DEF Complete
    <3>2. worker[w].cb < last /\ worker[w].cb + 1 \in CallBacks
      BY <2>1, <2>3, LastOutFacts DEF Completes
    <3>3. counter'[worker[w].cb + 1 - 1] = 0
      BY <1>t, <2>1, <2>3 DEF Completes, IsLastOut
    <3>4. \A v \in Workers \ {w} : worker[v].pc = "calling" => counter'[worker[v].cur - 1] = 0
      BY <1>0, <1>p, <2>2
    <3>5. \A v \in Workers \ {w} : worker[v].pc = "removing" => counter'[worker[v].cur] = 0
      BY <1>0, <1>t, <2>2 DEF WorkerInv
    <3> QED BY SMTT(30), <1>0, <1>t, <2>1, <2>2, <3>1, <3>2, <3>3, <3>4, <3>5 DEF WorkerInv
  <2>4. CASE ~IsLastOut(worker[w].cb)
    <3>1. worker'[w].pc = "idle"
      BY <1>t, <1>9, <2>4 DEF Complete, IdleWorker
    <3>4. \A v \in Workers \ {w} : worker[v].pc = "calling" => counter'[worker[v].cur - 1] = 0
      BY <1>0, <1>p, <2>2
    <3>5. \A v \in Workers \ {w} : worker[v].pc = "removing" => counter'[worker[v].cur] = 0
      BY <1>0, <1>t, <2>2 DEF WorkerInv
    <3> QED BY <1>0, <2>2, <3>1, <3>4, <3>5 DEF WorkerInv
  <2> QED BY <2>3, <2>4
<1>10. ASSUME NEW w \in Workers, CompleteChild(w) PROVE OrderInv' /\ WorkerInv'
  <2>1. Completes(w, worker[w].cur) /\ worker[w].cur \in CallBacks /\ worker[w].cur <= last
    BY <1>10, CompleteFacts
  <2>2. /\ OrderInv' /\ UNCHANGED last /\ \A v \in Workers \ {w} : worker'[v] = worker[v]
        /\ \A c \in CallBacks : (c < last /\ counter[c] = 0) => counter'[c] = 0
    BY <1>8, <2>1 DEF Completes
  <2>3. /\ worker[w].pc = "calling" /\ worker[w].cb \in CallBacks
        /\ worker[w].cb < worker[w].cur /\ counter[worker[w].cur - 1] = 0
        /\ worker[w].cur - 1 \in CallBacks /\ worker[w].cur - 1 < last
    <3>1. /\ worker[w].pc = "calling" /\ worker[w].cb \in CallBacks
          /\ worker[w].cb < worker[w].cur /\ counter[worker[w].cur - 1] = 0
      BY <1>0, <1>10 DEF WorkerInv, CompleteChild
    <3> QED BY <1>t, <2>1, <3>1, ParentInRange
  <2>4. \A v \in Workers \ {w} : worker[v].pc = "calling" => counter'[worker[v].cur - 1] = 0
    BY <1>0, <1>p, <2>2
  <2>5. \A v \in Workers \ {w} : worker[v].pc = "removing" => counter'[worker[v].cur] = 0
    BY <1>0, <1>t, <2>2 DEF WorkerInv
  <2>6. CASE IsLastOut(worker[w].cur)
    <3>1. worker'[w].pc = "calling" /\ worker'[w].cb = worker[w].cb /\ worker'[w].cur = worker[w].cur + 1
      BY <1>t, <1>10, <2>3, <2>6 DEF CompleteChild, WorkerType
    <3>2. worker[w].cur < last /\ worker[w].cur + 1 \in CallBacks
      BY <2>1, <2>6, LastOutFacts DEF Completes
    <3>3. counter'[worker[w].cur + 1 - 1] = 0
      BY <1>t, <2>1, <2>6 DEF Completes, IsLastOut
    <3>4. worker[w].cb < worker[w].cur + 1 /\ worker[w].cur + 1 <= last
      BY <1>t, <2>1, <2>3, <3>2
    <3> QED BY <1>0, <2>2, <2>3, <2>4, <2>5, <3>1, <3>2, <3>3, <3>4 DEF WorkerInv
  <2>7. CASE ~IsLastOut(worker[w].cur)
    <3>1. worker'[w].pc = "removing" /\ worker'[w].cb = worker[w].cb /\ worker'[w].cur = worker[w].cur - 1
      BY <1>t, <1>10, <2>7 DEF CompleteChild, WorkerType
    <3>2. counter'[worker[w].cur - 1] = 0 /\ worker[w].cb <= worker[w].cur - 1
      BY <2>1, <2>2, <2>3
    <3> QED BY <1>0, <2>2, <2>3, <2>4, <2>5, <3>1, <3>2 DEF WorkerInv
  <2> QED BY <2>6, <2>7
<1>11. CASE Restart
  <2>1. last' = 1 /\ \A w \in Workers : worker'[w].pc = "idle"
    BY <1>11 DEF Restart, NewProcess, IdleWorker
  <2> QED BY <2>1 DEF OrderInv, WorkerInv
<1> QED
  BY <1>2, <1>3, <1>4, <1>5, <1>6, <1>7, <1>9, <1>10, <1>11
  DEF Next, Deliver, Work, Take

(* Who holds an event once it has been taken and before it is settled.     *)
WorkerHolds(w, i) == /\ worker[w].pc = "writing"
                     /\ i \in Elements(worker[w].events)
                     /\ start[worker[w].cb] <= i

(* The three ways an event is held.                                        *)
LEMMA HeldCases ==
    ASSUME NEW i
    PROVE  Held(i) <=> \/ i \in Elements(delivery.ret) /\ start[Owner] <= i
                       \/ \E w \in Workers : WorkerHolds(w, i)
                       \/ \E c \in stuck : start[c] <= i
BY DEF Held, WorkerHolds

(* Every taken event stays held until it is settled.                       *)
LEMMA CoverStep == IInv /\ Next => CoverInv'
<1> SUFFICES ASSUME IInv, Next, NEW i \in Nat, i < nextIndex', i \notin settled'
             PROVE  Held(i)'
  BY DEF CoverInv
<1> USE DEF queueVars, sizeVars, callBackVars
<1>0. /\ TypeOK /\ CoverInv /\ CallBackInv /\ WorkerInv /\ HoldInv /\ CheckpointSafe
      /\ delivery \in DeliveryType
  BY DEF IInv, TypeOK
<1>t. /\ last \in CallBacks /\ nextIndex \in Nat /\ start \in [CallBacks -> Nat]
      /\ worker \in [Workers -> WorkerType]
  BY <1>0 DEF TypeOK
<1>o. Owner \in CallBacks /\ Owner <= last
  BY <1>0, <1>t DEF Owner, CallBackInv
<1>h. (i < nextIndex /\ i \notin settled) => Held(i)
  BY <1>0 DEF CoverInv
<1>1. ASSUME Held(i), UNCHANGED <<worker, stuck>>, delivery'.ret = delivery.ret, Owner' = Owner,
             \A c \in CallBacks : c <= last => start'[c] = start[c]
      PROVE  Held(i)'
  <2>1. \A w \in Workers : WorkerHolds(w, i) => WorkerHolds(w, i)'
    BY <1>0, <1>1 DEF WorkerHolds, WorkerInv
  <2>2. \A c \in stuck : c \in CallBacks /\ c <= last
    BY <1>0 DEF CallBackInv, TypeOK
  <2> QED BY <1>1, <1>o, <2>1, <2>2, HeldCases DEF Held, WorkerHolds
<1>2. CASE \/ Put \/ Poll \/ Shutdown \/ \E w \in Workers : ReduceRead(w) \/ ReduceWrite(w)
  <2>1. UNCHANGED <<delivery, worker, stuck, start, last, settled, nextIndex>>
    BY <1>2 DEF Put, Poll, vars, ReduceWrite, Shutdown, ReduceRead
  <2> QED BY <1>1, <1>h, <2>1 DEF Owner
<1>3. CASE ReadFails \/ EndGet \/ CountBatch \/ KeepCallBack \/ SetFinalized \/ TestFull \/ TestLimit \/ ReadSize \/ WriteSize
  <2>1. /\ UNCHANGED <<worker, stuck, start, last, settled, nextIndex>>
        /\ delivery'.ret = delivery.ret
    BY <1>0, <1>3, DeliveryFacts
    DEF ReadFails, EndGet, CountBatch, KeepCallBack, SetFinalized, TestFull, TestLimit, ReadSize, WriteSize, GoesOn, Keeps
  <2>2. Owner' = Owner
    BY <1>0, <1>3, <2>1, DeliveryFacts DEF Owner, Moves, Resized
  <2> QED BY <1>1, <1>h, <2>1, <2>2
<1>4. CASE SetChildCallBack
  <2>1. /\ UNCHANGED <<worker, stuck, settled, nextIndex>>
        /\ Moves({"child"}, {"full"}) /\ Keeps /\ delivery'.cb = delivery.cb
        /\ start' = [start EXCEPT ![last + 1] = nextIndex]
    BY <1>0, <1>4, DeliveryFacts DEF SetChildCallBack
  <2>2. Owner' = Owner
    BY <1>0, <2>1 DEF Owner, Moves, Resized, CallBackInv
  <2>3. \A c \in CallBacks : c <= last => start'[c] = start[c]
    BY <1>t, <2>1
  <2> QED BY <1>1, <1>h, <2>1, <2>2, <2>3 DEF Keeps
<1>5. CASE StartGet
  <2>1. UNCHANGED <<worker, stuck, start, settled, nextIndex>> /\ delivery.ret = <<>>
    BY <1>0, <1>5 DEF StartGet, HoldInv
  <2>2. i \notin Elements(delivery.ret)
    BY <2>1 DEF Elements
  <2> QED BY <1>h, <2>1, <2>2 DEF Held
<1>6. CASE Take
  <2>1. /\ Moves({"loop"}, {"loop"}) /\ nextIndex' = nextIndex + 1
        /\ UNCHANGED <<callBackVars, worker, stuck>>
        /\ \/ settled' = settled /\ Elements(delivery'.ret) = Elements(delivery.ret) \cup {nextIndex}
           \/ settled' = settled \cup {nextIndex} /\ delivery'.ret = delivery.ret
    BY <1>6, TakeFacts
  <2>2. Owner = last /\ Owner' = last
    BY <2>1 DEF Owner, Moves, Resized
  <2>3. CASE i = nextIndex
    <3>1. i \in Elements(delivery'.ret)
      BY <2>1, <2>3
    <3>2. start[last] <= nextIndex
      BY <1>0, <1>t DEF CallBackInv
    <3> QED BY <2>1, <2>2, <2>3, <3>1, <3>2 DEF Held
  <2>4. CASE i # nextIndex
    <3>1. Held(i)
      BY <1>h, <1>t, <2>1, <2>4
    <3>2. i \in Elements(delivery.ret) => i \in Elements(delivery'.ret)
      BY <2>1
    <3> QED BY <2>1, <2>2, <3>1, <3>2 DEF Held
  <2> QED BY <2>3, <2>4
<1>7. ASSUME NEW w \in Workers, HandleEvents(w) PROVE Held(i)'
  <2>1. /\ UNCHANGED <<stuck, start, last, settled, nextIndex>>
        /\ worker[w].pc = "idle" /\ delivery.pc = "handle"
    BY <1>7 DEF HandleEvents
  <2>2. /\ \A v \in Workers \ {w} : worker'[v] = worker[v]
        /\ worker'[w].pc = "writing" /\ worker'[w].cb = delivery.cb /\ worker'[w].events = delivery.ret
    BY <1>t, <1>7 DEF HandleEvents
  <2>3. Owner = delivery.cb
    BY <2>1 DEF Owner, Resized
  <2>4. Held(i)
    BY <1>h, <2>1
  <2>5. (i \in Elements(delivery.ret) /\ start[Owner] <= i) => WorkerHolds(w, i)'
    BY <2>1, <2>2, <2>3 DEF WorkerHolds
  <2>6. \A v \in Workers : WorkerHolds(v, i) => WorkerHolds(v, i)'
    BY <2>1, <2>2 DEF WorkerHolds
  <2> QED BY <2>1, <2>4, <2>5, <2>6, HeldCases DEF Held, WorkerHolds
<1>8. CASE HandleFails
  <2>1. /\ UNCHANGED <<worker, start, last, settled, nextIndex>>
        /\ stuck' = stuck \cup {delivery.cb} /\ delivery.pc = "handle"
    BY <1>8 DEF HandleFails
  <2>2. Owner = delivery.cb
    BY <2>1 DEF Owner, Resized
  <2> QED BY <1>h, <2>1, <2>2 DEF Held
<1>9. ASSUME NEW w \in Workers, Complete(w) PROVE Held(i)'
  <2>1. /\ UNCHANGED <<delivery, stuck, start, last, nextIndex>>
        /\ settled' = settled \cup Elements(worker[w].events)
        /\ \A v \in Workers \ {w} : worker'[v] = worker[v]
    BY <1>t, <1>9 DEF Complete
  <2>2. Held(i) /\ ~WorkerHolds(w, i) /\ Owner' = Owner
    BY <1>h, <2>1 DEF WorkerHolds, Owner
  <2>3. \A v \in Workers : WorkerHolds(v, i) => WorkerHolds(v, i)'
    BY <2>1, <2>2 DEF WorkerHolds
  <2> QED BY <2>1, <2>2, <2>3, HeldCases DEF Held, WorkerHolds
<1>10. ASSUME NEW w \in Workers,
              CompleteChild(w) \/ RemoveBeforeIndex(w) \/ RemoveThrows(w) \/ RemoveFails(w)
       PROVE  Held(i)'
  <2>1. /\ UNCHANGED <<delivery, stuck, start, last, nextIndex, settled>>
        /\ worker[w].pc # "writing"
    BY <1>10 DEF CompleteChild, RemoveBeforeIndex, RemoveThrows, RemoveFails
  <2>2. \A v \in Workers \ {w} : worker'[v] = worker[v]
    BY <1>t, <1>10 DEF CompleteChild, RemoveBeforeIndex, RemoveThrows, RemoveFails, Return
  <2>3. \A v \in Workers : WorkerHolds(v, i) => WorkerHolds(v, i)'
    BY <2>1, <2>2 DEF WorkerHolds
  <2>4. Held(i) /\ Owner' = Owner
    BY <1>h, <2>1 DEF Owner
  <2> QED BY <2>1, <2>3, <2>4, HeldCases DEF Held, WorkerHolds
<1>11. ASSUME NEW w \in Workers, WorkerFails(w) PROVE Held(i)'
  <2>1. /\ UNCHANGED <<delivery, start, last, nextIndex, settled>>
        /\ stuck' = stuck \cup {worker[w].cb}
        /\ \A v \in Workers \ {w} : worker'[v] = worker[v]
    BY <1>t, <1>11 DEF WorkerFails
  <2>2. Held(i) /\ Owner' = Owner
    BY <1>h, <2>1 DEF Owner
  <2>3. CASE WorkerHolds(w, i)
    BY <2>1, <2>3 DEF Held, WorkerHolds
  <2>4. CASE ~WorkerHolds(w, i)
    <3>1. \A v \in Workers : WorkerHolds(v, i) => WorkerHolds(v, i)'
      BY <2>1, <2>4 DEF WorkerHolds
    <3> QED BY <2>1, <2>2, <3>1, HeldCases DEF Held, WorkerHolds
  <2> QED BY <2>3, <2>4
<1>12. CASE Restart
  <2>1. nextIndex' = tail /\ settled' = settled /\ tail \in Nat
    BY <1>0, <1>12 DEF Restart, NewProcess, TypeOK
  <2> QED BY <1>0, <2>1 DEF CheckpointSafe
<1> QED
  BY <1>2, <1>3, <1>4, <1>5, <1>6, <1>7, <1>8, <1>9, <1>10, <1>11, <1>12
  DEF Next, Deliver, Work, Take

(* No event in two places.                                                 *)
LEMMA HoldStep == IInv /\ Next => HoldInv'
<1> SUFFICES ASSUME IInv, Next PROVE HoldInv'
  OBVIOUS
<1> USE DEF queueVars, sizeVars, callBackVars
<1>0. TypeOK /\ HoldInv /\ delivery \in DeliveryType
  BY DEF IInv, TypeOK
<1>t. /\ nextIndex \in Nat /\ worker \in [Workers -> WorkerType]
      /\ Elements(<<>>) = {} /\ Elements(delivery.ret) \subseteq Nat
      /\ \A w \in Workers : Elements(worker[w].events) \subseteq Nat
  <2>1. /\ nextIndex \in Nat /\ worker \in [Workers -> WorkerType]
        /\ delivery.ret \in Seq(Nat) /\ \A w \in Workers : worker[w].events \in Seq(Nat)
    BY <1>0 DEF TypeOK, DeliveryType, WorkerType
  <2>2. Elements(<<>>) = {}
    BY DEF Elements
  <2> QED BY <2>1, <2>2, ElementsNat
<1>1. CASE \/ Put \/ Poll \/ Shutdown \/ \E w \in Workers : ReduceRead(w) \/ ReduceWrite(w)
  <2>1. UNCHANGED <<delivery, worker, nextIndex>>
    BY <1>1 DEF Put, Poll, vars, ReduceWrite, Shutdown, ReduceRead
  <2> QED BY <1>0, <2>1 DEF HoldInv, AtMostOncePerRun
<1>2. CASE \/ ReadFails \/ EndGet \/ CountBatch \/ KeepCallBack \/ SetFinalized
           \/ SetChildCallBack \/ TestFull \/ TestLimit \/ ReadSize \/ WriteSize
  <2>1. /\ UNCHANGED <<worker, nextIndex>> /\ delivery'.ret = delivery.ret
        /\ delivery'.pc # "check"
    BY <1>0, <1>2, DeliveryFacts
    DEF ReadFails, EndGet, CountBatch, KeepCallBack, SetFinalized, SetChildCallBack,
        TestFull, TestLimit, ReadSize, WriteSize, GoesOn, Keeps, Moves
  <2> QED BY <1>0, <2>1 DEF HoldInv, AtMostOncePerRun
<1>3. CASE StartGet \/ HandleFails
  <2>1. UNCHANGED <<worker, nextIndex>> /\ delivery'.ret = <<>>
    BY <1>0, <1>3, DeliveryFacts DEF StartGet, HandleFails
  <2> QED BY <1>0, <1>t, <2>1 DEF HoldInv, AtMostOncePerRun
<1>4. CASE Take
  <2>1. /\ Moves({"loop"}, {"loop"}) /\ nextIndex' = nextIndex + 1 /\ UNCHANGED worker
        /\ Elements(delivery'.ret) \subseteq Elements(delivery.ret) \cup {nextIndex}
    BY <1>4, TakeFacts
  <2>2. ASSUME NEW w \in Workers, NEW i \in Elements(worker[w].events)
        PROVE  i < nextIndex /\ i # nextIndex /\ i < nextIndex + 1
    <3>1. i \in Nat
      BY <1>t
    <3>2. i < nextIndex
      BY <1>0 DEF HoldInv, AtMostOncePerRun
    <3> QED BY <1>t, <3>1, <3>2
  <2>3. \A i \in Elements(delivery'.ret) : i < nextIndex + 1
    BY <1>0, <1>t, <2>1 DEF HoldInv
  <2>4. \A w \in Workers : Elements(worker[w].events) \cap Elements(delivery'.ret) = {}
    BY <1>0, <2>1, <2>2 DEF HoldInv, AtMostOncePerRun
  <2> QED BY <1>0, <2>1, <2>2, <2>3, <2>4 DEF HoldInv, AtMostOncePerRun, Moves
<1>5. ASSUME NEW w \in Workers, HandleEvents(w) PROVE HoldInv'
  <2>1. /\ UNCHANGED nextIndex /\ worker[w].pc = "idle" /\ delivery'.ret = <<>>
        /\ \A v \in Workers \ {w} : worker'[v] = worker[v]
        /\ worker'[w].pc = "writing" /\ worker'[w].events = delivery.ret
    BY <1>0, <1>t, <1>5, DeliveryFacts DEF HandleEvents
  <2> QED BY <1>0, <1>t, <2>1 DEF HoldInv, AtMostOncePerRun
<1>6. ASSUME NEW w \in Workers, Work(w), ~ReduceWrite(w) PROVE HoldInv'
  <2>1. /\ UNCHANGED <<delivery, nextIndex>>
        /\ \A v \in Workers \ {w} : worker'[v] = worker[v]
    BY <1>t, <1>6 DEF Work, Complete, CompleteChild, RemoveBeforeIndex, RemoveThrows, RemoveFails,
                   WorkerFails, Return
  <2>2. worker'[w].pc # "writing" /\ worker'[w].events = <<>>
    <3>1. CASE Complete(w) \/ WorkerFails(w) \/ RemoveThrows(w)
      BY <1>t, <3>1 DEF Complete, WorkerFails, RemoveThrows, IdleWorker
    <3>2. CASE CompleteChild(w)
      BY <1>0, <1>t, <3>2 DEF CompleteChild, HoldInv, WorkerType
    <3>3. CASE RemoveBeforeIndex(w) \/ RemoveFails(w)
      <4>1. worker[w].pc = "removing" /\ worker[w].events = <<>> /\ Return(w)
        BY <1>0, <3>3 DEF RemoveBeforeIndex, RemoveFails, HoldInv
      <4>2. worker'[w] = IdleWorker \/ worker'[w] = [worker[w] EXCEPT !.cur = @ - 1]
        BY <1>t, <4>1 DEF Return
      <4> QED BY <1>t, <4>1, <4>2 DEF IdleWorker, WorkerType
    <3> QED BY <1>6, <3>1, <3>2, <3>3 DEF Work
  <2>3. Elements(worker'[w].events) = {}
    BY <1>t, <2>2
  <2>4. \A v \in Workers : Elements(worker'[v].events) \subseteq Elements(worker[v].events)
    BY <2>1, <2>3
  <2>5. \A v \in Workers : worker'[v].pc # "writing" => worker'[v].events = <<>>
    BY <1>0, <2>1, <2>2 DEF HoldInv
  <2>6. AtMostOncePerRun'
    BY <1>0, <2>1, <2>4 DEF HoldInv, AtMostOncePerRun
  <2> QED BY <1>0, <2>1, <2>5, <2>6 DEF HoldInv
<1>7. CASE Restart
  <2>1. delivery'.ret = <<>> /\ \A w \in Workers : worker'[w].events = <<>>
    BY <1>7 DEF Restart, NewProcess, IdleDelivery, IdleWorker
  <2> QED BY <1>t, <2>1 DEF HoldInv, AtMostOncePerRun
<1> QED
  BY <1>1, <1>2, <1>3, <1>4, <1>5, <1>6, <1>7 DEF Next, Deliver, Take

(* The checkpoint: what a finalized callback removes had its last          *)
(* complete() before, so nobody holds it any more.                         *)
LEMMA CheckpointStep == IInv /\ Next => CheckpointSafe'
<1> SUFFICES ASSUME IInv, Next PROVE CheckpointSafe'
  OBVIOUS
<1> USE DEF queueVars, sizeVars, callBackVars
<1>0. /\ TypeOK /\ CoverInv /\ CallBackInv /\ WorkerInv /\ OrderInv /\ CountInv /\ CheckpointSafe
  BY DEF IInv
<1>t. last \in CallBacks /\ counter \in [CallBacks -> Nat] /\ start \in [CallBacks -> Nat]
      /\ nextIndex \in Nat /\ tail \in Nat
  BY <1>0 DEF TypeOK
<1>1. ASSUME NEW w \in Workers, RemoveBeforeIndex(w) PROVE CheckpointSafe'
  <2> DEFINE c == worker[w].cur
  <2>1. /\ c \in CallBacks /\ c < last /\ counter[c] = 0
        /\ tail' = completionIndex[c] /\ settled' = settled
    BY <1>0, <1>1 DEF RemoveBeforeIndex, WorkerInv
  <2>2. /\ c + 1 \in CallBacks /\ c + 1 <= last /\ completionIndex[c] \in Nat
        /\ start[c + 1] \in Nat /\ completionIndex[c] <= start[c + 1]
        /\ completionIndex[c] <= nextIndex
    BY <1>0, <2>1, CompletionBelow
  <2>3. ASSUME NEW i \in Nat, i < completionIndex[c], NEW d \in CallBacks, d <= last, start[d] <= i
        PROVE  d < last /\ counter[d] = 0
    <3>1. d <= c
      <4>1. CASE c + 1 <= d
        <5>1. start[c + 1] <= start[d]
          BY <1>0, <2>2, <2>3, <4>1 DEF CallBackInv
        <5> QED BY SMTT(30), <1>t, <2>2, <2>3, <5>1
      <4> QED BY <2>1, <4>1
    <3>2. c <= last /\ (d = c \/ d < c)
      BY <1>t, <2>1, <3>1
    <3> QED BY <1>0, <1>t, <2>1, <3>1, <3>2 DEF OrderInv
  <2>4. ASSUME NEW i \in Nat, i < completionIndex[c], i \notin settled PROVE FALSE
    <3>1. Held(i)
      BY <1>0, <1>t, <2>2, <2>4 DEF CoverInv
    <3>2. CASE i \in Elements(delivery.ret) /\ start[Owner] <= i
      <4>1. Owner \in CallBacks /\ Owner <= last
        BY <1>0, <1>t DEF Owner, CallBackInv
      <4>2. Owner < last /\ counter[Owner] = 0
        BY <2>3, <2>4, <3>2, <4>1
      <4>3. delivery.pc \in Resized
        BY <1>t, <4>2 DEF Owner
      <4>4. DeliveryAt(Owner) = 1
        BY <4>3 DEF DeliveryAt, Counted
      <4>5. counter[Owner] >= Cardinality(WorkersAt(Owner)) + DeliveryAt(Owner) + ParentAt(Owner) + StuckAt(Owner)
        BY <1>0, <4>1 DEF CountInv
      <4>6. Cardinality(WorkersAt(Owner)) \in Nat
        BY <1>0, <4>1, WorkersAtCounted
      <4>7. ParentAt(Owner) \in {0, 1} /\ StuckAt(Owner) \in {0, 1}
        BY DEF ParentAt, StuckAt
      <4> HIDE DEF c
      <4> QED BY <4>2, <4>4, <4>5, <4>6, <4>7
    <3>3. ASSUME NEW v \in Workers, WorkerHolds(v, i) PROVE FALSE
      <4>1. worker[v].cb \in CallBacks /\ worker[v].cb <= last /\ v \in WorkersAt(worker[v].cb)
        BY <1>0, <3>3 DEF WorkerHolds, WorkerInv, WorkersAt
      <4>2. counter[worker[v].cb] = 0
        BY <2>3, <2>4, <3>3, <4>1 DEF WorkerHolds
      <4>3. counter[worker[v].cb] >= 1
        BY <1>0, <4>1, WorkersAtCounted
      <4> QED BY <4>2, <4>3
    <3>4. ASSUME NEW d \in stuck, start[d] <= i PROVE FALSE
      <4>1. d \in CallBacks /\ d <= last
        BY <1>0 DEF CallBackInv, TypeOK
      <4>2. counter[d] = 0
        BY <2>3, <2>4, <3>4, <4>1
      <4>3. counter[d] >= Cardinality(WorkersAt(d)) + DeliveryAt(d) + ParentAt(d) + StuckAt(d)
        BY <1>0, <4>1 DEF CountInv
      <4>4. Cardinality(WorkersAt(d)) \in Nat
        BY <1>0, <4>1, WorkersAtCounted
      <4>5. ParentAt(d) \in {0, 1} /\ DeliveryAt(d) \in {0, 1} /\ StuckAt(d) = 1
        BY DEF ParentAt, DeliveryAt, StuckAt
      <4> HIDE DEF c
      <4> QED BY <4>2, <4>3, <4>4, <4>5
    <3> QED BY <3>1, <3>2, <3>3, <3>4, HeldCases
  <2>5. \A i \in 0 .. (completionIndex[c] - 1) : i \in Nat /\ i < completionIndex[c]
    BY <2>2
  <2> QED BY <2>1, <2>4, <2>5 DEF CheckpointSafe
<1>2. CASE UNCHANGED tail /\ settled \subseteq settled'
  BY <1>0, <1>2 DEF CheckpointSafe
<1>3. (\E w \in Workers : RemoveBeforeIndex(w)) \/ (UNCHANGED tail /\ settled \subseteq settled')
  <2>1. CASE \/ Put \/ Poll \/ Shutdown \/ Restart
             \/ \E w \in Workers : Work(w) \/ ReduceRead(w)
    BY <2>1 DEF Put, Poll, vars, ReduceWrite, Shutdown, Restart, ReduceRead, Work, Complete,
                CompleteChild, RemoveThrows, RemoveFails, WorkerFails
  <2>2. CASE Deliver
    BY <2>2 DEF Deliver, Poll, vars, StartGet, TakeFromMemory, TakeFromFile, TakeUnreadable, Advance,
                ReadFails, EndGet, CountBatch, KeepCallBack, SetFinalized, SetChildCallBack,
                TestFull, TestLimit, ReadSize, WriteSize, GoesOn, HandleEvents, HandleFails
  <2> QED BY <2>1, <2>2 DEF Next
<1> QED BY <1>1, <1>2, <1>3

-----------------------------------------------------------------------------
(* The invariant, and the properties that follow from it.                  *)

(* The inductive invariant holds in every reachable state.                 *)
THEOREM Invariance == Spec => []IInv
<1>1. IInv /\ [Next]_vars => IInv'
  <2> SUFFICES ASSUME IInv, [Next]_vars PROVE IInv'
    OBVIOUS
  <2>1. CASE Next
    BY <2>1, TypeStep, QueueStep, BatchStep, SizeStep, CallBackStep, CountStep, OrderStep, CoverStep,
       HoldStep, CheckpointStep DEF IInv
  <2>2. CASE UNCHANGED vars
    <3> USE <2>2 DEF vars
    <3>1. TypeOK' /\ QueueInv' /\ BatchInv' /\ SizeInv' /\ CheckpointSafe'
      BY DEF IInv, TypeOK, QueueInv, MemoryQueueInSync, BatchInv, SizeInv, BatchSizeBounded, CheckpointSafe
    <3>2. CallBackInv' /\ OrderInv' /\ WorkerInv'
      BY DEF IInv, CallBackInv, EndOf, OrderInv, WorkerInv
    <3>3. CountInv'
      <4>1. \A c \in CallBacks : /\ WorkersAt(c)' = WorkersAt(c) /\ DeliveryAt(c)' = DeliveryAt(c)
                                 /\ ParentAt(c)' = ParentAt(c) /\ StuckAt(c)' = StuckAt(c)
        BY DEF WorkersAt, DeliveryAt, Owner, ParentAt, StuckAt
      <4> QED BY <4>1 DEF IInv, CountInv
    <3>4. CoverInv' /\ HoldInv'
      BY DEF IInv, CoverInv, Held, Owner, HoldInv, AtMostOncePerRun
    <3> QED BY <3>1, <3>2, <3>3, <3>4 DEF IInv
  <2> QED BY <2>1, <2>2
<1> QED BY InitIInv, <1>1, PTL DEF Spec

(* Every variable keeps its type; in particular no counter of a callback   *)
(* goes below zero: complete() is never called once too often.             *)
THEOREM TypeCorrect == Spec => []TypeOK
<1>1. IInv => TypeOK
  BY DEF IInv
<1> QED BY Invariance, <1>1, PTL

(* The file backed queue never drops an entry before its batch completed,  *)
(* for every number of workers and checkpoints, every order of completion  *)
(* and every crash.                                                        *)
THEOREM CheckpointCorrect == Spec => []CheckpointSafe
<1>1. IInv => CheckpointSafe
  BY DEF IInv
<1> QED BY Invariance, <1>1, PTL

(* Every accepted event is completed, still in the file ahead of           *)
(* m_nextIndex, in flight, or kept in the file by a callback that cannot   *)
(* complete.                                                               *)
THEOREM NothingForgottenCorrect == Spec => []NothingForgotten
<1>1. IInv => NothingForgotten
  <2> SUFFICES ASSUME IInv, NEW i \in 0 .. (head - 1), i \notin settled, ~(i >= nextIndex)
               PROVE  \/ i \in Elements(delivery.ret)
                      \/ \E w \in Workers : i \in Elements(worker[w].events)
                      \/ \E c \in stuck : start[c] <= i
    BY DEF NothingForgotten
  <2>1. i \in Nat /\ i < nextIndex
    BY DEF IInv, TypeOK
  <2> QED BY <2>1 DEF IInv, CoverInv, Held
<1> QED BY Invariance, <1>1, PTL

(* While the memory queue holds an event there is one to hand out.         *)
LEMMA SomethingToTake ==
    ASSUME IInv, memoryQueue # <<>>
    PROVE  nextIndex \in Nat /\ head \in Nat /\ nextIndex < head
<1>1. /\ head \in Nat /\ nextIndex \in Nat /\ memoryQueue \in Seq(Nat) /\ QueueInv
  BY DEF IInv, TypeOK
<1>2. InSync(memoryQueue, head) /\ nextIndex <= Head(memoryQueue)
  BY <1>1 DEF QueueInv, MemoryQueueInSync, InSync
<1>3. Head(memoryQueue) = head - Len(memoryQueue) /\ Len(memoryQueue) >= 1
  BY <1>1, <1>2, InSyncTail
<1> QED BY <1>1, <1>2, <1>3

(* The memory queue is always the newest part of the file.                 *)
THEOREM QueueCorrect == Spec => []MemoryQueueInSync
<1>1. IInv => MemoryQueueInSync
  BY DEF IInv, QueueInv
<1> QED BY Invariance, <1>1, PTL

(* get() never reads the file outside its bounds: no index below the tail  *)
(* the workers move, and none at or above the head.                        *)
THEOREM ReadsCorrect == Spec => []ReadInBounds
<1>1. IInv => ReadInBounds
  <2> SUFFICES ASSUME IInv, memoryQueue # <<>> PROVE tail <= nextIndex /\ nextIndex < head
    BY DEF ReadInBounds, MoreToTake, ValidIndex
  <2>1. tail <= nextIndex
    BY DEF IInv, QueueInv
  <2> QED BY <2>1, SomethingToTake
<1> QED BY Invariance, <1>1, PTL

(* In one run of the process no event is handed out twice.                 *)
THEOREM AtMostOnceCorrect == Spec => []AtMostOncePerRun
<1>1. IInv => AtMostOncePerRun
  BY DEF IInv, HoldInv
<1> QED BY Invariance, <1>1, PTL

(* Callbacks run out from the oldest to the newest.                        *)
THEOREM ChainCorrect == Spec => []ReleasedInOrder
<1>1. IInv => ReleasedInOrder
  BY DEF IInv, OrderInv, ReleasedInOrder
<1> QED BY Invariance, <1>1, PTL

(* A worker never follows a child callback that is not set yet, although   *)
(* no lock orders setFinalized and complete().                             *)
THEOREM ChildSetCorrect == Spec => []ChildSetBeforeCascade
<1>1. IInv => ChildSetBeforeCascade
  BY DEF IInv, WorkerInv, ChildSetBeforeCascade
<1> QED BY Invariance, <1>1, PTL

(* However the reduceBatch calls of all workers and the += of the delivery *)
(* thread overlap, the batch size stays positive and at most Increment - 1 *)
(* above the configured size (twice the increment, for a configured size   *)
(* that does not exceed it).                                               *)
THEOREM BatchSizeCorrect == Spec => []BatchSizeBounded
<1>1. IInv => BatchSizeBounded
  BY DEF IInv, SizeInv
<1> QED BY Invariance, <1>1, PTL


-----------------------------------------------------------------------------
(* The refinement of IngestQueue: each step is a step of the abstract      *)
(* queue or changes nothing it can see.                                    *)

(* What the abstract queue sees of a step.                                 *)
Seen == <<tail, head, nextIndex, HeldEvents, settled>>

(* Moving a batch from the delivery thread to a worker, or any step that   *)
(* leaves every batch alone, leaves the held events alone.                 *)
LEMMA HeldSame ==
    ASSUME delivery'.ret = delivery.ret,
           \A w \in Workers : worker'[w].events = worker[w].events
    PROVE  HeldEvents' = HeldEvents
<1>1. {Elements(worker[w].events) : w \in Workers}' = {Elements(worker[w].events) : w \in Workers}
  <2>1. \A w \in Workers : Elements(worker'[w].events) = Elements(worker[w].events)
    BY DEF Elements
  <2> QED BY <2>1 DEF Elements
<1> QED BY <1>1 DEF HeldEvents, Elements

(* The empty batch of an idle thread holds nothing.                        *)
LEMMA ElementsEmpty == Elements(<<>>) = {}
BY DEF Elements

(* An event taken for the batch being put together becomes held.           *)
LEMMA TakeHolds ==
    ASSUME delivery.ret \in Seq(Nat), nextIndex \in Nat, worker' = worker,
           delivery'.ret = Append(delivery.ret, nextIndex)
    PROVE  HeldEvents' = HeldEvents \cup {nextIndex}
<1>1. Elements(delivery'.ret) = Elements(delivery.ret) \cup {nextIndex}
  BY ElementsAppend
<1>2. HeldEvents' = Elements(delivery'.ret) \cup UNION {Elements(worker'[w].events) : w \in Workers}
  BY DEF HeldEvents, Elements
<1> QED BY <1>1, <1>2 DEF HeldEvents

(* A worker that drops its batch gives up exactly the events of the batch: *)
(* no other thread holds any of them.                                      *)
LEMMA DropHeld ==
    ASSUME IInv, NEW w \in Workers, delivery' = delivery,
           NEW new, worker' = [worker EXCEPT ![w] = new], new.events = <<>>
    PROVE  HeldEvents' = HeldEvents \ Elements(worker[w].events)
<1> DEFINE batch == Elements(worker[w].events)
<1>1. worker \in [Workers -> WorkerType]
  BY DEF IInv, TypeOK
<1>2. /\ worker'[w].events = <<>>
      /\ \A v \in Workers \ {w} : worker'[v] = worker[v]
  BY <1>1
<1>3. /\ Elements(delivery.ret) \cap batch = {}
      /\ \A v \in Workers \ {w} : Elements(worker[v].events) \cap batch = {}
  BY DEF IInv, HoldInv, AtMostOncePerRun
<1>4. Elements(worker'[w].events) = {}
  BY <1>2, ElementsEmpty
<1>5. HeldEvents' = Elements(delivery'.ret) \cup UNION {Elements(worker'[v].events) : v \in Workers}
  BY DEF HeldEvents, Elements
<1>6. ASSUME NEW i PROVE i \in HeldEvents' <=> i \in HeldEvents /\ i \notin batch
  <2>1. i \in HeldEvents' <=> \/ i \in Elements(delivery.ret)
                              \/ \E v \in Workers \ {w} : i \in Elements(worker'[v].events)
    BY <1>4, <1>5
  <2>2. i \in HeldEvents <=> \/ i \in Elements(delivery.ret) \/ i \in batch
                             \/ \E v \in Workers \ {w} : i \in Elements(worker[v].events)
    BY DEF HeldEvents
  <2>3. \A v \in Workers \ {w} : Elements(worker'[v].events) = Elements(worker[v].events)
    BY <1>2 DEF Elements
  <2>4. i \in batch => /\ i \notin Elements(delivery.ret)
                       /\ \A v \in Workers \ {w} : i \notin Elements(worker[v].events)
    BY <1>3
  <2> QED BY <2>1, <2>2, <2>3, <2>4
<1> QED BY <1>6

(* Taking the head of the memory queue or the entry of the file hands out  *)
(* the next event; passing over an unreadable entry answers it.            *)
LEMMA TakeRefines ==
    ASSUME IInv, TakeFromMemory \/ TakeFromFile \/ TakeUnreadable
    PROVE  Promise!HandOut \/ Promise!PassOver
<1>1. memoryQueue # <<>>
  BY DEF TakeFromMemory, TakeFromFile, TakeUnreadable, MoreToTake
<1>2. nextIndex \in Nat /\ head \in Nat /\ nextIndex < head
  BY <1>1, SomethingToTake
<1>3. delivery \in DeliveryType /\ delivery.ret \in Seq(Nat)
  BY DEF IInv, TypeOK, DeliveryType
<1>4. CASE TakeFromMemory
  <2>1. /\ delivery'.ret = Append(delivery.ret, nextIndex) /\ worker' = worker
        /\ nextIndex' = nextIndex + 1 /\ UNCHANGED <<tail, head, settled>>
    BY <1>3, <1>4 DEF TakeFromMemory, Advance, DeliveryType
  <2> QED BY <1>2, <1>3, <2>1, TakeHolds DEF Promise!HandOut
<1>5. CASE TakeFromFile
  <2>1. /\ delivery'.ret = Append(delivery.ret, nextIndex) /\ worker' = worker
        /\ nextIndex' = nextIndex + 1 /\ UNCHANGED <<tail, head, settled>>
    BY <1>2, <1>3, <1>5 DEF TakeFromFile, Advance, DeliveryType
  <2> QED BY <1>2, <1>3, <2>1, TakeHolds DEF Promise!HandOut
<1>6. CASE TakeUnreadable
  <2>1. /\ delivery'.ret = delivery.ret /\ worker' = worker
        /\ nextIndex' = nextIndex + 1 /\ UNCHANGED <<tail, head>>
        /\ settled' = settled \cup {nextIndex}
    BY <1>3, <1>6 DEF TakeUnreadable, Advance, DeliveryType
  <2>2. HeldEvents' = HeldEvents
    BY <2>1, HeldSame
  <2> QED BY <1>2, <2>1, <2>2 DEF Promise!PassOver
<1> QED BY <1>4, <1>5, <1>6

(* The other steps of the delivery thread move no event, except that a     *)
(* batch which cannot be submitted is abandoned.                           *)
LEMMA DeliverRefines ==
    ASSUME IInv, Deliver
    PROVE  Promise!Next \/ UNCHANGED Seen
<1> USE DEF queueVars, sizeVars, callBackVars
<1>0. /\ delivery \in DeliveryType /\ worker \in [Workers -> WorkerType]
      /\ delivery.pc = "check" => delivery.ret = <<>>
  BY DEF IInv, TypeOK, HoldInv
<1>1. CASE TakeFromMemory \/ TakeFromFile \/ TakeUnreadable
  BY <1>1, TakeRefines DEF Promise!Next
<1>2. CASE \/ Poll \/ StartGet \/ ReadFails \/ EndGet \/ CountBatch \/ KeepCallBack
           \/ SetFinalized \/ SetChildCallBack \/ TestFull \/ TestLimit \/ ReadSize \/ WriteSize
  <2>1. /\ delivery'.ret = delivery.ret /\ worker' = worker
        /\ UNCHANGED <<tail, head, nextIndex, settled>>
    BY <1>0, <1>2 DEF Poll, StartGet, ReadFails, EndGet, CountBatch, KeepCallBack,
       SetFinalized, SetChildCallBack, TestFull, TestLimit, ReadSize, WriteSize, GoesOn, vars, IdleDelivery, DeliveryType
  <2> QED BY <2>1, HeldSame DEF Seen
<1>3. ASSUME NEW w \in Workers, HandleEvents(w) PROVE UNCHANGED Seen
  <2>1. /\ worker[w].events = <<>> /\ worker'[w].events = delivery.ret
        /\ delivery'.ret = <<>>
        /\ \A v \in Workers \ {w} : worker'[v] = worker[v]
        /\ UNCHANGED <<tail, head, nextIndex, settled>>
    BY <1>0, <1>3 DEF HandleEvents, IdleDelivery, IInv, HoldInv
  <2>2. ASSUME NEW i PROVE i \in HeldEvents' <=> i \in HeldEvents
    <3>1. HeldEvents' = Elements(delivery'.ret) \cup UNION {Elements(worker'[v].events) : v \in Workers}
      BY DEF HeldEvents, Elements
    <3>2. \A v \in Workers \ {w} : Elements(worker'[v].events) = Elements(worker[v].events)
      BY <2>1 DEF Elements
    <3>3. /\ Elements(delivery'.ret) = {} /\ Elements(worker[w].events) = {}
          /\ Elements(worker'[w].events) = Elements(delivery.ret)
      BY <2>1, ElementsEmpty
    <3> QED BY <3>1, <3>2, <3>3 DEF HeldEvents
  <2>3. HeldEvents' = HeldEvents
    BY <2>2
  <2> QED BY <2>1, <2>3 DEF Seen
<1>4. CASE HandleFails
  <2>1. /\ delivery'.ret = <<>> /\ worker' = worker
        /\ UNCHANGED <<tail, head, nextIndex, settled>>
    BY <1>4 DEF HandleFails, IdleDelivery
  <2>2. HeldEvents' = UNION {Elements(worker[w].events) : w \in Workers}
    BY <2>1, ElementsEmpty DEF HeldEvents, Elements
  <2>3. \A w \in Workers : Elements(worker[w].events) \cap Elements(delivery.ret) = {}
    BY DEF IInv, HoldInv, AtMostOncePerRun
  <2>4. HeldEvents' = HeldEvents \ Elements(delivery.ret) /\ Elements(delivery.ret) \subseteq HeldEvents
    BY <2>2, <2>3 DEF HeldEvents
  <2>5. Promise!Abandon
    BY <2>1, <2>4 DEF Promise!Abandon
  <2> QED BY <2>5 DEF Promise!Next
<1> QED BY <1>1, <1>2, <1>3, <1>4 DEF Deliver

(* complete() settles the batch, a worker that dies abandons it, and       *)
(* removeBeforeIndex forgets only settled events.                          *)
LEMMA WorkRefines ==
    ASSUME IInv, CheckpointSafe', NEW w \in Workers, Work(w)
    PROVE  Promise!Next \/ UNCHANGED Seen
<1> USE DEF queueVars, sizeVars, callBackVars
<1> DEFINE batch == Elements(worker[w].events)
<1>0. /\ worker \in [Workers -> WorkerType] /\ tail \in Nat /\ head \in Nat
      /\ worker[w].pc # "writing" => worker[w].events = <<>>
      /\ batch \subseteq HeldEvents
  BY DEF IInv, TypeOK, HoldInv, HeldEvents
<1>1. CASE Complete(w)
  <2> DEFINE c == worker[w].cb
             new == IF IsLastOut(c)
                    THEN [pc |-> "calling", cb |-> c, cur |-> c + 1, events |-> <<>>]
                    ELSE IdleWorker
  <2>1. new.events = <<>>
    BY DEF IdleWorker
  <2>a. worker' = [worker EXCEPT ![w] = new] /\ delivery' = delivery
    BY <1>1 DEF Complete
  <2> HIDE DEF new
  <2>2. HeldEvents' = HeldEvents \ batch
    BY <2>1, <2>a, DropHeld
  <2>3. Promise!Settle
    BY <1>0, <1>1, <2>2 DEF Complete, Promise!Settle
  <2> QED BY <2>3 DEF Promise!Next
<1>2. CASE WorkerFails(w)
  <2>1. IdleWorker.events = <<>>
    BY DEF IdleWorker
  <2>2. HeldEvents' = HeldEvents \ batch
    BY <1>2, <2>1, DropHeld DEF WorkerFails
  <2>3. Promise!Abandon
    BY <1>0, <1>2, <2>2 DEF WorkerFails, Promise!Abandon
  <2> QED BY <2>3 DEF Promise!Next
<1>3. CASE CompleteChild(w) \/ RemoveThrows(w) \/ RemoveFails(w) \/ RemoveBeforeIndex(w)
  <2>1. worker[w].pc # "writing" /\ worker[w].events = <<>>
    BY <1>0, <1>3 DEF CompleteChild, RemoveThrows, RemoveFails, RemoveBeforeIndex
  <2>a. /\ worker'[w].events = <<>>
        /\ \A v \in Workers \ {w} : worker'[v] = worker[v]
    <3>1. CASE CompleteChild(w)
      BY <1>0, <2>1, <3>1 DEF CompleteChild, WorkerType
    <3>2. CASE RemoveThrows(w)
      BY <1>0, <3>2 DEF RemoveThrows, IdleWorker
    <3>3. CASE RemoveFails(w) \/ RemoveBeforeIndex(w)
      <4>1. Return(w)
        BY <3>3 DEF RemoveFails, RemoveBeforeIndex
      <4>2. CASE worker[w].cur = worker[w].cb
        BY <1>0, <4>1, <4>2 DEF Return, IdleWorker
      <4>3. CASE worker[w].cur # worker[w].cb
        BY <1>0, <2>1, <4>1, <4>3 DEF Return, WorkerType
      <4> QED BY <4>2, <4>3
    <3> QED BY <1>3, <3>1, <3>2, <3>3
  <2>2. \A v \in Workers : worker'[v].events = worker[v].events
    BY <2>1, <2>a
  <2>3. delivery' = delivery /\ UNCHANGED <<head, nextIndex, settled>>
    BY <1>3 DEF CompleteChild, RemoveThrows, RemoveFails, RemoveBeforeIndex
  <2>4. HeldEvents' = HeldEvents
    BY <2>2, <2>3, HeldSame
  <2>5. CASE RemoveBeforeIndex(w)
    <3>1. tail' \in 0 .. head
      <4>1. completionIndex[worker[w].cur] \in Int
        BY <2>5 DEF IInv, TypeOK, WorkerInv, RemoveBeforeIndex
      <4> QED BY <1>0, <2>5, <4>1 DEF RemoveBeforeIndex, ValidIndex
    <3>2. \A j \in 0 .. (tail' - 1) : j \in settled
      BY <2>3 DEF CheckpointSafe
    <3>3. Promise!Forget
      BY <2>3, <2>4, <3>1, <3>2 DEF Promise!Forget
    <3> QED BY <3>3 DEF Promise!Next
  <2>6. CASE CompleteChild(w) \/ RemoveThrows(w) \/ RemoveFails(w)
    BY <2>3, <2>4, <2>6 DEF CompleteChild, RemoveThrows, RemoveFails, Seen
  <2> QED BY <1>3, <2>5, <2>6
<1>4. CASE ReduceWrite(w)
  BY <1>4, HeldSame DEF ReduceWrite, Seen
<1> QED BY <1>1, <1>2, <1>3, <1>4 DEF Work

(* Every step of the queue is a step of the promise or invisible to it.    *)
LEMMA StepRefines ==
    ASSUME IInv, CheckpointSafe', Next
    PROVE  Promise!Next \/ UNCHANGED Seen
<1> USE DEF queueVars, sizeVars, callBackVars
<1>1. CASE Put
  <2>1. HeldEvents' = HeldEvents
    BY <1>1, HeldSame DEF Put
  <2> QED BY <1>1, <2>1 DEF Put, Promise!Accept, Promise!Next
<1>2. CASE Deliver
  BY <1>2, DeliverRefines
<1>3. ASSUME NEW w \in Workers, Work(w) PROVE Promise!Next \/ UNCHANGED Seen
  BY <1>3, WorkRefines
<1>4. ASSUME NEW w \in Workers, ReduceRead(w) PROVE UNCHANGED Seen
  BY <1>4, HeldSame DEF ReduceRead, Seen
<1>5. CASE Shutdown
  BY <1>5, HeldSame DEF Shutdown, Seen
<1>6. CASE Restart
  <2>1. delivery' = IdleDelivery /\ worker' = [w \in Workers |-> IdleWorker]
    BY <1>6 DEF Restart, NewProcess
  <2>2. HeldEvents' = {}
    BY <2>1, ElementsEmpty DEF HeldEvents, Elements, IdleDelivery, IdleWorker
  <2>3. Promise!Restart
    BY <1>6, <2>2 DEF Restart, NewProcess, Promise!Restart
  <2> QED BY <2>3 DEF Promise!Next
<1> QED BY <1>1, <1>2, <1>3, <1>4, <1>5, <1>6 DEF Next

(* The file backed queue implements the abstract persistent queue: in one  *)
(* run of the process it hands out the events in the order in which they   *)
(* were accepted and each one once, and after a restart it hands out again *)
(* every event that was not answered.                                      *)
THEOREM RefinesIngestQueue == Spec => DeliversAtLeastOnce
<1>1. Init => Promise!Init
  <2> SUFFICES ASSUME Init PROVE Promise!Init
    OBVIOUS
  <2>1. HeldEvents = {}
    BY ElementsEmpty DEF Init, HeldEvents, IdleDelivery, IdleWorker
  <2> QED BY <2>1 DEF Init, Promise!Init
<1>2. IInv /\ IInv' /\ [Next]_vars => [Promise!Next]_(Promise!vars)
  <2>1. ASSUME IInv, IInv', Next PROVE [Promise!Next]_(Promise!vars)
    <3>1. CheckpointSafe'
      BY <2>1 DEF IInv
    <3> QED BY <2>1, <3>1, StepRefines DEF Seen, Promise!vars
  <2>2. ASSUME UNCHANGED vars PROVE UNCHANGED (Promise!vars)
    BY <2>2, HeldSame DEF vars, Promise!vars
  <2> QED BY <2>1, <2>2
<1> QED BY <1>1, <1>2, Invariance, PTL DEF Spec, DeliversAtLeastOnce, Promise!Spec

=============================================================================
