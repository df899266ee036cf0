----------------------------- MODULE FileQueue -----------------------------
(***************************************************************************)
(* The file backed ingest queue: QueueProcessor with its DeliveryThread,   *)
(* FileQueueProcessor with its CompletionCallBack chain, and the pool of   *)
(* ingest workers that IngestExecutorService runs the batches on.          *)
(*                                                                         *)
(* An event is identified with the index BigArray.append gave it.  The     *)
(* memory mapped BigArray outlives the process; everything else is rebuilt *)
(* by Restart.  A worker's complete() is split at every point where        *)
(* another thread can run: the atomic decrement, the call of the child,    *)
(* and the removeBeforeIndex made on the way back.                         *)
(***************************************************************************)
EXTENDS Integers, Sequences, FiniteSets

CONSTANTS
    Workers,          \* ingest threads: one permit of IngestExecutorService each
    InitialBatchSize, \* kairosdb.queue_processor.batch_size
    Increment,        \* what a full batch adds to a reduced size: 5 in the code
    MemoryQueueSize,  \* kairosdb.queue_processor.memory_queue_size
    MaxPuts,          \* bound: events ever appended
    MaxCheckpoints,   \* bound: checkpoints in one run of the process
    MaxFaults,        \* bound: failed reads, removals, submissions and tasks
    MaxRestarts       \* bound: crashes and shutdowns

ASSUME WorkersAssumption == IsFiniteSet(Workers) /\ Workers # {}
ASSUME SizesAssumption ==
    /\ InitialBatchSize \in Nat \ {0}
    /\ Increment \in Nat \ {0}
    /\ MemoryQueueSize \in Nat \ {0}
ASSUME BoundsAssumption ==
    /\ MaxPuts \in Nat
    /\ MaxCheckpoints \in Nat
    /\ MaxFaults \in Nat
    /\ MaxRestarts \in Nat

(* A CompletionCallBack is named by its position in the chain: the child   *)
(* of callback c is c + 1 and m_lastCallback is `last`.                     *)
CallBacks == 1 .. (MaxCheckpoints + 1)

VARIABLES
    tail, head,       \* BigArray: the entries tail .. head - 1 are on disk
    memoryQueue,      \* m_memoryQueue: the indices of the events it holds
    nextIndex,        \* m_nextIndex
    batchSize,        \* m_batchSize, read and written without any lock
    reducing,         \* what each worker in reduceBatch will write, 0 if none
    reduced,          \* workers whose batch has posted its reduction
    running,          \* m_running, and the negation of m_shuttingDown
    delivery,         \* the DeliveryThread and its locals
    counter,          \* m_counter of each callback
    finalized,        \* m_finalized of each callback
    completionIndex,  \* m_completionIndex of each callback
    last,             \* m_lastCallback
    worker,           \* each ingest thread and its stack inside complete()
    faults, restarts, \* bound counters
    settled,          \* history: events completed, or unreadable when taken
    start,            \* history: nextIndex when each callback was created
    stuck             \* history: callbacks owed a complete() that never comes

queueVars    == <<tail, head, memoryQueue, nextIndex>>
sizeVars     == <<batchSize, reducing, reduced>>
callBackVars == <<counter, finalized, completionIndex, last, start>>
vars == <<tail, head, memoryQueue, nextIndex, batchSize, reducing, reduced,
          running, delivery, counter, finalized, completionIndex, last, worker,
          faults, restarts, settled, start, stuck>>

DeliverySteps == {"check", "loop", "count", "callback", "child", "full",
                  "limit", "read", "write", "handle"}
WorkerSteps == {"idle", "writing", "calling", "removing"}

Elements(seq) == {seq[i] : i \in 1 .. Len(seq)}

IdleDelivery == [pc |-> "check", asked |-> 0, taken |-> 0, ret |-> <<>>,
                 returnIndex |-> 0, cb |-> 0, read |-> 0]
IdleWorker == [pc |-> "idle", cb |-> 0, cur |-> 0, events |-> <<>>]

-----------------------------------------------------------------------------
(* The state a FileQueueProcessor is constructed in over a BigArray whose  *)
(* tail is at `from`: one callback that no batch uses yet.                 *)
NewProcess(from) ==
    /\ memoryQueue' = <<>>
    /\ nextIndex' = from
    /\ batchSize' = InitialBatchSize
    /\ reducing' = [w \in Workers |-> 0]
    /\ reduced' = {}
    /\ running' = TRUE
    /\ delivery' = IdleDelivery
    /\ counter' = [c \in CallBacks |-> 0]
    /\ finalized' = [c \in CallBacks |-> FALSE]
    /\ completionIndex' = [c \in CallBacks |-> 0]
    /\ last' = 1
    /\ worker' = [w \in Workers |-> IdleWorker]
    /\ start' = [c \in CallBacks |-> from]
    /\ stuck' = {}

Init ==
    /\ tail = 0 /\ head = 0
    /\ memoryQueue = <<>>
    /\ nextIndex = 0
    /\ batchSize = InitialBatchSize
    /\ reducing = [w \in Workers |-> 0]
    /\ reduced = {}
    /\ running = TRUE
    /\ delivery = IdleDelivery
    /\ counter = [c \in CallBacks |-> 0]
    /\ finalized = [c \in CallBacks |-> FALSE]
    /\ completionIndex = [c \in CallBacks |-> 0]
    /\ last = 1
    /\ worker = [w \in Workers |-> IdleWorker]
    /\ faults = 0 /\ restarts = 0
    /\ settled = {}
    /\ start = [c \in CallBacks |-> 0]
    /\ stuck = {}

-----------------------------------------------------------------------------
(* BigArray, the external bigqueue library.                                *)

(* validateIndex: get and removeBeforeIndex throw IndexOutOfBounds outside *)
(* tail .. head - 1.                                                       *)
ValidIndex(index) == tail <= index /\ index < head

-----------------------------------------------------------------------------
(* Producers.  The lock is m_lock: get() holds it for the whole loop.      *)

LockFree == delivery.pc # "loop"

(* Mutant: a bounded queue that drops what does not fit.                   *)
AddToMemoryRefusing(queue, index) ==
    IF Len(queue) = MemoryQueueSize THEN queue ELSE Append(queue, index)

(* CircularFifoQueue.add on a full queue first removes the oldest element. *)
AddToMemory(queue, index) ==
    IF Len(queue) = MemoryQueueSize
    THEN Append(Tail(queue), index)
    ELSE Append(queue, index)

Put ==
    /\ running
    /\ LockFree
    /\ head < MaxPuts
    /\ head' = head + 1
    /\ memoryQueue' = AddToMemory(memoryQueue, head)
    /\ UNCHANGED <<tail, nextIndex, sizeVars, running, delivery, callBackVars,
                   worker, faults, restarts, settled, stuck>>

-----------------------------------------------------------------------------
(* The DeliveryThread.                                                     *)

(* getAvailableDataPointEvents() == 0: the loop goes round.                *)
Poll ==
    /\ running
    /\ delivery.pc = "check"
    /\ memoryQueue = <<>>
    /\ UNCHANGED vars

(* Mutant: below the minimum batch size the loop starts over for good.     *)
StartGetAtMinimum ==
    /\ running
    /\ delivery.pc = "check"
    /\ Len(memoryQueue) >= 2
    /\ delivery' = [IdleDelivery EXCEPT !.pc = "loop", !.asked = batchSize]
    /\ UNCHANGED <<queueVars, sizeVars, running, callBackVars, worker,
                   faults, restarts, settled, stuck>>

StartGet ==
    /\ running
    /\ delivery.pc = "check"
    /\ memoryQueue # <<>>
    /\ delivery' = [IdleDelivery EXCEPT !.pc = "loop", !.asked = batchSize]
    /\ UNCHANGED <<queueVars, sizeVars, running, callBackVars, worker,
                   faults, restarts, settled, stuck>>

MoreToTake ==
    /\ delivery.pc = "loop"
    /\ delivery.taken < delivery.asked
    /\ memoryQueue # <<>>

(* An I/O error or an unchecked exception strikes.                         *)
Fault == faults < MaxFaults /\ faults' = faults + 1

(* One turn of the loop ends with these assignments.                       *)
Advance(ret) ==
    /\ delivery' = [delivery EXCEPT !.taken = @ + 1, !.ret = ret,
                                    !.returnIndex = nextIndex]
    /\ nextIndex' = nextIndex + 1
    /\ UNCHANGED <<tail, head, sizeVars, running, callBackVars, worker,
                   restarts, stuck>>

(* Mutant: the event is peeked at and never removed.                       *)
TakeWithoutRemoving ==
    /\ MoreToTake
    /\ Head(memoryQueue) = nextIndex
    /\ Advance(Append(delivery.ret, Head(memoryQueue)))
    /\ UNCHANGED <<memoryQueue, settled, faults>>

(* The memory queue is in step with m_nextIndex: its head is the event.    *)
TakeFromMemory ==
    /\ MoreToTake
    /\ Head(memoryQueue) = nextIndex
    /\ memoryQueue' = Tail(memoryQueue)
    /\ Advance(Append(delivery.ret, Head(memoryQueue)))
    /\ UNCHANGED <<settled, faults>>

(* It is not: the entry at m_nextIndex is read from the file, unless       *)
(* m_nextIndex is the head of the array; then the peeked event is used,    *)
(* without being removed.                                                  *)
TakeFromFile ==
    /\ MoreToTake
    /\ Head(memoryQueue) # nextIndex
    /\ Advance(Append(delivery.ret,
                      IF nextIndex # head THEN nextIndex ELSE Head(memoryQueue)))
    /\ UNCHANGED <<memoryQueue, settled, faults>>

(* deserializeEvent logs and returns null for bytes it cannot decode: the  *)
(* entry is passed over.                                                   *)
TakeUnreadable ==
    /\ Fault
    /\ MoreToTake
    /\ Head(memoryQueue) # nextIndex
    /\ nextIndex # head
    /\ Advance(delivery.ret)
    /\ settled' = settled \cup {nextIndex}
    /\ UNCHANGED memoryQueue

(* Mutant: a failed read returns an empty batch.                           *)
ReadFailsEmpty ==
    /\ Fault
    /\ MoreToTake
    /\ Head(memoryQueue) # nextIndex
    /\ nextIndex # head
    /\ delivery' = [delivery EXCEPT !.pc = "count", !.ret = <<>>]
    /\ UNCHANGED <<queueVars, sizeVars, running, callBackVars, worker,
                   restarts, settled, stuck>>

(* bigArray.get throws IOException: the loop breaks with what it has.      *)
ReadFails ==
    /\ Fault
    /\ MoreToTake
    /\ Head(memoryQueue) # nextIndex
    /\ nextIndex # head
    /\ delivery' = [delivery EXCEPT !.pc = "count"]
    /\ UNCHANGED <<queueVars, sizeVars, running, callBackVars, worker,
                   restarts, settled, stuck>>

EndGet ==
    /\ delivery.pc = "loop"
    /\ ~MoreToTake
    /\ delivery' = [delivery EXCEPT !.pc = "count"]
    /\ UNCHANGED <<queueVars, sizeVars, running, callBackVars, worker,
                   faults, restarts, settled, stuck>>

(* Mutant: get() forgets to count the batch.                               *)
CountBatchNever ==
    /\ delivery.pc = "count"
    /\ completionIndex' = [completionIndex EXCEPT ![last] = delivery.returnIndex]
    /\ delivery' = [delivery EXCEPT !.pc = "callback"]
    /\ UNCHANGED <<queueVars, sizeVars, running, counter, finalized, last,
                   start, worker, faults, restarts, settled, stuck>>

(* The end of get(), after the lock is released.  Nothing reads            *)
(* m_completionIndex of a callback that is not finalized, so the increment *)
(* and the assignment are one step.                                        *)
CountBatch ==
    /\ delivery.pc = "count"
    /\ counter' = [counter EXCEPT ![last] = @ + 1]
    /\ completionIndex' = [completionIndex EXCEPT ![last] = delivery.returnIndex]
    /\ delivery' = [delivery EXCEPT !.pc = "callback"]
    /\ UNCHANGED <<queueVars, sizeVars, running, finalized, last, start, worker,
                   faults, restarts, settled, stuck>>

(* getCompletionCallBack before the stopwatch expires.                     *)
KeepCallBack ==
    /\ delivery.pc = "callback"
    /\ delivery' = [delivery EXCEPT !.pc = "full", !.cb = last]
    /\ UNCHANGED <<queueVars, sizeVars, running, callBackVars, worker,
                   faults, restarts, settled, stuck>>

(* getCompletionCallBack after seconds_till_checkpoint: setFinalized ...   *)
SetFinalized ==
    /\ delivery.pc = "callback"
    /\ last <= MaxCheckpoints
    /\ finalized' = [finalized EXCEPT ![last] = TRUE]
    /\ delivery' = [delivery EXCEPT !.pc = "child", !.cb = last]
    /\ UNCHANGED <<queueVars, sizeVars, running, counter, completionIndex, last,
                   start, worker, faults, restarts, settled, stuck>>

(* Mutant: setChildCallBack without the increment of the child.            *)
SetChildUncounted ==
    /\ delivery.pc = "child"
    /\ last' = last + 1
    /\ start' = [start EXCEPT ![last + 1] = nextIndex]
    /\ delivery' = [delivery EXCEPT !.pc = "full"]
    /\ UNCHANGED <<queueVars, sizeVars, running, counter, finalized,
                   completionIndex, worker, faults, restarts, settled, stuck>>

(* ... and then a new m_lastCallback, made the child and incremented.      *)
SetChildCallBack ==
    /\ delivery.pc = "child"
    /\ last' = last + 1
    /\ counter' = [counter EXCEPT ![last + 1] = @ + 1]
    /\ start' = [start EXCEPT ![last + 1] = nextIndex]
    /\ delivery' = [delivery EXCEPT !.pc = "full"]
    /\ UNCHANGED <<queueVars, sizeVars, running, finalized, completionIndex,
                   worker, faults, restarts, settled, stuck>>

(* The four unlocked accesses to m_batchSize after a batch was taken, each *)
(* a step of its own: is the batch a full one, is the size below the       *)
(* configured one, and the read and the write of m_batchSize += 5.         *)
GoesOn(pc) ==
    /\ delivery' = [delivery EXCEPT !.pc = pc]
    /\ UNCHANGED <<queueVars, sizeVars, running, callBackVars, worker,
                   faults, restarts, settled, stuck>>

TestFull ==
    /\ delivery.pc = "full"
    /\ GoesOn(IF Len(delivery.ret) = batchSize THEN "limit" ELSE "handle")

TestLimit ==
    /\ delivery.pc = "limit"
    /\ GoesOn(IF batchSize < InitialBatchSize THEN "read" ELSE "handle")

ReadSize ==
    /\ delivery.pc = "read"
    /\ delivery' = [delivery EXCEPT !.pc = "write", !.read = batchSize]
    /\ UNCHANGED <<queueVars, sizeVars, running, callBackVars, worker,
                   faults, restarts, settled, stuck>>

WriteSize ==
    /\ delivery.pc = "write"
    /\ batchSize' = delivery.read + Increment
    /\ delivery' = [delivery EXCEPT !.pc = "handle"]
    /\ UNCHANGED <<queueVars, reducing, reduced, running, callBackVars, worker,
                   faults, restarts, settled, stuck>>

(* handleEvents: submit blocks for a permit, then a worker has the batch.  *)
HandleEvents(w) ==
    /\ delivery.pc = "handle"
    /\ worker[w].pc = "idle"
    /\ worker' = [worker EXCEPT ![w] =
                    [pc |-> "writing", cb |-> delivery.cb, cur |-> 0,
                     events |-> delivery.ret]]
    /\ delivery' = IdleDelivery
    /\ UNCHANGED <<queueVars, sizeVars, running, callBackVars, faults,
                   restarts, settled, stuck>>

(* handleEvents throws (or submit is interrupted): the exception is logged *)
(* and nobody will complete this batch.                                    *)
HandleFails ==
    /\ Fault
    /\ delivery.pc = "handle"
    /\ stuck' = stuck \cup {delivery.cb}
    /\ delivery' = IdleDelivery
    /\ UNCHANGED <<queueVars, sizeVars, running, callBackVars, worker, restarts,
                   settled>>

-----------------------------------------------------------------------------
(* The ingest workers.                                                     *)

(* Mutant: a batch that was sent in parts asks for one event less.         *)
ReduceReadByOne(w) ==
    /\ worker[w].pc = "writing"
    /\ reducing[w] = 0 /\ w \notin reduced
    /\ \E limit \in 1 .. (Len(worker[w].events) - 1) :
          reducing' = [reducing EXCEPT ![w] =
                         IF limit < batchSize THEN limit ELSE batchSize]
    /\ UNCHANGED <<queueVars, batchSize, reduced, running, delivery,
                   callBackVars, worker, faults, restarts, settled, stuck>>

(* BatchHandler posts a BatchReductionEvent(limit) when only a limit below *)
(* the number of its events went through, once and before complete(): the  *)
(* number of events divided by 2 or more.  The event bus calls reduceBatch *)
(* in the worker's own thread and locks nothing: any number of workers may *)
(* be between its read and its write.                                      *)
ReduceRead(w) ==
    /\ worker[w].pc = "writing"
    /\ reducing[w] = 0 /\ w \notin reduced
    /\ \E limit \in 1 .. (Len(worker[w].events) \div 2) :
          reducing' = [reducing EXCEPT ![w] =
                         IF limit < batchSize THEN limit ELSE batchSize]
    /\ UNCHANGED <<queueVars, batchSize, reduced, running, delivery,
                   callBackVars, worker, faults, restarts, settled, stuck>>

ReduceWrite(w) ==
    /\ reducing[w] # 0
    /\ batchSize' = reducing[w]
    /\ reducing' = [reducing EXCEPT ![w] = 0]
    /\ reduced' = reduced \cup {w}
    /\ UNCHANGED <<queueVars, running, delivery, callBackVars, worker,
                   faults, restarts, settled, stuck>>

(* m_counter.decrementAndGet() == 0 && m_finalized                         *)
IsLastOut(c) == counter[c] = 1 /\ finalized[c]

(* The batch has been written (or given up): callBack.complete().          *)
Complete(w) ==
    LET c == worker[w].cb IN
    /\ worker[w].pc = "writing" /\ reducing[w] = 0
    /\ settled' = settled \cup Elements(worker[w].events)
    /\ reduced' = reduced \ {w}
    /\ counter' = [counter EXCEPT ![c] = @ - 1]
    /\ worker' = [worker EXCEPT ![w] =
                    IF IsLastOut(c)
                    THEN [pc |-> "calling", cb |-> c, cur |-> c + 1,
                          events |-> <<>>]
                    ELSE IdleWorker]
    /\ UNCHANGED <<queueVars, batchSize, reducing, running, delivery, finalized,
                   completionIndex, last, start, faults, restarts, stuck>>

(* Mutant: a child that still has batches keeps its parent from removing.  *)
CompleteChildOnly(w) ==
    LET c == worker[w].cur IN
    /\ worker[w].pc = "calling"
    /\ counter' = [counter EXCEPT ![c] = @ - 1]
    /\ worker' = [worker EXCEPT ![w] =
                    IF IsLastOut(c)
                    THEN [worker[w] EXCEPT !.cur = c + 1]
                    ELSE IdleWorker]
    /\ UNCHANGED <<queueVars, sizeVars, running, delivery, finalized,
                   completionIndex, last, start, faults, restarts, settled,
                   stuck>>

(* m_childCallBack.complete(), called from inside complete(); a child that *)
(* was not the last one out returns and the caller removes its entries.    *)
CompleteChild(w) ==
    LET c == worker[w].cur IN
    /\ worker[w].pc = "calling"
    /\ counter' = [counter EXCEPT ![c] = @ - 1]
    /\ worker' = [worker EXCEPT ![w] =
                    IF IsLastOut(c)
                    THEN [worker[w] EXCEPT !.cur = c + 1]
                    ELSE [worker[w] EXCEPT !.pc = "removing", !.cur = c - 1]]
    /\ UNCHANGED <<queueVars, sizeVars, running, delivery, finalized,
                   completionIndex, last, start, faults, restarts, settled,
                   stuck>>

(* complete() of callback cur returns to the complete() of its parent.     *)
Return(w) ==
    worker' = [worker EXCEPT ![w] =
                 IF worker[w].cur = worker[w].cb
                 THEN IdleWorker
                 ELSE [worker[w] EXCEPT !.cur = @ - 1]]

RemoveBeforeIndex(w) ==
    /\ worker[w].pc = "removing"
    /\ ValidIndex(completionIndex[worker[w].cur])
    /\ tail' = completionIndex[worker[w].cur]
    /\ Return(w)
    /\ UNCHANGED <<head, memoryQueue, nextIndex, sizeVars, running, delivery,
                   callBackVars, faults, restarts, settled, stuck>>

(* The index is already below the tail: IndexOutOfBounds is unchecked and  *)
(* leaves every complete() on the stack.                                   *)
RemoveThrows(w) ==
    /\ worker[w].pc = "removing"
    /\ ~ValidIndex(completionIndex[worker[w].cur])
    /\ worker' = [worker EXCEPT ![w] = IdleWorker]
    /\ UNCHANGED <<queueVars, sizeVars, running, delivery, callBackVars,
                   faults, restarts, settled, stuck>>

(* IOException is logged, and the complete() of the parent goes on.        *)
RemoveFails(w) ==
    /\ Fault
    /\ worker[w].pc = "removing"
    /\ Return(w)
    /\ UNCHANGED <<queueVars, sizeVars, running, delivery, callBackVars,
                   restarts, settled, stuck>>

(* The task ends with a throwable before complete() (and before the post,  *)
(* as complete() follows it at once); the permit is freed.                 *)
WorkerFails(w) ==
    /\ Fault
    /\ worker[w].pc = "writing"
    /\ reducing[w] = 0 /\ w \notin reduced
    /\ stuck' = stuck \cup {worker[w].cb}
    /\ worker' = [worker EXCEPT ![w] = IdleWorker]
    /\ UNCHANGED <<queueVars, sizeVars, running, delivery, callBackVars,
                   restarts, settled>>

-----------------------------------------------------------------------------
(* shutdown(): puts are refused, the array is closed, m_running = FALSE.   *)
Shutdown ==
    /\ running
    /\ restarts < MaxRestarts
    /\ running' = FALSE
    /\ UNCHANGED <<queueVars, sizeVars, delivery, callBackVars, worker,
                   faults, restarts, settled, stuck>>

(* Mutant: the new process starts from the head of the array.              *)
RestartAtHead ==
    /\ restarts < MaxRestarts
    /\ restarts' = restarts + 1
    /\ NewProcess(head)
    /\ UNCHANGED <<tail, head, settled, faults>>

(* The process ends, orderly or by a crash at any point, and a new one     *)
(* opens the same files.                                                   *)
Restart ==
    /\ restarts < MaxRestarts
    /\ restarts' = restarts + 1
    /\ NewProcess(tail)
    /\ UNCHANGED <<tail, head, settled, faults>>

-----------------------------------------------------------------------------
Deliver ==
    \/ Poll
    \/ StartGet
    \/ TakeFromMemory
    \/ TakeFromFile
    \/ TakeUnreadable
    \/ ReadFails
    \/ EndGet
    \/ CountBatch
    \/ KeepCallBack
    \/ SetFinalized
    \/ SetChildCallBack
    \/ TestFull
    \/ TestLimit
    \/ ReadSize
    \/ WriteSize
    \/ \E w \in Workers : HandleEvents(w)
    \/ HandleFails

Work(w) ==
    \/ ReduceWrite(w)
    \/ Complete(w)
    \/ CompleteChild(w)
    \/ RemoveBeforeIndex(w)
    \/ RemoveThrows(w)
    \/ RemoveFails(w)
    \/ WorkerFails(w)

Next ==
    \/ Put
    \/ Deliver
    \/ \E w \in Workers : Work(w) \/ ReduceRead(w)
    \/ Shutdown
    \/ Restart

Spec == Init /\ [][Next]_vars

(* The delivery thread keeps looping and every batch handed to a worker is *)
(* eventually answered by the datastore.  Nothing is assumed of the        *)
(* producers, of crashes or of the moment a checkpoint is due.             *)
Fairness ==
    /\ WF_vars(Deliver)
    /\ \A w \in Workers : WF_vars(Work(w))

FairSpec == Spec /\ Fairness

-----------------------------------------------------------------------------
(* The shapes of the state.                                                *)
Indices == 0 .. (MaxPuts - 1)

DeliveryType ==
    [pc : DeliverySteps, asked : Nat, taken : Nat, ret : Seq(Nat),
     returnIndex : Nat, cb : Nat, read : Nat]
WorkerType == [pc : WorkerSteps, cb : Nat, cur : Nat, events : Seq(Nat)]

(* Every field keeps its Java type; a counter below zero (one complete()   *)
(* too many) would be outside it.                                          *)
TypeOK ==
    /\ tail \in Nat /\ head \in Nat /\ nextIndex \in Nat
    /\ memoryQueue \in Seq(Nat)
    /\ batchSize \in Nat
    /\ reducing \in [Workers -> Nat] /\ reduced \subseteq Workers
    /\ running \in BOOLEAN
    /\ delivery \in DeliveryType
    /\ counter \in [CallBacks -> Nat]
    /\ finalized \in [CallBacks -> BOOLEAN]
    /\ completionIndex \in [CallBacks -> Nat]
    /\ last \in CallBacks
    /\ worker \in [Workers -> WorkerType]
    /\ faults \in Nat /\ restarts \in Nat
    /\ settled \subseteq Nat
    /\ start \in [CallBacks -> Nat]
    /\ stuck \subseteq CallBacks

(* What the checkpoint is for: removeBeforeIndex never removes an entry    *)
(* whose batch has not completed, whatever order the batches of one        *)
(* callback and of its children complete in and wherever the process dies, *)
(* so that a restart from the tail loses nothing.                          *)
CheckpointSafe == \A i \in 0 .. (tail - 1) : i \in settled

(* "Basically to keep the in memory circular queue and BigArray in sync":  *)
(* the memory queue holds the newest entries of the array, consecutively,  *)
(* and m_nextIndex is never past its head although eviction, memory reads  *)
(* and file reads all move one of the two.                                 *)
MemoryQueueInSync ==
    /\ \A k \in 1 .. Len(memoryQueue) :
          memoryQueue[k] = head - Len(memoryQueue) + k - 1
    /\ memoryQueue # <<>> => nextIndex <= Head(memoryQueue)

(* get() never asks BigArray for an index outside the array while workers  *)
(* move its tail: the IndexOutOfBounds it would throw is not caught by     *)
(* get() and would drop the events already taken for the batch.            *)
ReadInBounds == MoreToTake => ValidIndex(nextIndex)

(* Within one run of the process no event is in two batches: neither two   *)
(* workers nor a worker and the delivery thread hold the same event, and   *)
(* nothing that was handed out is still ahead of m_nextIndex.              *)
AtMostOncePerRun ==
    /\ \A v, w \in Workers :
          v # w => Elements(worker[v].events) \cap Elements(worker[w].events) = {}
    /\ \A w \in Workers :
          /\ Elements(worker[w].events) \cap Elements(delivery.ret) = {}
          /\ \A i \in Elements(worker[w].events) : i < nextIndex

(* Every event that was accepted is accounted for: it has been completed,  *)
(* it is still to be read, it is in the batch being put together, a worker *)
(* has it, or its callback can never complete, so that its entry stays for *)
(* the next process.                                                       *)
NothingForgotten ==
    \A i \in 0 .. (head - 1) :
        \/ i \in settled
        \/ i >= nextIndex
        \/ i \in Elements(delivery.ret)
        \/ \E w \in Workers : i \in Elements(worker[w].events)
        \/ \E c \in stuck : start[c] <= i

(* "The finalize method gets called always before the last call to         *)
(* complete.  No need for locking": a worker that follows m_childCallBack  *)
(* finds it set, because getCompletionCallBack runs after get() counted    *)
(* the batch.                                                              *)
ChildSetBeforeCascade ==
    \A w \in Workers : worker[w].pc = "calling" => worker[w].cur <= last

(* A finalized callback runs out only after every older one has: the       *)
(* increment a parent makes on its child holds the chain together.         *)
ReleasedInOrder ==
    \A c, d \in CallBacks :
        (c < d /\ d <= last /\ finalized[d] /\ counter[d] = 0) => counter[c] = 0

(* However many reduceBatch calls and the += of the delivery thread        *)
(* overlap, m_batchSize is never zero (the delivery thread would spin on   *)
(* empty batches) and never more than Increment - 1 above the configured   *)
(* size.  A write may be stale by several others and undo any of them; the *)
(* bound holds because what a batch posts is at most half of that batch.   *)
(* (Only for a configured size up to Increment is the bound another, twice *)
(* the increment.)                                                         *)
MaxBatchSize == IF InitialBatchSize > Increment
                THEN InitialBatchSize + Increment - 1
                ELSE 2 * Increment

BatchSizeBounded == 1 <= batchSize /\ batchSize <= MaxBatchSize

(* Once anything is in the memory queue, every event of the file, older    *)
(* ones included, is delivered and completed unless the process stops,     *)
(* whatever size the racing writes of m_batchSize leave it at and whatever *)
(* reads fail.  Those of a callback that is owed a complete() which never  *)
(* comes wait for the next process.                                        *)
ReadyEventsComplete ==
    \A i \in Indices, r \in 0 .. MaxRestarts :
        (restarts = r /\ memoryQueue # <<>> /\ i < head)
            ~> (\/ i \in settled \/ ~running \/ restarts # r
                \/ \E c \in stuck : start[c] <= i)

(* A checkpoint that was started is reached unless something fails:        *)
(* although a parent's removeBeforeIndex may throw because its child's     *)
(* went first, the tail gets to the completion index of every finalized    *)
(* callback.                                                               *)
CheckpointReached ==
    \A c \in CallBacks, r \in 0 .. MaxRestarts :
        (restarts = r /\ finalized[c])
            ~> (restarts # r \/ tail >= completionIndex[c] \/ faults # 0)

(* The events some thread of this process has and has not yet answered.    *)
HeldEvents ==
    Elements(delivery.ret) \cup UNION {Elements(worker[w].events) : w \in Workers}

Promise == INSTANCE IngestQueue WITH
    kept <- tail, accepted <- head, next <- nextIndex, held <- HeldEvents

(* The queue with its memory queue, its batches, its workers and its chain *)
(* of checkpoint callbacks keeps the promise of a persistent queue: events *)
(* are handed out in the order they were accepted and once per run of the  *)
(* process, and an entry is removed from the file only after every entry   *)
(* up to it was answered, so that a restart delivers the others again.     *)
DeliversAtLeastOnce == Promise!Spec

(* The documentation of the file backed queue: "Upon startup if there is   *)
(* data in the file backed queue it is read first and sent to the          *)
(* backend".  The delivery thread only calls get() when the memory queue   *)
(* is not empty, so this is not what the code does.                        *)
BacklogSentOnStartup ==
    \A i \in Indices :
        (restarts = 1 /\ running /\ nextIndex <= i /\ i < head)
            ~> (i \in settled \/ ~running \/ restarts # 1)

=============================================================================
