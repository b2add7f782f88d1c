---------------------------- MODULE CelixSampleQueue ----------------------------
(***************************************************************************)
(* The Celix sample queue (arraylist_sample_queue_impl.c) with the threads  *)
(* that call it, its statistics thread and its activator.                   *)
(*                                                                          *)
(* One mutex protects the list and the counters; take and takeAll wait on   *)
(* one condition variable.  put and take hold the mutex from their first to *)
(* their last access, so each pass under the mutex is one action; putAll    *)
(* and takeAll are one action for each sample, because the utilization is   *)
(* read without the mutex.  statisticsRunning is read and written without   *)
(* the mutex.                                                               *)
(***************************************************************************)
EXTENDS Integers, Sequences, FiniteSets

CONSTANTS
  Client,         \* threads that call the queue service
  Tracked,        \* clients that the framework stops before the service is gone
  BurstTaker,     \* clients that take with takeAll; the others use take
  Zeroing,        \* clients that clear their result variable before each call
  Free,           \* the mutex has no owner, or no thread has faulted
  Stat,           \* the statistics thread
  MAX_QUEUE_SIZE, \* capacity of the queue
  TakeMin,        \* arguments of takeAll (MIN_BURST_LEN, MAX_BURST_LEN)
  TakeMax,
  BurstLen,       \* bound: longest putAll
  MaxSamples      \* bound: number of samples offered

ASSUME QueueAssumption ==
  /\ MAX_QUEUE_SIZE \in Nat \ {0}
  /\ TakeMin \in Nat /\ TakeMax \in Nat
  /\ BurstLen \in Nat /\ MaxSamples \in Nat
  /\ IsFiniteSet(Client)
  /\ Tracked \subseteq Client /\ BurstTaker \subseteq Client /\ Zeroing \subseteq Client
  /\ Free \notin Client \cup {Stat}
  /\ Stat \notin Client

VARIABLES
  queue,             \* the array list, oldest sample first
  currentQueueSize,  \* the counter the utilization is computed from
  putCnt, takeCnt,   \* counters of the current statistics period
  lock,              \* owner of the mutex between the steps of a burst
  pc,                \* where each client is
  rc,                \* "ok" or "timedout": result of the last timed wait
  args,              \* samples of the client's put or putAll, <<>> for a take
  idx,               \* loop index i of putAll and takeAll
  cnt,               \* samples_added of putAll
  offered,           \* number of samples offered so far; the next is offered + 1
  retStatus,         \* status the client's last call returned
  out,               \* the client's variable that its call gets a pointer to:
                     \* samples stored by put and putAll, 1 for a sample of take
  life,              \* how far bundleActivator_stop has come
  statisticsRunning, \* the flag of the statistics thread
  statPc,            \* where the statistics thread is
  fault,             \* thread that used a NULL list or freed memory, or Free
  accepted, taken,   \* history: samples stored, samples removed
  reported           \* history: sums of the printed counters

queueVars  == <<queue, currentQueueSize, accepted, taken>>
countVars  == <<putCnt, takeCnt, reported>>
retVars    == <<retStatus, out>>
clientVars == <<pc, rc, args, idx, cnt, retVars>>
ownerVars  == <<life, statisticsRunning, statPc>>
vars == <<queueVars, countVars, clientVars, ownerVars, lock, offered, fault>>

(* The array list exists (queue != NULL) until sampleQueue_destroy drops it. *)
open == life \in {"registered", "unregistered", "stopping"}

Sample == 1..MaxSamples

Waiting == {"takeWait", "takeAllWait"}
InCall == {"put", "putAll", "putAllLoop", "take", "takeAll", "takeAllLoop"} \cup Waiting
Status == {"SUCCESS", "ENOMEM", "BUNDLE_EXCEPTION", "ILLEGAL_STATE"}

(* sampleQueue_create: empty list, counters zero, statistics thread created  *)
(* but not yet running; the activator has registered the service.            *)
Init ==
  /\ queue = <<>> /\ currentQueueSize = 0
  /\ putCnt = 0 /\ takeCnt = 0
  /\ lock = Free
  /\ pc = [c \in Client |-> "idle"]
  /\ rc = [c \in Client |-> "ok"]
  /\ args = [c \in Client |-> <<>>]
  /\ idx = [c \in Client |-> 0]
  /\ cnt = [c \in Client |-> 0]
  /\ offered = 0
  /\ retStatus = [c \in Client |-> "SUCCESS"]
  /\ out = [c \in Client |-> 0]
  /\ life = "registered" /\ statisticsRunning = FALSE /\ statPc = "start"
  /\ fault = Free
  /\ accepted = <<>> /\ taken = <<>>
  /\ reported = [put |-> 0, take |-> 0]

-----------------------------------------------------------------------------
(* Calls.                                                                     *)

Call(c, op, samples, before) ==
  /\ pc[c] = "idle" /\ life = "registered"
  /\ out' = [out EXCEPT ![c] = before]
  /\ pc' = [pc EXCEPT ![c] = op]
  /\ rc' = [rc EXCEPT ![c] = "ok"]
  /\ args' = [args EXCEPT ![c] = samples]
  /\ idx' = [idx EXCEPT ![c] = 0]
  /\ cnt' = [cnt EXCEPT ![c] = 0]
  /\ offered' = offered + Len(samples)
  /\ UNCHANGED <<queueVars, countVars, ownerVars, lock, retStatus, fault>>

(* What the result variable holds when the call begins: 0 where the caller   *)
(* clears it, as producer_impl.c does; anything that fits where it does not. *)
Before(c, n) == IF c \in Zeroing THEN {0} ELSE 0..n

(* A caller offers the next n samples; their identities are the time stamps. *)
Offer(n) == [i \in 1..n |-> offered + i]

CallPut(c) ==
  /\ offered < MaxSamples
  /\ \E before \in Before(c, 1) : Call(c, "put", Offer(1), before)
CallPutAll(c) ==
  \E n \in 1..BurstLen :
    /\ offered + n <= MaxSamples
    /\ \E before \in Before(c, n) : Call(c, "putAll", Offer(n), before)
CallTake(c) ==
  /\ c \notin BurstTaker
  /\ \E before \in Before(c, 1) : Call(c, "take", <<>>, before)
(* takeAll has a buffer for the samples and no variable for their number. *)
CallTakeAll(c) == c \in BurstTaker /\ Call(c, "takeAll", <<>>, 0)

(* The call of c returns, having written n to the variable of its caller; a  *)
(* path that does not write it leaves out[c] there.                          *)
Answer(c, status, n) ==
  /\ retStatus' = [retStatus EXCEPT ![c] = status]
  /\ out' = [out EXCEPT ![c] = n]

Return(c, status, n) ==
  /\ pc' = [pc EXCEPT ![c] = "idle"]
  /\ Answer(c, status, n)

(* The mutex of a queue that still exists can be locked by the next thread.  *)
(* Between pthread_mutex_destroy and free a lock attempt fails and the       *)
(* caller goes on; it finds the list gone, as it would with the mutex held.  *)
Lockable == life # "freed" /\ lock = Free

(* pthread_cond_signal wakes one waiter, if there is one; pcs is what the    *)
(* rest of the action makes of the program counters.                         *)
Waiter == {c \in Client : pc[c] \in Waiting}
Woken(p) == CASE p = "takeWait" -> "take" [] p = "takeAllWait" -> "takeAll" [] OTHER -> p
(* Faulty: signals only when the queue was empty. *)
SignalFirstOnly(pcs) ==
  IF Waiter = {} \/ queue # <<>> THEN pc' = pcs
  ELSE \E w \in Waiter : pc' = [pcs EXCEPT ![w] = Woken(pc[w])]
Signal(pcs) ==
  IF Waiter = {} THEN pc' = pcs
  ELSE \E w \in Waiter : pc' = [pcs EXCEPT ![w] = Woken(pc[w])]

(* A copy of the sample is added to the list. *)
Store(s) ==
  /\ queue' = Append(queue, s)
  /\ accepted' = Append(accepted, s)
  /\ currentQueueSize' = currentQueueSize + 1
  /\ UNCHANGED taken

(* Faulty: the newest sample leaves the list. *)
RemoveNewest ==
  /\ queue' = SubSeq(queue, 1, Len(queue) - 1)
  /\ taken' = Append(taken, queue[Len(queue)])

(* The oldest sample leaves the list. *)
Remove ==
  /\ queue' = Tail(queue)
  /\ taken' = Append(taken, Head(queue))

-----------------------------------------------------------------------------
(* sampleQueue_put *)

(* There is room: the copy is stored and a waiter signalled, or the list     *)
(* refuses the copy (success, and *sampleTaken says that nothing was taken), *)
(* or calloc fails (ENOMEM, *sampleTaken is not written).                    *)
PutStore(c) ==
  /\ pc[c] = "put" /\ Lockable /\ open
  /\ Len(queue) < MAX_QUEUE_SIZE
  /\ \/ /\ Store(Head(args[c]))
        /\ putCnt' = putCnt + 1
        /\ Signal([pc EXCEPT ![c] = "idle"])
        /\ Answer(c, "SUCCESS", 1)
     \/ /\ Return(c, "SUCCESS", 0) \/ Return(c, "ENOMEM", out[c])
        /\ UNCHANGED <<queueVars, putCnt>>
  /\ UNCHANGED <<takeCnt, reported, rc, args, idx, cnt, ownerVars, lock, offered, fault>>

(* The queue is full: success, nothing is taken and nothing written. *)
PutFull(c) ==
  /\ pc[c] = "put" /\ Lockable /\ open
  /\ Len(queue) >= MAX_QUEUE_SIZE
  /\ Return(c, "SUCCESS", out[c])
  /\ UNCHANGED <<queueVars, countVars, rc, args, idx, cnt, ownerVars, lock, offered, fault>>

(* put, putAll and takeAll find the list gone and answer ILLEGAL_STATE; they *)
(* write nothing.                                                            *)
Denied(c) ==
  /\ pc[c] \in {"put", "putAll", "takeAll"} /\ Lockable /\ ~open
  /\ Return(c, "ILLEGAL_STATE", out[c])
  /\ UNCHANGED <<queueVars, countVars, rc, args, idx, cnt, ownerVars, lock, offered, fault>>

-----------------------------------------------------------------------------
(* sampleQueue_putAll *)

PutAllLock(c) ==
  /\ pc[c] = "putAll" /\ Lockable /\ open
  /\ lock' = c
  /\ pc' = [pc EXCEPT ![c] = "putAllLoop"]
  /\ UNCHANGED <<queueVars, countVars, rc, args, idx, cnt, retVars, ownerVars, offered, fault>>

(* Faulty: the burst loop forgets the capacity. *)
PutAllMoreUnbounded(c) == idx[c] < Len(args[c])

PutAllMore(c) == idx[c] < Len(args[c]) /\ Len(queue) < MAX_QUEUE_SIZE

(* One round of the loop: the sample is stored and a waiter signalled, or    *)
(* the list refuses it and the loop goes on with the next one.               *)
PutAllStep(c) ==
  /\ pc[c] = "putAllLoop" /\ PutAllMore(c)
  /\ idx' = [idx EXCEPT ![c] = @ + 1]
  /\ \/ /\ Store(args[c][idx[c] + 1])
        /\ cnt' = [cnt EXCEPT ![c] = @ + 1]
        /\ Signal(pc)
     \/ UNCHANGED <<queueVars, cnt, pc>>
  /\ UNCHANGED <<countVars, rc, args, retVars, ownerVars, lock, offered, fault>>

(* The loop ends because calloc fails, the burst is stored or the queue is   *)
(* full; a burst that was not stored completely is an error.                 *)
PutAllStatus(c) == IF cnt[c] = Len(args[c]) THEN "SUCCESS" ELSE "BUNDLE_EXCEPTION"

(* Faulty: reports the samples looked at, not the samples added. *)
PutAllEndIndex(c) ==
  /\ pc[c] = "putAllLoop"
  /\ \/ PutAllMore(c) /\ Return(c, "ENOMEM", idx[c])
     \/ ~PutAllMore(c) /\ Return(c, PutAllStatus(c), idx[c])
  /\ putCnt' = putCnt + cnt[c]
  /\ lock' = Free
  /\ UNCHANGED <<queueVars, takeCnt, reported, rc, args, idx, cnt, ownerVars, offered, fault>>

(* Faulty: leaves on the failed calloc without unlocking. *)
PutAllEndLocked(c) ==
  /\ pc[c] = "putAllLoop"
  /\ \/ PutAllMore(c) /\ Return(c, "ENOMEM", cnt[c]) /\ UNCHANGED lock
     \/ ~PutAllMore(c) /\ Return(c, PutAllStatus(c), cnt[c]) /\ lock' = Free
  /\ putCnt' = putCnt + cnt[c]
  /\ UNCHANGED <<queueVars, takeCnt, reported, rc, args, idx, cnt, ownerVars, offered, fault>>

PutAllEnd(c) ==
  /\ pc[c] = "putAllLoop"
  /\ \/ PutAllMore(c) /\ Return(c, "ENOMEM", cnt[c])
     \/ ~PutAllMore(c) /\ Return(c, PutAllStatus(c), cnt[c])
  /\ putCnt' = putCnt + cnt[c]
  /\ lock' = Free
  /\ UNCHANGED <<queueVars, takeCnt, reported, rc, args, idx, cnt, ownerVars, offered, fault>>

-----------------------------------------------------------------------------
(* sampleQueue_take *)

TakeWait(c) ==
  /\ pc[c] = "take" /\ Lockable /\ open
  /\ queue = <<>> /\ rc[c] = "ok"
  /\ pc' = [pc EXCEPT ![c] = "takeWait"]
  /\ UNCHANGED <<queueVars, countVars, rc, args, idx, cnt, retVars, ownerVars, lock, offered, fault>>

TakeSample(c) ==
  /\ pc[c] = "take" /\ Lockable /\ open
  /\ queue # <<>> /\ rc[c] = "ok"
  /\ Remove
  /\ takeCnt' = takeCnt + 1
  /\ currentQueueSize' = currentQueueSize - 1
  /\ Return(c, "SUCCESS", 1)
  /\ UNCHANGED <<accepted, putCnt, reported, rc, args, idx, cnt, ownerVars, lock, offered, fault>>

(* After a timeout an empty queue is a success with NULL for the sample; a   *)
(* queue that has been filled meanwhile leaves the initial status            *)
(* ILLEGAL_STATE, and the variable as it was.                                *)
TakeTimedOut(c) ==
  /\ pc[c] = "take" /\ Lockable /\ open
  /\ rc[c] = "timedout"
  /\ \/ queue = <<>> /\ Return(c, "SUCCESS", 0)
     \/ queue # <<>> /\ Return(c, "ILLEGAL_STATE", out[c])
  /\ UNCHANGED <<queueVars, countVars, rc, args, idx, cnt, ownerVars, lock, offered, fault>>

-----------------------------------------------------------------------------
(* sampleQueue_takeAll *)

TakeAllWait(c) ==
  /\ pc[c] = "takeAll" /\ Lockable /\ open
  /\ Len(queue) < TakeMin /\ rc[c] = "ok"
  /\ pc' = [pc EXCEPT ![c] = "takeAllWait"]
  /\ UNCHANGED <<queueVars, countVars, rc, args, idx, cnt, retVars, ownerVars, lock, offered, fault>>

TakeAllLock(c) ==
  /\ pc[c] = "takeAll" /\ Lockable /\ open
  /\ Len(queue) >= TakeMin /\ rc[c] = "ok"
  /\ lock' = c
  /\ pc' = [pc EXCEPT ![c] = "takeAllLoop"]
  /\ UNCHANGED <<queueVars, countVars, rc, args, idx, cnt, retVars, ownerVars, offered, fault>>

TakeAllTimedOut(c) ==
  /\ pc[c] = "takeAll" /\ Lockable /\ open
  /\ rc[c] = "timedout"
  /\ Return(c, "ILLEGAL_STATE", out[c])
  /\ UNCHANGED <<queueVars, countVars, rc, args, idx, cnt, ownerVars, lock, offered, fault>>

TakeAllMore(c) == idx[c] < TakeMax /\ queue # <<>>

TakeAllStep(c) ==
  /\ pc[c] = "takeAllLoop" /\ TakeAllMore(c)
  /\ Remove
  /\ idx' = [idx EXCEPT ![c] = @ + 1]
  /\ UNCHANGED <<accepted, currentQueueSize, countVars, pc, rc, args, cnt, retVars,
                 ownerVars, lock, offered, fault>>

(* Faulty: the samples removed are not counted down. *)
TakeAllEndUncounted(c) ==
  /\ pc[c] = "takeAllLoop" /\ ~TakeAllMore(c)
  /\ takeCnt' = takeCnt + idx[c]
  /\ Return(c, "SUCCESS", out[c])
  /\ lock' = Free
  /\ UNCHANGED <<queue, accepted, taken, currentQueueSize, putCnt, reported, rc, args, idx,
                 cnt, ownerVars, offered, fault>>

(* Both counters follow only after the loop; no number is returned. *)
TakeAllEnd(c) ==
  /\ pc[c] = "takeAllLoop" /\ ~TakeAllMore(c)
  /\ takeCnt' = takeCnt + idx[c]
  /\ currentQueueSize' = currentQueueSize - idx[c]
  /\ Return(c, "SUCCESS", out[c])
  /\ lock' = Free
  /\ UNCHANGED <<queue, accepted, taken, putCnt, reported, rc, args, idx, cnt, ownerVars,
                 offered, fault>>

-----------------------------------------------------------------------------
(* pthread_cond_timedwait ends without a signal: the absolute deadline has   *)
(* passed, or spuriously.                                                    *)

(* Faulty: the result of the timed wait is dropped, so the loop waits again. *)
TimeoutIgnored(c) ==
  /\ pc[c] \in Waiting
  /\ pc' = [pc EXCEPT ![c] = Woken(@)]
  /\ UNCHANGED <<queueVars, countVars, rc, args, idx, cnt, retVars, ownerVars, lock, offered, fault>>

Timeout(c) ==
  /\ pc[c] \in Waiting
  /\ pc' = [pc EXCEPT ![c] = Woken(@)]
  /\ rc' = [rc EXCEPT ![c] = "timedout"]
  /\ UNCHANGED <<queueVars, countVars, args, idx, cnt, retVars, ownerVars, lock, offered, fault>>

SpuriousWake(c) ==
  /\ pc[c] \in Waiting
  /\ pc' = [pc EXCEPT ![c] = Woken(@)]
  /\ UNCHANGED <<queueVars, countVars, rc, args, idx, cnt, retVars, ownerVars, lock, offered, fault>>

(* take asks a NULL list for its size; any call that comes for the mutex of  *)
(* a freed queue uses freed memory.                                          *)
ClientFault(c) ==
  /\ \/ pc[c] = "take" /\ Lockable /\ ~open
     \/ pc[c] \in InCall /\ life = "freed"
  /\ fault' = c
  /\ UNCHANGED <<queueVars, countVars, clientVars, ownerVars, lock, offered>>

-----------------------------------------------------------------------------
(* printStatistics *)

StatStart ==
  /\ statPc = "start"
  /\ statisticsRunning' = TRUE
  /\ statPc' = "check"
  /\ UNCHANGED <<queueVars, countVars, clientVars, life, lock, offered, fault>>

StatCheck ==
  /\ statPc = "check"
  /\ statPc' = IF statisticsRunning THEN "report" ELSE "exited"
  /\ UNCHANGED <<queueVars, countVars, clientVars, life, statisticsRunning, lock,
                 offered, fault>>

(* Faulty: only one of the counters starts again. *)
StatReportKeep ==
  /\ statPc = "report" /\ Lockable /\ open
  /\ reported' = [put |-> reported.put + putCnt, take |-> reported.take + takeCnt]
  /\ putCnt' = 0
  /\ statPc' = "check"
  /\ UNCHANGED <<queueVars, takeCnt, clientVars, life, statisticsRunning, lock, offered, fault>>

StatReport ==
  /\ statPc = "report" /\ Lockable /\ open
  /\ reported' = [put |-> reported.put + putCnt, take |-> reported.take + takeCnt]
  /\ putCnt' = 0 /\ takeCnt' = 0
  /\ statPc' = "check"
  /\ UNCHANGED <<queueVars, clientVars, life, statisticsRunning, lock, offered, fault>>

(* The size of the list is printed without asking whether there is a list. *)
StatFault ==
  /\ statPc = "report" /\ Lockable /\ ~open
  /\ fault' = Stat
  /\ UNCHANGED <<queueVars, countVars, clientVars, ownerVars, lock, offered>>

-----------------------------------------------------------------------------
(* bundleActivator_stop and sampleQueue_destroy *)

Unregister ==
  /\ life = "registered"
  /\ life' = "unregistered"
  /\ UNCHANGED <<queueVars, countVars, clientVars, statisticsRunning, statPc, lock, offered, fault>>

(* Faulty: does not wait for the users. *)
DestroyEarly ==
  /\ life = "unregistered"
  /\ statisticsRunning' = FALSE
  /\ life' = "stopping"
  /\ UNCHANGED <<queueVars, countVars, clientVars, statPc, lock, offered, fault>>

(* serviceRegistration_unregister returns when the trackers of the queue     *)
(* have joined the threads that use it.                                      *)
DestroyBegin ==
  /\ life = "unregistered" /\ \A c \in Tracked : pc[c] = "idle"
  /\ statisticsRunning' = FALSE
  /\ life' = "stopping"
  /\ UNCHANGED <<queueVars, countVars, clientVars, statPc, lock, offered, fault>>

DestroyList ==
  /\ life = "stopping" /\ lock = Free
  /\ queue' = <<>>
  /\ pc' = [c \in Client |-> Woken(pc[c])]
  /\ life' = "closed"
  /\ UNCHANGED <<currentQueueSize, accepted, taken, countVars, rc, args, idx, cnt, retVars,
                 statisticsRunning, statPc, lock, offered, fault>>

(* pthread_join of the statistics thread, then free. *)
DestroyFree ==
  /\ life = "closed" /\ statPc = "exited"
  /\ life' = "freed"
  /\ UNCHANGED <<queueVars, countVars, clientVars, statisticsRunning, statPc, lock, offered, fault>>

-----------------------------------------------------------------------------
NewCall(c) == CallPut(c) \/ CallPutAll(c) \/ CallTake(c) \/ CallTakeAll(c)

Progress(c) ==
  \/ PutStore(c) \/ PutFull(c) \/ Denied(c)
  \/ PutAllLock(c) \/ PutAllStep(c) \/ PutAllEnd(c)
  \/ TakeWait(c) \/ TakeSample(c) \/ TakeTimedOut(c)
  \/ TakeAllWait(c) \/ TakeAllLock(c) \/ TakeAllTimedOut(c) \/ TakeAllStep(c) \/ TakeAllEnd(c)
  \/ ClientFault(c)

StatStep == StatStart \/ StatCheck \/ StatReport \/ StatFault
DestroyStep == DestroyBegin \/ DestroyList \/ DestroyFree

(* The process has crashed, or the queue is gone and nobody uses it. *)
Ended == fault # Free \/ (life = "freed" /\ \A c \in Client : pc[c] = "idle")

Next ==
  \/ /\ fault = Free
     /\ \/ \E c \in Client : NewCall(c) \/ Progress(c) \/ Timeout(c) \/ SpuriousWake(c)
        \/ StatStep
        \/ Unregister \/ DestroyStep
  \/ Ended /\ UNCHANGED vars

Spec == Init /\ [][Next]_vars

(* Threads that can run do run.  The deadline of a timed wait is computed    *)
(* once, before the first wait, so wake-ups cannot postpone it for ever.     *)
FairSpec ==
  /\ Spec
  /\ \A c \in Client : WF_vars(fault = Free /\ Progress(c)) /\ SF_vars(fault = Free /\ Timeout(c))
  /\ WF_vars(fault = Free /\ StatStep)
  /\ WF_vars(fault = Free /\ DestroyStep)

-----------------------------------------------------------------------------
QueueTypeOK ==
  /\ queue \in Seq(Sample) /\ accepted \in Seq(Sample) /\ taken \in Seq(Sample)
  /\ args \in [Client -> Seq(Sample)]
  /\ offered \in 0..MaxSamples
CountTypeOK ==
  /\ currentQueueSize \in Int
  /\ putCnt \in Nat /\ takeCnt \in Nat /\ reported \in [put : Nat, take : Nat]
  /\ idx \in [Client -> Nat] /\ cnt \in [Client -> Nat]
ControlTypeOK ==
  /\ pc \in [Client -> InCall \cup {"idle"}]
  /\ rc \in [Client -> {"ok", "timedout"}]
  /\ retStatus \in [Client -> Status] /\ out \in [Client -> Nat]
  /\ lock \in Client \cup {Free}
  /\ fault \in Client \cup {Free, Stat}
OwnerTypeOK ==
  /\ life \in {"registered", "unregistered", "stopping", "closed", "freed"}
  /\ statPc \in {"start", "check", "report", "exited"}
  /\ statisticsRunning \in BOOLEAN

TypeOK == QueueTypeOK /\ CountTypeOK /\ ControlTypeOK /\ OwnerTypeOK

(* What the queue promises its users: see BoundedFifo. *)
Fifo == INSTANCE BoundedFifo
          WITH Capacity <- MAX_QUEUE_SIZE, fifo <- queue, delivered <- taken

(* Every step of every thread is a step of a bounded first-in first-out      *)
(* queue: nothing is stored beyond MAX_QUEUE_SIZE, reordered, stored in a    *)
(* closed queue or taken out twice.                                          *)
ImplementsFifo == Fifo!FifoSpec

(* No sample that put or putAll accepted is lost, duplicated or overtaken    *)
(* while the list exists.                                                    *)
SamplesConserved == Fifo!Conservation

(* Samples the owner of the mutex has moved but not yet counted. *)
Uncounted(loop, moved) ==
  IF lock # Free /\ pc[lock] = loop THEN moved[lock] ELSE 0

(* currentQueueSize, which the utilization reader uses without the mutex, is *)
(* the size of the list whenever no takeAll is at work, and only lags behind *)
(* by the samples a takeAll at work has removed.                             *)
SizeConsistent ==
  open => currentQueueSize = Len(queue) + Uncounted("takeAllLoop", idx)

(* getUtilizationStatsValue: the stored share of the capacity. *)
UtilizationStatsValue == [stored |-> currentQueueSize, of |-> MAX_QUEUE_SIZE]

(* The unsynchronised reader of the utilization never sees less than 0 % or  *)
(* more than 100 %, whatever the other threads are doing, even while the     *)
(* queue is being destroyed.                                                 *)
UtilizationInRange ==
  0 <= UtilizationStatsValue.stored /\ UtilizationStatsValue.stored <= UtilizationStatsValue.of

(* The periods printed by the statistics thread add up: every accepted and   *)
(* every removed sample is counted in exactly one period.                    *)
StatisticsComplete ==
  /\ Len(accepted) = reported.put + putCnt + Uncounted("putAllLoop", cnt)
  /\ Len(taken) = reported.take + takeCnt + Uncounted("takeAllLoop", idx)

(* The samples of the last put or putAll of c that were stored, by position. *)
Stored(c) == {i \in DOMAIN args[c] : \E j \in DOMAIN accepted : accepted[j] = args[c][i]}

(* What the caller of put or putAll finds in its variable after the call is  *)
(* the number of its samples that were stored if the caller had cleared the  *)
(* variable, if anything was stored, or if a putAll was not denied: put      *)
(* writes the variable only when it has a copy of the sample, putAll only    *)
(* when there is a list.  putAll reports success only for a complete burst,  *)
(* and a denied call has stored nothing.                                     *)
PutReportsTruth ==
  \A c \in Client :
    pc[c] = "idle" /\ args[c] # <<>> =>
      /\ (\/ c \in Zeroing
          \/ Stored(c) # {}
          \/ Len(args[c]) > 1 /\ retStatus[c] # "ILLEGAL_STATE")
           => out[c] = Cardinality(Stored(c))
      /\ Len(args[c]) > 1 /\ retStatus[c] = "SUCCESS" => Stored(c) = DOMAIN args[c]
      /\ retStatus[c] = "ILLEGAL_STATE" => Stored(c) = {}

(* The strengthening that makes the invariants above inductive: a put comes  *)
(* with a sample, a burst starts counting at zero, the mutex is owned by the *)
(* client inside a burst and by nobody else, nobody is inside one once the   *)
(* list is gone, and the counter stays within the capacity.                  *)
PutHasSample == \A c \in Client : pc[c] = "put" => args[c] # <<>>
BurstFresh ==
  \A c \in Client : pc[c] \in {"putAll", "takeAll", "takeAllWait"} => idx[c] = 0 /\ cnt[c] = 0
LockOwner == \A c \in Client : pc[c] \in {"putAllLoop", "takeAllLoop"} <=> lock = c
ClosedUnlocked == ~open => lock = Free
SizeInRange == Len(queue) <= MAX_QUEUE_SIZE /\ currentQueueSize \in 0..MAX_QUEUE_SIZE

IInv ==
  /\ TypeOK
  /\ PutHasSample /\ BurstFresh /\ LockOwner /\ ClosedUnlocked
  /\ SizeInRange /\ SizeConsistent

(* What PutReportsTruth rests on.  No sample is offered twice, neither by    *)
(* two callers nor in two places of one burst.                               *)
OfferedOnce ==
  /\ \A j \in DOMAIN accepted : accepted[j] <= offered
  /\ \A c \in Client : \A i \in DOMAIN args[c] : args[c][i] <= offered
  /\ \A c, d \in Client : \A i \in DOMAIN args[c], k \in DOMAIN args[d] :
       args[c][i] = args[d][k] => c = d /\ i = k
(* A call that offers samples has stored none before its first pass under    *)
(* the mutex, and a burst counts the ones it has stored up to its index.     *)
PutCounts ==
  \A c \in Client :
    /\ pc[c] \notin {"idle", "put", "putAll", "putAllLoop"} => args[c] = <<>>
    /\ pc[c] = "put" => Len(args[c]) = 1
    /\ pc[c] \in {"put", "putAll"} => Stored(c) = {} /\ (c \in Zeroing => out[c] = 0)
    /\ pc[c] = "putAllLoop" => /\ idx[c] <= Len(args[c])
                               /\ Stored(c) \subseteq 1..idx[c]
                               /\ cnt[c] = Cardinality(Stored(c))

(* Takers that have been woken, or have just arrived, and will look at the   *)
(* queue before they wait. *)
Alert == {c \in Client : pc[c] = "take" /\ rc[c] = "ok"}

(* One signal per stored sample is enough for clients that take one sample   *)
(* at a time: while one of them waits, each stored sample has a taker that   *)
(* is about to look for it.                                                  *)
NoLostWakeup == BurstTaker = {} /\ Waiter # {} => Len(queue) <= Cardinality(Alert)

(* What NoLostWakeup rests on: a waiter has not timed out, and only clients  *)
(* of takeAll are inside takeAll.                                            *)
WaitersInTime == \A c \in Client : pc[c] \in Waiting => rc[c] = "ok"
TakeAllByBurstTaker ==
  \A c \in Client : pc[c] \in {"takeAll", "takeAllWait", "takeAllLoop"} => c \in BurstTaker

(* Unregistering the service before destroying the queue protects every      *)
(* tracked user: none of them reaches a NULL list or freed memory.           *)
TrackedNeverFault == fault \notin Tracked

(* ... because none of them is inside the queue from then on. *)
TrackedGone ==
  life \in {"stopping", "closed", "freed"} => \A c \in Tracked : pc[c] = "idle"

(* Every call returns, at the latest after its timeout, unless the process   *)
(* has crashed.                                                              *)
CallsReturn == \A c \in Client : pc[c] # "idle" ~> pc[c] = "idle" \/ fault # Free

(* Once the statistics thread has started, a destroy that has begun ends:    *)
(* the thread sees the cleared flag (or faults), so the join returns.        *)
DestroyEnds == life = "stopping" /\ statPc # "start" ~> life = "freed" \/ fault # Free

================================================================================
