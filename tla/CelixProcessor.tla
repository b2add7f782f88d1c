---------------------------- MODULE CelixProcessor ----------------------------
(***************************************************************************)
(* The Celix processor (processor_impl.c and its activator): one thread for *)
(* each tracked queue service takes bursts of samples and sends the result  *)
(* of each sample to every tracked data store; remote callers read the      *)
(* throughput; the framework adds and removes services of both kinds and    *)
(* stops the bundle.                                                        *)
(*                                                                          *)
(* queueLock and dataStoreLock are read-write locks that prefer writers.    *)
(* The removed callback of a queue holds queueLock while it joins the       *)
(* thread; a thread holds dataStoreLock while it walks over the list of     *)
(* data stores.  running and burst_throughput are read without a common     *)
(* lock.  SINGLE_SAMPLES_PER_SEC is 0: processor_receiveSamples and its     *)
(* share of the statistic are never executed and have no action.            *)
(***************************************************************************)
EXTENDS Integers, SequencesExt

CONSTANTS
  Queue,                 \* queue services; the thread of a service has its name
  DataStore,             \* data store services
  Client,                \* threads that call the statistics service
  Nobody,                \* nobody holds queueLock for writing
  BURST_SAMPLES_PER_SEC,
  MAX_BURST_LEN,
  MaxAppear              \* bound: how often data stores appear

ASSUME ProcessorAssumption ==
  /\ IsFiniteSet(Queue) /\ Nobody \notin Queue
  /\ BURST_SAMPLES_PER_SEC \in Nat \ {0} /\ MAX_BURST_LEN \in Nat \ {0}
  /\ MaxAppear \in Nat

VARIABLES
  queueServices,         \* services in the hash map; their thread data exist
  writer,                \* service whose removal holds queueLock for writing
  readers,               \* callers that hold queueLock for reading
  tracking,              \* what the framework is doing with each queue service
  dataStoreServices,     \* the array list of data stores
  dsReaders,             \* threads that hold dataStoreLock for reading
  dsTracking,            \* what the framework is doing with each data store
  appeared,              \* how often data stores have appeared
  life,                  \* state of the bundle
  thPc,                  \* where the thread of each service is
  running, burst_throughput,  \* thread data
  received,              \* burstSampleCnt of the running second
  numOfRecvSamples, j,   \* length of the burst, index of its loop
  i,                     \* index of the loop over the data stores
  given,                 \* history: data stores called with the current result
  clPc, todo, total      \* callers: operation, iterator, sum

dataVars   == <<running, burst_throughput>>
burstVars  == <<received, numOfRecvSamples, j>>
sendVars   == <<i, given>>
clientVars == <<clPc, todo, total>>
queueVars  == <<queueServices, writer, tracking>>
storeVars  == <<dataStoreServices, dsTracking, appeared>>
vars == <<dataVars, burstVars, sendVars, thPc, clientVars, queueVars, storeVars, life, readers, dsReaders>>

ThreadPc == {"none", "start", "check", "bursts", "takeAll", "process", "sendLock", "send", "store",
             "burstsDone", "exited"}

(* processor_create, and the activator has opened both trackers. *)
Init ==
  /\ queueServices = {} /\ writer = Nobody /\ readers = {}
  /\ tracking = [q \in Queue |-> "idle"]
  /\ dataStoreServices = <<>> /\ dsReaders = {}
  /\ dsTracking = [d \in DataStore |-> "idle"] /\ appeared = 0
  /\ life = "started"
  /\ thPc = [q \in Queue |-> "none"]
  /\ running = [q \in Queue |-> FALSE] /\ burst_throughput = [q \in Queue |-> 0]
  /\ received = [q \in Queue |-> 0]
  /\ numOfRecvSamples = [q \in Queue |-> 0] /\ j = [q \in Queue |-> 0]
  /\ i = [q \in Queue |-> 0] /\ given = [q \in Queue |-> <<>>]
  /\ clPc = [c \in Client |-> "idle"] /\ todo = [c \in Client |-> {}] /\ total = [c \in Client |-> 0]

-----------------------------------------------------------------------------
(* The locks.  A writer that waits keeps new readers out.                     *)

Writable == writer = Nobody /\ readers = {}
(* Faulty: a reader does not wait for a writer. *)
ReadableWithWriter == TRUE
Readable == writer = Nobody /\ \A q \in Queue : tracking[q] \notin {"adding", "removing"}

(* Faulty: a writer does not wait for the readers of the list. *)
StoresWritableWithReaders == TRUE
StoresWritable == dsReaders = {}
(* Faulty: the lock prefers readers. *)
StoresReadablePreferred == TRUE
StoresReadable == \A d \in DataStore : dsTracking[d] \notin {"adding", "removing"}

-----------------------------------------------------------------------------
(* processor_receive, the thread of queue service q.                          *)

ReceiveStart(q) ==
  /\ thPc[q] = "start"
  /\ running' = [running EXCEPT ![q] = TRUE]
  /\ thPc' = [thPc EXCEPT ![q] = "check"]
  /\ UNCHANGED <<burst_throughput, burstVars, sendVars, clientVars, queueVars, storeVars, life,
                 readers, dsReaders>>

(* The status is always success: the service is never NULL. *)
ReceiveCheck(q) ==
  /\ thPc[q] = "check"
  /\ thPc' = [thPc EXCEPT ![q] = IF running[q] THEN "bursts" ELSE "exited"]
  /\ received' = [received EXCEPT ![q] = 0]
  /\ UNCHANGED <<dataVars, numOfRecvSamples, j, sendVars, clientVars, queueVars, storeVars, life,
                 readers, dsReaders>>

(* Faulty: takes once more after the samples of the second. *)
BurstsNextOneMore(q) ==
  /\ thPc[q] = "bursts"
  /\ thPc' = [thPc EXCEPT ![q] = IF received[q] <= BURST_SAMPLES_PER_SEC THEN "takeAll" ELSE "burstsDone"]
  /\ UNCHANGED <<dataVars, burstVars, sendVars, clientVars, queueVars, storeVars, life, readers, dsReaders>>

(* processor_receiveBursts: the next takeAll, or sleeping until the second   *)
(* has passed.                                                               *)
BurstsNext(q) ==
  /\ thPc[q] = "bursts"
  /\ thPc' = [thPc EXCEPT ![q] = IF received[q] < BURST_SAMPLES_PER_SEC THEN "takeAll" ELSE "burstsDone"]
  /\ UNCHANGED <<dataVars, burstVars, sendVars, clientVars, queueVars, storeVars, life, readers, dsReaders>>

(* The loop goes on unless its second has passed. *)
NextRound(q) == \E next \in {"bursts", "burstsDone"} : thPc' = [thPc EXCEPT ![q] = next]

(* takeAll fails, or answers with some samples (none if there is no sequence). *)
TakeAllReturn(q) ==
  /\ thPc[q] = "takeAll"
  /\ \/ NextRound(q) /\ UNCHANGED burstVars
     \/ /\ thPc' = [thPc EXCEPT ![q] = "process"]
        /\ \E n \in 0..MAX_BURST_LEN : numOfRecvSamples' = [numOfRecvSamples EXCEPT ![q] = n]
        /\ j' = [j EXCEPT ![q] = 0]
        /\ UNCHANGED received
  /\ UNCHANGED <<dataVars, sendVars, clientVars, queueVars, storeVars, life, readers, dsReaders>>

(* The next sample is processed; without memory for its result it is skipped. *)
ProcessSample(q) ==
  /\ thPc[q] = "process" /\ j[q] < numOfRecvSamples[q]
  /\ \/ thPc' = [thPc EXCEPT ![q] = "sendLock"] /\ UNCHANGED j
     \/ j' = [j EXCEPT ![q] = @ + 1] /\ UNCHANGED thPc
  /\ UNCHANGED <<dataVars, received, numOfRecvSamples, sendVars, clientVars, queueVars, storeVars, life,
                 readers, dsReaders>>

ProcessEnd(q) ==
  /\ thPc[q] = "process" /\ j[q] >= numOfRecvSamples[q]
  /\ received' = [received EXCEPT ![q] = @ + j[q]]
  /\ numOfRecvSamples' = [numOfRecvSamples EXCEPT ![q] = 0] /\ j' = [j EXCEPT ![q] = 0]
  /\ NextRound(q)
  /\ UNCHANGED <<dataVars, sendVars, clientVars, queueVars, storeVars, life, readers, dsReaders>>

(* processor_sendResult *)
SendLock(q) ==
  /\ thPc[q] = "sendLock" /\ StoresReadable
  /\ dsReaders' = dsReaders \cup {q}
  /\ thPc' = [thPc EXCEPT ![q] = "send"]
  /\ UNCHANGED <<dataVars, burstVars, sendVars, clientVars, queueVars, storeVars, life, readers>>

SendNext(q) ==
  /\ thPc[q] = "send" /\ i[q] < Len(dataStoreServices)
  /\ given' = [given EXCEPT ![q] = Append(@, dataStoreServices[i[q] + 1])]
  /\ thPc' = [thPc EXCEPT ![q] = "store"]
  /\ UNCHANGED <<dataVars, burstVars, i, clientVars, queueVars, storeVars, life, readers, dsReaders>>

(* An error of the store is logged only. *)
StoreReturn(q) ==
  /\ thPc[q] = "store"
  /\ i' = [i EXCEPT ![q] = @ + 1]
  /\ thPc' = [thPc EXCEPT ![q] = "send"]
  /\ UNCHANGED <<dataVars, burstVars, given, clientVars, queueVars, storeVars, life, readers, dsReaders>>

(* The list is done: the lock is given back and the result freed. *)
SendEnd(q) ==
  /\ thPc[q] = "send" /\ i[q] >= Len(dataStoreServices)
  /\ dsReaders' = dsReaders \ {q}
  /\ i' = [i EXCEPT ![q] = 0] /\ given' = [given EXCEPT ![q] = <<>>]
  /\ j' = [j EXCEPT ![q] = @ + 1]
  /\ thPc' = [thPc EXCEPT ![q] = "process"]
  /\ UNCHANGED <<dataVars, received, numOfRecvSamples, clientVars, queueVars, storeVars, life, readers>>

BurstsDone(q) ==
  /\ thPc[q] = "burstsDone"
  /\ burst_throughput' = [burst_throughput EXCEPT ![q] = received[q]]
  /\ received' = [received EXCEPT ![q] = 0]
  /\ thPc' = [thPc EXCEPT ![q] = "check"]
  /\ UNCHANGED <<running, numOfRecvSamples, j, sendVars, clientVars, queueVars, storeVars, life,
                 readers, dsReaders>>

ThreadStep(q) ==
  \/ ReceiveStart(q) \/ ReceiveCheck(q)
  \/ BurstsNext(q) \/ TakeAllReturn(q) \/ ProcessSample(q) \/ ProcessEnd(q) \/ BurstsDone(q)
  \/ SendLock(q) \/ SendNext(q) \/ StoreReturn(q) \/ SendEnd(q)

-----------------------------------------------------------------------------
(* The tracker of queue services.                                             *)

QueueAppears(q) ==
  /\ life = "started" /\ tracking[q] = "idle"
  /\ tracking' = [tracking EXCEPT ![q] = "adding"]
  /\ UNCHANGED <<dataVars, burstVars, sendVars, thPc, clientVars, queueServices, writer, storeVars, life,
                 readers, dsReaders>>

QueueDisappears(q) ==
  /\ tracking[q] = "tracked"
  /\ tracking' = [tracking EXCEPT ![q] = "removing"]
  /\ UNCHANGED <<dataVars, burstVars, sendVars, thPc, clientVars, queueServices, writer, storeVars, life,
                 readers, dsReaders>>

(* processor_queueServiceAdded *)
QueueServiceAdded(q) ==
  /\ tracking[q] = "adding" /\ Writable
  /\ queueServices' = queueServices \cup {q}
  /\ thPc' = [thPc EXCEPT ![q] = "start"]
  /\ running' = [running EXCEPT ![q] = FALSE]
  /\ burst_throughput' = [burst_throughput EXCEPT ![q] = 0]
  /\ tracking' = [tracking EXCEPT ![q] = "tracked"]
  /\ UNCHANGED <<burstVars, sendVars, clientVars, writer, storeVars, life, readers, dsReaders>>

(* processor_queueServiceRemoved, up to pthread_join ... *)
RemoveBegin(q) ==
  /\ tracking[q] = "removing" /\ Writable
  /\ writer' = q
  /\ running' = [running EXCEPT ![q] = FALSE]
  /\ tracking' = [tracking EXCEPT ![q] = "joining"]
  /\ UNCHANGED <<burst_throughput, burstVars, sendVars, thPc, clientVars, queueServices, storeVars, life,
                 readers, dsReaders>>

(* Faulty: goes on without joining the thread. *)
RemoveUnjoined(q) ==
  /\ tracking[q] = "joining"
  /\ queueServices' = queueServices \ {q}
  /\ writer' = Nobody
  /\ tracking' = [tracking EXCEPT ![q] = "idle"]
  /\ UNCHANGED <<dataVars, burstVars, sendVars, thPc, clientVars, storeVars, life, readers, dsReaders>>
(* ... and after it; the thread data are freed (0 stands for no value). *)
RemoveEnd(q) ==
  /\ tracking[q] = "joining" /\ thPc[q] = "exited"
  /\ queueServices' = queueServices \ {q}
  /\ thPc' = [thPc EXCEPT ![q] = "none"]
  /\ burst_throughput' = [burst_throughput EXCEPT ![q] = 0]
  /\ writer' = Nobody
  /\ tracking' = [tracking EXCEPT ![q] = "idle"]
  /\ UNCHANGED <<running, burstVars, sendVars, clientVars, storeVars, life, readers, dsReaders>>

-----------------------------------------------------------------------------
(* The tracker of data stores.                                                *)

StoreAppears(d) ==
  /\ life \in {"started", "closing"} /\ dsTracking[d] = "idle"
  /\ appeared < MaxAppear /\ appeared' = appeared + 1
  /\ dsTracking' = [dsTracking EXCEPT ![d] = "adding"]
  /\ UNCHANGED <<dataVars, burstVars, sendVars, thPc, clientVars, queueVars, dataStoreServices, life,
                 readers, dsReaders>>

StoreDisappears(d) ==
  /\ dsTracking[d] = "tracked"
  /\ dsTracking' = [dsTracking EXCEPT ![d] = "removing"]
  /\ UNCHANGED <<dataVars, burstVars, sendVars, thPc, clientVars, queueVars, dataStoreServices, appeared,
                 life, readers, dsReaders>>

(* processor_dataStoreServiceAdded *)
DataStoreServiceAdded(d) ==
  /\ dsTracking[d] = "adding" /\ StoresWritable
  /\ dataStoreServices' = Append(dataStoreServices, d)
  /\ dsTracking' = [dsTracking EXCEPT ![d] = "tracked"]
  /\ UNCHANGED <<dataVars, burstVars, sendVars, thPc, clientVars, queueVars, appeared, life,
                 readers, dsReaders>>

(* processor_dataStoreServiceRemoved *)
DataStoreServiceRemoved(d) ==
  /\ dsTracking[d] = "removing" /\ StoresWritable
  /\ \E k \in DOMAIN dataStoreServices :
       dataStoreServices[k] = d /\ dataStoreServices' = RemoveAt(dataStoreServices, k)
  /\ dsTracking' = [dsTracking EXCEPT ![d] = "idle"]
  /\ UNCHANGED <<dataVars, burstVars, sendVars, thPc, clientVars, queueVars, appeared, life,
                 readers, dsReaders>>

-----------------------------------------------------------------------------
(* processor_getUtilizationStatsValue, called by the statistic tracker and by *)
(* remote callers.                                                            *)

Call(c) ==
  /\ clPc[c] = "idle" /\ life \in {"started", "closing", "closingStores"}
  /\ clPc' = [clPc EXCEPT ![c] = "getValue"]
  /\ UNCHANGED <<dataVars, burstVars, sendVars, thPc, todo, total, queueVars, storeVars, life,
                 readers, dsReaders>>

CallLock(c) ==
  /\ clPc[c] = "getValue" /\ c \notin readers /\ Readable
  /\ readers' = readers \cup {c}
  /\ todo' = [todo EXCEPT ![c] = queueServices]
  /\ UNCHANGED <<dataVars, burstVars, sendVars, thPc, clPc, total, queueVars, storeVars, life, dsReaders>>

ReadOne(c) ==
  /\ c \in readers
  /\ \E q \in todo[c] :
       /\ total' = [total EXCEPT ![c] = @ + burst_throughput[q]]
       /\ todo' = [todo EXCEPT ![c] = @ \ {q}]
  /\ UNCHANGED <<dataVars, burstVars, sendVars, thPc, clPc, queueVars, storeVars, life, readers, dsReaders>>

(* The iteration is over: the lock is given back and the sum returned. *)
Visited(c) == c \in readers /\ todo[c] = {}

CallReturn(c) ==
  /\ Visited(c)
  /\ readers' = readers \ {c}
  /\ clPc' = [clPc EXCEPT ![c] = "idle"]
  /\ total' = [total EXCEPT ![c] = 0]
  /\ UNCHANGED <<dataVars, burstVars, sendVars, thPc, todo, queueVars, storeVars, life, dsReaders>>

ClientStep(c) == CallLock(c) \/ ReadOne(c) \/ CallReturn(c)

-----------------------------------------------------------------------------
(* bundleActivator_stop.                                                      *)

Become(now, next) ==
  /\ life = now /\ life' = next
  /\ UNCHANGED <<dataVars, burstVars, sendVars, thPc, clientVars, queueVars, storeVars, readers, dsReaders>>

(* serviceTracker_close, of the queues and then of the data stores: the      *)
(* framework has what is still tracked removed.                              *)
TrackerClose == Become("started", "closing")
StoreTrackerClose == (\A q \in Queue : tracking[q] = "idle") /\ Become("closing", "closingStores")

(* serviceRegistration_unregister of the statistics. *)
Unregister == (\A d \in DataStore : dsTracking[d] = "idle") /\ Become("closingStores", "unregistered")

(* It returns when the callers have let the service go; processor_stop only   *)
(* writes a flag nobody reads, and processor_destroy frees map and list.      *)
ProcessorDestroy ==
  /\ life = "unregistered" /\ \A c \in Client : clPc[c] = "idle"
  /\ Writable /\ StoresWritable
  /\ queueServices' = {} /\ dataStoreServices' = <<>>
  /\ life' = "destroyed"
  /\ UNCHANGED <<dataVars, burstVars, sendVars, thPc, clientVars, writer, tracking, dsTracking, appeared,
                 readers, dsReaders>>

-----------------------------------------------------------------------------
TrackerStep(q) == QueueServiceAdded(q) \/ RemoveBegin(q) \/ RemoveEnd(q)
StoreTrackerStep(d) == DataStoreServiceAdded(d) \/ DataStoreServiceRemoved(d)
StopStep == StoreTrackerClose \/ Unregister \/ ProcessorDestroy

Next ==
  \/ \E q \in Queue : ThreadStep(q) \/ QueueAppears(q) \/ QueueDisappears(q) \/ TrackerStep(q)
  \/ \E d \in DataStore : StoreAppears(d) \/ StoreDisappears(d) \/ StoreTrackerStep(d)
  \/ \E c \in Client : Call(c) \/ ClientStep(c)
  \/ TrackerClose \/ StopStep
  \/ life = "destroyed" /\ UNCHANGED vars

Spec == Init /\ [][Next]_vars

(* The second of the receiving loop passes. *)
TimeUp(q) == ThreadStep(q) /\ thPc[q] \in {"takeAll", "process"} /\ thPc'[q] = "burstsDone"

(* Threads and callbacks that can run do run, calls of queues and stores     *)
(* return, a second does not last for ever, and closing a tracker removes    *)
(* what it tracks.                                                           *)
FairSpec ==
  /\ Spec
  /\ \A q \in Queue :
       /\ WF_vars(ThreadStep(q)) /\ SF_vars(TimeUp(q))
       /\ WF_vars(TrackerStep(q))
       /\ WF_vars(life = "closing" /\ QueueDisappears(q))
  /\ \A d \in DataStore :
       /\ WF_vars(StoreTrackerStep(d))
       /\ WF_vars(life = "closingStores" /\ StoreDisappears(d))
  /\ \A c \in Client : WF_vars(ClientStep(c))
  /\ WF_vars(StopStep)

-----------------------------------------------------------------------------
(* What one thread can receive in a second: a burst is not cut short. *)
MaxReceived == BURST_SAMPLES_PER_SEC + MAX_BURST_LEN - 1

TypeOK ==
  /\ queueServices \subseteq Queue /\ writer \in Queue \cup {Nobody} /\ readers \subseteq Client
  /\ tracking \in [Queue -> {"idle", "adding", "tracked", "removing", "joining"}]
  /\ dataStoreServices \in Seq(DataStore) /\ dsReaders \subseteq Queue
  /\ dsTracking \in [DataStore -> {"idle", "adding", "tracked", "removing"}]
  /\ appeared \in 0..MaxAppear
  /\ life \in {"started", "closing", "closingStores", "unregistered", "destroyed"}
  /\ thPc \in [Queue -> ThreadPc]
  /\ running \in [Queue -> BOOLEAN] /\ burst_throughput \in [Queue -> Nat]
  /\ received \in [Queue -> Nat] /\ numOfRecvSamples \in [Queue -> 0..MAX_BURST_LEN]
  /\ j \in [Queue -> Nat] /\ i \in [Queue -> Nat] /\ given \in [Queue -> Seq(DataStore)]
  /\ clPc \in [Client -> {"idle", "getValue"}]
  /\ todo \in [Client -> SUBSET Queue] /\ total \in [Client -> Nat]

(* What the owners of queues and of data stores rely on: see ServiceUser. *)
QueueUser == INSTANCE ServiceUser
               WITH Thread <- Queue, Service <- Queue, held <- queueServices,
                    inside <- {<<q, q>> : q \in {t \in Queue : thPc[t] = "takeAll"}}
StoreUser == INSTANCE ServiceUser
               WITH Thread <- Queue, Service <- DataStore,
                    held <- {d \in DataStore : dsTracking[d] \in {"tracked", "removing"}},
                    inside <- {<<q, given[q][Len(given[q])]>> : q \in {t \in Queue : thPc[t] = "store"}}

(* A thread is inside takeAll of a queue service only between its added      *)
(* callback and the return of its removed callback.                          *)
ImplementsQueueUser == QueueUser!UserSpec

(* A thread is inside store of a data store only between its added callback  *)
(* and the return of its removed callback, although that callback joins no   *)
(* thread.                                                                   *)
ImplementsStoreUser == StoreUser!UserSpec

(* Every result is given to every data store that is tracked, once, in the   *)
(* order of the list, however the stores come and go.                        *)
EveryStoreOnce ==
  [][\A q \in Queue : thPc[q] = "send" /\ thPc'[q] = "process" => given[q] = dataStoreServices]_vars

(* The throughput a caller reads is what the threads of the map can reach:   *)
(* no thread leaves or joins the map during the sum, and a thread receives   *)
(* at most one burst beyond the samples of its second.                       *)
ThroughputInRange ==
  \A c \in Client : Visited(c) => total[c] <= Cardinality(queueServices) * MaxReceived

(* The removal of a service whose thread had not begun: the thread sets      *)
(* running again, and pthread_join does not return.                          *)
Stuck(q) == tracking[q] = "joining" /\ (thPc[q] = "start" \/ running[q])

(* Removing a queue service whose thread had begun ends, although the thread *)
(* looks at running only once in a second and shares a lock with the         *)
(* callbacks of the data stores.                                             *)
RemovalEnds ==
  \A q \in Queue : tracking[q] = "joining" /\ ~Stuck(q) ~> tracking[q] = "idle"

(* Removing a data store ends, although threads take the lock again and      *)
(* again.                                                                    *)
StoreRemovalEnds == \A d \in DataStore : dsTracking[d] = "removing" ~> dsTracking[d] = "idle"

(* Stopping the bundle ends unless a thread that had not begun is joined. *)
BundleStops == life = "closing" ~> life = "destroyed" \/ \E q \in Queue : Stuck(q)

(* Removing a queue, removing a data store and stopping the bundle           *)
(* (processor_impl.c) all end, although they wait for each other's locks.    *)
TeardownEnds == RemovalEnds /\ StoreRemovalEnds /\ BundleStops

(* The inductive invariant.  queueLock is held for writing by the removal    *)
(* that joins, and then nobody reads. *)
LockInv ==
  /\ \A q \in Queue : tracking[q] = "joining" <=> writer = q
  /\ writer # Nobody => readers = {}
(* The map holds the services that are tracked, with one thread each: thread *)
(* data are freed only when neither their thread nor a caller's iteration    *)
(* can still reach them.                                                     *)
MapInv ==
  /\ queueServices = {q \in Queue : tracking[q] \in {"tracked", "removing", "joining"}}
  /\ queueServices = {q \in Queue : thPc[q] # "none"}
  /\ \A c \in readers : todo[c] \subseteq queueServices
  /\ life \in {"closingStores", "unregistered", "destroyed"} => \A q \in Queue : tracking[q] = "idle"
(* The list holds each tracked data store once. *)
ListInv ==
  /\ Range(dataStoreServices) = {d \in DataStore : dsTracking[d] \in {"tracked", "removing"}}
  /\ IsInjective(dataStoreServices)
  /\ life \in {"unregistered", "destroyed"} => \A d \in DataStore : dsTracking[d] = "idle"
(* A thread walks over the list with dataStoreLock held, and has given its   *)
(* result to the stores it has passed.                                       *)
SendInv ==
  /\ dsReaders = {q \in Queue : thPc[q] \in {"send", "store"}}
  /\ \A q \in Queue :
       /\ thPc[q] \notin {"send", "store"} => i[q] = 0
       /\ Len(given[q]) = IF thPc[q] = "store" THEN i[q] + 1 ELSE i[q]
       /\ Len(given[q]) <= Len(dataStoreServices) \/ q \notin dsReaders
       /\ q \in dsReaders => \A k \in 1..Len(given[q]) : given[q][k] = dataStoreServices[k]

IInv == TypeOK /\ LockInv /\ MapInv /\ ListInv /\ SendInv

(* The counters of a thread: it takes a burst only below the samples of a    *)
(* second, so that what it has received, and what it writes for the callers, *)
(* exceeds them by less than a burst.                                        *)
CountInv ==
  \A q \in Queue :
    /\ received[q] <= MaxReceived /\ burst_throughput[q] <= MaxReceived
    /\ thPc[q] \in {"takeAll", "process", "sendLock", "send", "store"} => received[q] < BURST_SAMPLES_PER_SEC
    /\ thPc[q] = "process" => j[q] <= numOfRecvSamples[q]
    /\ thPc[q] \in {"sendLock", "send", "store"} => j[q] < numOfRecvSamples[q]
(* The sum of a caller accounts for the threads its iterator has passed. *)
SumInv ==
  \A c \in Client :
    /\ c \notin readers => total[c] = 0
    /\ c \in readers => total[c] <= Cardinality(queueServices \ todo[c]) * MaxReceived

================================================================================
