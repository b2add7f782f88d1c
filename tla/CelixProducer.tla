----------------------------- MODULE CelixProducer -----------------------------
(***************************************************************************)
(* The Celix producer (producer_impl.c and its activator): one thread for   *)
(* each tracked queue service sends bursts and single samples; remote       *)
(* callers read the throughput and set the sample rate; the framework adds  *)
(* and removes queue services and stops the bundle.                         *)
(*                                                                          *)
(* queueLock is a read-write lock that prefers writers.  The removed        *)
(* callback holds it while it joins the thread of the service.  running,    *)
(* sampleRate and the throughputs are shared without a common lock: the     *)
(* thread guards its reads and writes with throughputLock, the callers      *)
(* theirs with sampleRateLock or with nothing.                              *)
(***************************************************************************)
EXTENDS Integers, FiniteSets

CONSTANTS
  Queue,               \* queue services; the thread of a service has its name
  Client,              \* threads that call the producer's services
  Nobody,              \* nobody holds queueLock for writing
  Rate,                \* sample rates the callers ask for
  MAX_SAMPLES_PER_SEC,
  MIN_BURST_LEN, MAX_BURST_LEN

ASSUME ProducerAssumption ==
  /\ IsFiniteSet(Queue) /\ Nobody \notin Queue
  /\ MAX_SAMPLES_PER_SEC \in Nat
  /\ MIN_BURST_LEN \in Nat /\ MAX_BURST_LEN \in Nat \ {0} /\ MIN_BURST_LEN <= MAX_BURST_LEN
  /\ Rate \subseteq 0..MAX_SAMPLES_PER_SEC

VARIABLES
  queueServices,       \* services in the hash map; their thread data exist
  writer,              \* service whose removal holds queueLock for writing
  readers,             \* callers that hold queueLock for reading
  tracking,            \* what the framework is doing with each service
  life,                \* state of the bundle
  thPc,                \* where the thread of each service is
  running, sampleRate, single_throughput, burst_throughput,  \* thread data
  rate,                \* the thread's copy of sampleRate
  sent,                \* singleSampleCnt or burstSampleCnt of the running round
  clPc,                \* operation each caller is in
  arg,                 \* rate that a caller sets
  todo,                \* thread data a caller's iterator has still to visit
  total                \* what a caller has summed up

dataVars   == <<running, sampleRate, single_throughput, burst_throughput>>
threadVars == <<thPc, rate, sent>>
clientVars == <<clPc, arg, todo, total>>
frameVars  == <<queueServices, writer, tracking, life>>
vars == <<dataVars, threadVars, clientVars, frameVars, readers>>

Reading == {"getSampleRate", "getValue"}
InCall == {"putAll", "put"}
ThreadPc == {"none", "start", "check", "test", "bursts", "burstsDone", "samples", "samplesDone",
             "exited"} \cup InCall

(* producer_create, and the activator has opened its tracker. *)
Init ==
  /\ queueServices = {} /\ writer = Nobody /\ readers = {}
  /\ tracking = [s \in Queue |-> "idle"] /\ life = "started"
  /\ thPc = [s \in Queue |-> "none"]
  /\ running = [s \in Queue |-> FALSE]
  /\ sampleRate = [s \in Queue |-> 0] /\ rate = [s \in Queue |-> 0]
  /\ single_throughput = [s \in Queue |-> 0] /\ burst_throughput = [s \in Queue |-> 0]
  /\ sent = [s \in Queue |-> 0]
  /\ clPc = [c \in Client |-> "idle"] /\ arg = [c \in Client |-> 0]
  /\ todo = [c \in Client |-> {}] /\ total = [c \in Client |-> 0]

-----------------------------------------------------------------------------
(* queueLock.  A writer that waits keeps new readers out.                     *)

(* Faulty: a writer does not wait for the readers, or a reader for a writer. *)
WritableWithReaders == writer = Nobody
ReadableWithWriter == TRUE

Writable == writer = Nobody /\ readers = {}
Readable == writer = Nobody /\ \A s \in Queue : tracking[s] \notin {"adding", "removing"}

-----------------------------------------------------------------------------
(* producer_generate, the thread of service s.                                *)

GenerateStart(s) ==
  /\ thPc[s] = "start"
  /\ running' = [running EXCEPT ![s] = TRUE]
  /\ thPc' = [thPc EXCEPT ![s] = "check"]
  /\ UNCHANGED <<sampleRate, single_throughput, burst_throughput, rate, sent, clientVars,
                 frameVars, readers>>

(* The loop condition, and the copy of the rate.  The status is always the   *)
(* success that sendSamples returns: the service is never NULL.              *)
GenerateCheck(s) ==
  /\ thPc[s] = "check"
  /\ IF running[s]
     THEN /\ thPc' = [thPc EXCEPT ![s] = "test"]
          /\ rate' = [rate EXCEPT ![s] = sampleRate[s]]
     ELSE /\ thPc' = [thPc EXCEPT ![s] = "exited"]
          /\ UNCHANGED rate
  /\ UNCHANGED <<dataVars, sent, clientVars, frameVars, readers>>

(* The shared rate is read once more, without any lock. *)
GenerateTest(s) ==
  /\ thPc[s] = "test"
  /\ thPc' = [thPc EXCEPT ![s] = IF sampleRate[s] > 0 THEN "bursts" ELSE "check"]
  /\ sent' = [sent EXCEPT ![s] = 0]
  /\ UNCHANGED <<dataVars, rate, clientVars, frameVars, readers>>

(* Faulty: one sample more than the rate. *)
SendNextOneMore(s, loop, call, done) ==
  /\ thPc[s] = loop
  /\ thPc' = [thPc EXCEPT ![s] = IF sent[s] <= rate[s] THEN call ELSE done]
  /\ UNCHANGED <<dataVars, rate, sent, clientVars, frameVars, readers>>

(* One round of a sending loop: the next call, or the end of the loop. *)
SendNext(s, loop, call, done) ==
  /\ thPc[s] = loop
  /\ thPc' = [thPc EXCEPT ![s] = IF sent[s] < rate[s] THEN call ELSE done]
  /\ UNCHANGED <<dataVars, rate, sent, clientVars, frameVars, readers>>

(* The call returns; the loop goes on unless its second has passed. *)
SendReturn(s, call, stored, loop, done) ==
  /\ thPc[s] = call
  /\ \E n \in stored : sent' = [sent EXCEPT ![s] = @ + n]
  /\ \E next \in {loop, done} : thPc' = [thPc EXCEPT ![s] = next]
  /\ UNCHANGED <<dataVars, rate, clientVars, frameVars, readers>>

(* producer_sendBursts *)
BurstsNext(s) == SendNext(s, "bursts", "putAll", "burstsDone")
BurstsReturn(s) ==
  \E len \in MIN_BURST_LEN..MAX_BURST_LEN :
    SendReturn(s, "putAll", 0..len, "bursts", "burstsDone")
BurstsDone(s) ==
  /\ thPc[s] = "burstsDone"
  /\ burst_throughput' = [burst_throughput EXCEPT ![s] = sent[s]]
  /\ sent' = [sent EXCEPT ![s] = 0]
  /\ thPc' = [thPc EXCEPT ![s] = "samples"]
  /\ UNCHANGED <<running, sampleRate, single_throughput, rate, clientVars, frameVars, readers>>

(* producer_sendSamples *)
SamplesNext(s) == SendNext(s, "samples", "put", "samplesDone")
SamplesReturn(s) == SendReturn(s, "put", {0, 1}, "samples", "samplesDone")
SamplesDone(s) ==
  /\ thPc[s] = "samplesDone"
  /\ single_throughput' = [single_throughput EXCEPT ![s] = sent[s]]
  /\ sent' = [sent EXCEPT ![s] = 0]
  /\ thPc' = [thPc EXCEPT ![s] = "check"]
  /\ UNCHANGED <<running, sampleRate, burst_throughput, rate, clientVars, frameVars, readers>>

ThreadStep(s) ==
  \/ GenerateStart(s) \/ GenerateCheck(s) \/ GenerateTest(s)
  \/ BurstsNext(s) \/ BurstsReturn(s) \/ BurstsDone(s)
  \/ SamplesNext(s) \/ SamplesReturn(s) \/ SamplesDone(s)

-----------------------------------------------------------------------------
(* The tracker of queue services.                                             *)

(* The framework calls queueServiceAdded or queueServiceRemoved; services    *)
(* also leave because the tracker is closed.                                 *)
QueueAppears(s) ==
  /\ life = "started" /\ tracking[s] = "idle"
  /\ tracking' = [tracking EXCEPT ![s] = "adding"]
  /\ UNCHANGED <<dataVars, threadVars, clientVars, queueServices, writer, life, readers>>

QueueDisappears(s) ==
  /\ tracking[s] = "tracked"
  /\ tracking' = [tracking EXCEPT ![s] = "removing"]
  /\ UNCHANGED <<dataVars, threadVars, clientVars, queueServices, writer, life, readers>>

(* producer_queueServiceAdded *)
QueueServiceAdded(s) ==
  /\ tracking[s] = "adding" /\ Writable
  /\ queueServices' = queueServices \cup {s}
  /\ thPc' = [thPc EXCEPT ![s] = "start"]
  /\ running' = [running EXCEPT ![s] = FALSE]
  /\ sampleRate' = [sampleRate EXCEPT ![s] = MAX_SAMPLES_PER_SEC]
  /\ single_throughput' = [single_throughput EXCEPT ![s] = 0]
  /\ burst_throughput' = [burst_throughput EXCEPT ![s] = 0]
  /\ tracking' = [tracking EXCEPT ![s] = "tracked"]
  /\ UNCHANGED <<rate, sent, clientVars, writer, life, readers>>

(* producer_queueServiceRemoved, up to pthread_join ... *)
RemoveBegin(s) ==
  /\ tracking[s] = "removing" /\ Writable
  /\ writer' = s
  /\ running' = [running EXCEPT ![s] = FALSE]
  /\ tracking' = [tracking EXCEPT ![s] = "joining"]
  /\ UNCHANGED <<sampleRate, single_throughput, burst_throughput, threadVars, clientVars,
                 queueServices, life, readers>>

(* Faulty: goes on without joining the thread. *)
RemoveUnjoined(s) ==
  /\ tracking[s] = "joining"
  /\ queueServices' = queueServices \ {s}
  /\ writer' = Nobody
  /\ tracking' = [tracking EXCEPT ![s] = "idle"]
  /\ UNCHANGED <<dataVars, threadVars, clientVars, life, readers>>

(* Faulty: keeps queueLock. *)
RemoveLocked(s) ==
  /\ tracking[s] = "joining" /\ thPc[s] = "exited"
  /\ queueServices' = queueServices \ {s}
  /\ thPc' = [thPc EXCEPT ![s] = "none"]
  /\ tracking' = [tracking EXCEPT ![s] = "idle"]
  /\ UNCHANGED <<dataVars, rate, sent, writer, clientVars, life, readers>>

(* ... and after it; the thread data are freed (0 stands for no value). *)
RemoveEnd(s) ==
  /\ tracking[s] = "joining" /\ thPc[s] = "exited"
  /\ queueServices' = queueServices \ {s}
  /\ thPc' = [thPc EXCEPT ![s] = "none"]
  /\ sampleRate' = [sampleRate EXCEPT ![s] = 0] /\ rate' = [rate EXCEPT ![s] = 0]
  /\ single_throughput' = [single_throughput EXCEPT ![s] = 0]
  /\ burst_throughput' = [burst_throughput EXCEPT ![s] = 0]
  /\ writer' = Nobody
  /\ tracking' = [tracking EXCEPT ![s] = "idle"]
  /\ UNCHANGED <<running, sent, clientVars, life, readers>>

-----------------------------------------------------------------------------
(* producer_getSampleRate, producer_getUtilizationStatsValue and              *)
(* producer_setSampleRate, called by other bundles and remote callers.        *)

Call(c) ==
  /\ clPc[c] = "idle" /\ life \in {"started", "closing"}
  /\ \E op \in Reading \cup {"setSampleRate"}, r \in Rate :
       /\ clPc' = [clPc EXCEPT ![c] = op]
       /\ arg' = [arg EXCEPT ![c] = IF op = "setSampleRate" THEN r ELSE 0]
  /\ UNCHANGED <<dataVars, threadVars, todo, total, frameVars, readers>>

CallLock(c) ==
  /\ clPc[c] # "idle" /\ c \notin readers /\ Readable
  /\ readers' = readers \cup {c}
  /\ todo' = [todo EXCEPT ![c] = queueServices]
  /\ UNCHANGED <<dataVars, threadVars, clPc, arg, total, frameVars>>

SetOne(c) ==
  /\ clPc[c] = "setSampleRate" /\ c \in readers
  /\ \E s \in todo[c] :
       /\ sampleRate' = [sampleRate EXCEPT ![s] = arg[c]]
       /\ todo' = [todo EXCEPT ![c] = @ \ {s}]
  /\ UNCHANGED <<running, single_throughput, burst_throughput, threadVars, clPc, arg, total, frameVars, readers>>

(* The rate is the single throughput; the statistic is half the sum of both, *)
(* kept here in half samples per second.                                     *)
Throughput(op, s) ==
  IF op = "getSampleRate" THEN single_throughput[s] ELSE single_throughput[s] + burst_throughput[s]

ReadOne(c) ==
  /\ clPc[c] \in Reading /\ c \in readers
  /\ \E s \in todo[c] :
       /\ total' = [total EXCEPT ![c] = @ + Throughput(clPc[c], s)]
       /\ todo' = [todo EXCEPT ![c] = @ \ {s}]
  /\ UNCHANGED <<dataVars, threadVars, clPc, arg, frameVars, readers>>

(* The average that a reading returns: the sum over the size of the map. *)
Average(c) == [sum |-> total[c], of |-> Cardinality(queueServices)]

(* The iteration is over: the lock is given back and the call returns. *)
Visited(c) == clPc[c] # "idle" /\ c \in readers /\ todo[c] = {}

CallReturn(c) ==
  /\ Visited(c)
  /\ readers' = readers \ {c}
  /\ clPc' = [clPc EXCEPT ![c] = "idle"]
  /\ arg' = [arg EXCEPT ![c] = 0] /\ total' = [total EXCEPT ![c] = 0]
  /\ UNCHANGED <<dataVars, threadVars, todo, frameVars>>

ClientStep(c) == CallLock(c) \/ SetOne(c) \/ ReadOne(c) \/ CallReturn(c)

-----------------------------------------------------------------------------
(* bundleActivator_stop and bundleActivator_destroy.                          *)

(* serviceTracker_close has the remaining services removed, one by one. *)
TrackerClose ==
  /\ life = "started"
  /\ life' = "closing"
  /\ UNCHANGED <<dataVars, threadVars, clientVars, queueServices, writer, tracking, readers>>

(* serviceRegistration_unregister, of the statistics and of the producer. *)
Unregister ==
  /\ life = "closing" /\ \A s \in Queue : tracking[s] = "idle"
  /\ life' = "unregistered"
  /\ UNCHANGED <<dataVars, threadVars, clientVars, queueServices, writer, tracking, readers>>

(* It returns when the users of the services have let them go; then           *)
(* producer_stop clears the flags of the threads that are left.               *)
ProducerStop ==
  /\ life = "unregistered" /\ \A c \in Client : clPc[c] = "idle"
  /\ Readable
  /\ running' = [s \in Queue |-> running[s] /\ s \notin queueServices]
  /\ life' = "stopped"
  /\ UNCHANGED <<sampleRate, single_throughput, burst_throughput, threadVars, clientVars,
                 queueServices, writer, tracking, readers>>

(* producer_destroy frees the map with the thread data in it. *)
ProducerDestroy ==
  /\ life = "stopped" /\ Writable
  /\ queueServices' = {}
  /\ life' = "destroyed"
  /\ UNCHANGED <<dataVars, threadVars, clientVars, writer, tracking, readers>>

-----------------------------------------------------------------------------
TrackerStep(s) == QueueServiceAdded(s) \/ RemoveBegin(s) \/ RemoveEnd(s)
StopStep == Unregister \/ ProducerStop \/ ProducerDestroy

Next ==
  \/ \E s \in Queue : ThreadStep(s) \/ QueueAppears(s) \/ QueueDisappears(s) \/ TrackerStep(s)
  \/ \E c \in Client : Call(c) \/ ClientStep(c)
  \/ TrackerClose \/ StopStep
  \/ life = "destroyed" /\ UNCHANGED vars

Spec == Init /\ [][Next]_vars

(* The second of a sending loop passes while a call of the queue is in progress. *)
TimeUp(s) == ThreadStep(s) /\ thPc[s] \in InCall /\ thPc'[s] \in {"burstsDone", "samplesDone"}

(* Threads and callbacks that can run do run, calls of the queue return, a   *)
(* second does not last for ever, and closing the tracker removes what it    *)
(* tracks.                                                                   *)
FairSpec ==
  /\ Spec
  /\ \A s \in Queue :
       /\ WF_vars(ThreadStep(s)) /\ SF_vars(TimeUp(s))
       /\ WF_vars(TrackerStep(s))
       /\ WF_vars(life = "closing" /\ QueueDisappears(s))
  /\ \A c \in Client : WF_vars(ClientStep(c))
  /\ WF_vars(StopStep)

-----------------------------------------------------------------------------
(* What one thread may report as its throughput: a burst is not cut short. *)
MaxSingle == MAX_SAMPLES_PER_SEC
MaxBursts == MAX_SAMPLES_PER_SEC + MAX_BURST_LEN - 1
Reach(op) == IF op = "getSampleRate" THEN MaxSingle ELSE MaxSingle + MaxBursts

TypeOK ==
  /\ queueServices \subseteq Queue /\ writer \in Queue \cup {Nobody} /\ readers \subseteq Client
  /\ tracking \in [Queue -> {"idle", "adding", "tracked", "removing", "joining"}]
  /\ life \in {"started", "closing", "unregistered", "stopped", "destroyed"}
  /\ thPc \in [Queue -> ThreadPc]
  /\ running \in [Queue -> BOOLEAN]
  /\ sampleRate \in [Queue -> 0..MAX_SAMPLES_PER_SEC]
  /\ rate \in [Queue -> 0..MAX_SAMPLES_PER_SEC]
  /\ single_throughput \in [Queue -> Nat] /\ burst_throughput \in [Queue -> Nat]
  /\ sent \in [Queue -> Nat]
  /\ clPc \in [Client -> Reading \cup {"setSampleRate", "idle"}]
  /\ arg \in [Client -> 0..MAX_SAMPLES_PER_SEC]
  /\ todo \in [Client -> SUBSET Queue] /\ total \in [Client -> Nat]

(* What the framework relies on: see ServiceUser. *)
User == INSTANCE ServiceUser
          WITH Thread <- Queue, Service <- Queue, held <- queueServices,
               inside <- {<<s, s>> : s \in {t \in Queue : thPc[t] \in InCall}}

(* A thread is inside put or putAll of a queue service only between          *)
(* queueServiceAdded and the return of queueServiceRemoved, so the owner may *)
(* destroy the queue once it has unregistered it.                            *)
ImplementsServiceUser == User!UserSpec

(* Thread data are freed only when neither their thread nor a caller's       *)
(* iteration over the map can still reach them.                              *)
NoUseAfterFree ==
  /\ \A s \in Queue : thPc[s] # "none" => s \in queueServices
  /\ \A c \in readers : todo[c] \subseteq queueServices

(* A round of a thread sends no more than the rate it has copied, up to the  *)
(* end of the burst it is in, whatever callers do to the rate meanwhile.     *)
RateRespected ==
  \A s \in Queue :
    /\ thPc[s] \in {"bursts", "putAll", "burstsDone"} =>
         sent[s] = 0 \/ sent[s] < rate[s] + MAX_BURST_LEN
    /\ thPc[s] \in {"samples", "put", "samplesDone"} => sent[s] <= rate[s]

(* The averages that callers read are averages: no thread leaves or joins    *)
(* the map between the sum and the division, so a reading never exceeds what *)
(* a single thread can reach.                                                *)
AverageInRange ==
  \A c \in Client : Visited(c) => Average(c).sum <= Average(c).of * Reach(clPc[c])

(* A setSampleRate without competitors reaches the thread data of every      *)
(* queue that is tracked when it returns.                                    *)
SetReachesAll ==
  [][\A c \in Client :
       Client = {c} /\ clPc[c] = "setSampleRate" /\ clPc'[c] = "idle" =>
         \A s \in queueServices' : sampleRate'[s] = arg[c]]_vars

(* The removal of a service whose thread had not begun: the thread sets      *)
(* running again, and pthread_join does not return.                          *)
Stuck(s) == tracking[s] = "joining" /\ (thPc[s] = "start" \/ running[s])

(* Removing a queue service whose thread had begun ends, with queueLock given *)
(* back, although the thread looks at running only between two rounds.        *)
RemovalEnds ==
  \A s \in Queue : tracking[s] = "joining" /\ ~Stuck(s) ~> tracking[s] = "idle"

(* Stopping the bundle ends, with every thread joined and every caller       *)
(* answered, unless a thread that had not begun is being joined.             *)
BundleStops == life = "closing" ~> life = "destroyed" \/ \E s \in Queue : Stuck(s)

(* Neither the removal of a queue nor stopping the bundle (producer_impl.c,  *)
(* bundle_activator.c) waits for ever, but for that one race.                *)
TeardownEnds == RemovalEnds /\ BundleStops

(* Producer.getSampleRate returns "the actual sample rate": a thread whose   *)
(* rate stays zero ends up reporting that it sends nothing.                  *)
SampleRateActual ==
  \A s \in Queue :
    <>[](s \in queueServices /\ sampleRate[s] = 0) => <>[](single_throughput[s] = 0)

(* The inductive invariant behind the safety properties.  queueLock is held  *)
(* for writing by the removal that joins, and then nobody reads; the map     *)
(* holds the services that are tracked, with one thread each; callers        *)
(* iterate over the map with the lock held.                                  *)
LockInv ==
  /\ \A s \in Queue : tracking[s] = "joining" <=> writer = s
  /\ writer # Nobody => readers = {}
  /\ \A c \in readers : clPc[c] # "idle"
MapInv ==
  /\ queueServices = {s \in Queue : tracking[s] \in {"tracked", "removing", "joining"}}
  /\ queueServices = {s \in Queue : thPc[s] # "none"}
  /\ \A c \in readers : todo[c] \subseteq queueServices
  /\ life \in {"unregistered", "stopped", "destroyed"} => \A s \in Queue : tracking[s] = "idle"
(* A call is made only while the rate has not been reached. *)
CallsBelowRate == \A s \in Queue : thPc[s] \in InCall => sent[s] < rate[s]
(* A lone setter has set what it has visited. *)
SetSoFar ==
  \A c \in readers :
    Client = {c} /\ clPc[c] = "setSampleRate" =>
      \A s \in queueServices \ todo[c] : sampleRate[s] = arg[c]

IInv == TypeOK /\ LockInv /\ MapInv /\ CallsBelowRate /\ RateRespected /\ SetSoFar

(* What the threads have written for the callers, and what a caller has      *)
(* summed up over the thread data its iterator has passed.                   *)
WrittenInv ==
  \A s \in Queue : single_throughput[s] <= MaxSingle /\ burst_throughput[s] <= MaxBursts
SumInv ==
  \A c \in Client :
    /\ c \notin readers => total[c] = 0
    /\ c \in readers => total[c] <= Cardinality(queueServices \ todo[c]) * Reach(clPc[c])

================================================================================
