------------------------- MODULE CelixProcessorProofs -------------------------
(* Theorems about CelixProcessor, for every set of queues, data stores and   *)
(* callers.                                                                  *)
EXTENDS CelixProcessor, SequenceTheorems, FiniteSetTheorems, TLAPS

(* Types of the variables that belong to one part of the processor. *)
ThreadTypeOK ==
  /\ thPc \in [Queue -> ThreadPc] /\ running \in [Queue -> BOOLEAN]
  /\ received \in [Queue -> Nat] /\ numOfRecvSamples \in [Queue -> 0..MAX_BURST_LEN]
  /\ j \in [Queue -> Nat] /\ i \in [Queue -> Nat] /\ given \in [Queue -> Seq(DataStore)]
  /\ burst_throughput \in [Queue -> Nat] /\ dsReaders \subseteq Queue

LEMMA ThreadTypeStep ==
  ASSUME TypeOK, NEW q \in Queue, ThreadStep(q)
  PROVE  ThreadTypeOK'
<1> USE ProcessorAssumption DEF TypeOK, ThreadTypeOK, ThreadPc
<1>1. CASE ReceiveStart(q)
  BY <1>1 DEF ReceiveStart, burstVars, sendVars
<1>2. CASE ReceiveCheck(q)
  BY <1>2 DEF ReceiveCheck, dataVars, sendVars
<1>3. CASE BurstsNext(q)
  BY <1>3 DEF BurstsNext, dataVars, burstVars, sendVars
<1>4. CASE TakeAllReturn(q)
  <2>1. CASE NextRound(q) /\ UNCHANGED burstVars
    <3>1. PICK next \in ThreadPc : thPc' = [thPc EXCEPT ![q] = next]
      BY <2>1 DEF NextRound
    <3>2. thPc' \in [Queue -> ThreadPc]
      BY <3>1
    <3>3. QED
      BY <1>4, <2>1, <3>2 DEF TakeAllReturn, dataVars, burstVars, sendVars
  <2>2. CASE /\ thPc' = [thPc EXCEPT ![q] = "process"]
             /\ \E n \in 0..MAX_BURST_LEN : numOfRecvSamples' = [numOfRecvSamples EXCEPT ![q] = n]
             /\ j' = [j EXCEPT ![q] = 0]
             /\ UNCHANGED received
    <3>1. numOfRecvSamples' \in [Queue -> 0..MAX_BURST_LEN]
      BY <2>2
    <3>2. j' \in [Queue -> Nat] /\ thPc' \in [Queue -> ThreadPc] /\ received' = received
      BY <2>2
    <3>3. QED
      BY <1>4, <3>1, <3>2 DEF TakeAllReturn, dataVars, sendVars
  <2>3. QED
    BY <1>4, <2>1, <2>2 DEF TakeAllReturn
<1>5. CASE ProcessSample(q)
  <2>1. CASE thPc' = [thPc EXCEPT ![q] = "sendLock"] /\ UNCHANGED j
    BY <1>5, <2>1 DEF ProcessSample, dataVars, sendVars
  <2>2. CASE j' = [j EXCEPT ![q] = @ + 1] /\ UNCHANGED thPc
    BY <1>5, <2>2 DEF ProcessSample, dataVars, sendVars
  <2>3. QED
    BY <1>5, <2>1, <2>2 DEF ProcessSample
<1>6. CASE ProcessEnd(q)
  <2>1. thPc' \in [Queue -> ThreadPc]
    BY <1>6 DEF ProcessEnd, NextRound
  <2>2. received' \in [Queue -> Nat] /\ j' \in [Queue -> Nat]
    BY <1>6 DEF ProcessEnd
  <2>3. numOfRecvSamples' \in [Queue -> 0..MAX_BURST_LEN]
    BY <1>6 DEF ProcessEnd
  <2>4. QED
    BY <1>6, <2>1, <2>2, <2>3 DEF ProcessEnd, dataVars, sendVars
<1>7. CASE BurstsDone(q)
  BY <1>7 DEF BurstsDone, sendVars
<1>8. CASE SendLock(q)
  BY <1>8 DEF SendLock, dataVars, burstVars, sendVars
<1>9. CASE SendNext(q)
  <2>1. dataStoreServices[i[q] + 1] \in DataStore
    BY <1>9, ElementOfSeq DEF SendNext
  <2>2. given' \in [Queue -> Seq(DataStore)]
    BY <1>9, <2>1, AppendProperties DEF SendNext
  <2>3. QED
    BY <1>9, <2>2 DEF SendNext, dataVars, burstVars
<1>10. CASE StoreReturn(q)
  BY <1>10 DEF StoreReturn, dataVars, burstVars
<1>11. CASE SendEnd(q)
  <2>1. <<>> \in Seq(DataStore)
    OBVIOUS
  <2>2. given' \in [Queue -> Seq(DataStore)]
    BY <1>11, <2>1 DEF SendEnd
  <2>3. QED
    BY <1>11, <2>2 DEF SendEnd, dataVars
<1>12. QED
  BY <1>1, <1>2, <1>3, <1>4, <1>5, <1>6, <1>7, <1>8, <1>9, <1>10, <1>11 DEF ThreadStep

(* The list stays a list of data stores, one shorter. *)
LEMMA RemoveAtProperties ==
  ASSUME NEW S, NEW s \in Seq(S), NEW k \in DOMAIN s
  PROVE  /\ RemoveAt(s, k) \in Seq(S)
         /\ Len(RemoveAt(s, k)) = Len(s) - 1
         /\ \A l \in 1..(Len(s) - 1) : RemoveAt(s, k)[l] = IF l < k THEN s[l] ELSE s[l + 1]
<1> DEFINE a == SubSeq(s, 1, k - 1)
           b == SubSeq(s, k + 1, Len(s))
<1>1. Len(s) \in Nat /\ k \in 1..Len(s) /\ k \in Int
  BY LenProperties
<1>2. a \in Seq(S) /\ Len(a) = k - 1 /\ \A l \in 1..(k - 1) : a[l] = s[l]
  BY <1>1, SubSeqProperties
<1>3. b \in Seq(S) /\ Len(b) = Len(s) - k /\ \A l \in 1..(Len(s) - k) : b[l] = s[k + l]
  BY <1>1, SubSeqProperties
<1>4. RemoveAt(s, k) = a \o b
  BY DEF RemoveAt
<1> HIDE DEF a, b
<1>5. a \o b \in Seq(S) /\ Len(a \o b) = Len(a) + Len(b)
      /\ \A l \in 1..(Len(a) + Len(b)) : (a \o b)[l] = IF l <= Len(a) THEN a[l] ELSE b[l - Len(a)]
  BY <1>2, <1>3, ConcatProperties
<1>6. Len(a) + Len(b) = Len(s) - 1
  BY <1>1, <1>2, <1>3
<1>7. ASSUME NEW l \in 1..(Len(s) - 1) PROVE (a \o b)[l] = IF l < k THEN s[l] ELSE s[l + 1]
  <2>1. CASE l < k
    <3>1. l \in 1..(k - 1) /\ l <= Len(a)
      BY <1>1, <1>2, <1>7, <2>1
    <3>2. QED
      BY <1>2, <1>5, <1>6, <1>7, <2>1, <3>1
  <2>2. CASE ~(l < k)
    <3>1. ~(l <= Len(a)) /\ l - Len(a) = l - (k - 1) /\ l - (k - 1) \in 1..(Len(s) - k)
          /\ k + (l - (k - 1)) = l + 1
      BY <1>1, <1>2, <1>7, <2>2
    <3>2. (a \o b)[l] = b[l - (k - 1)]
      BY <1>5, <1>6, <1>7, <3>1
    <3>3. b[l - (k - 1)] = s[l + 1]
      BY <1>3, <3>1
    <3>4. QED
      BY <2>2, <3>2, <3>3
  <2>3. QED
    BY <2>1, <2>2
<1>8. QED
  BY <1>4, <1>5, <1>6, <1>7

LEMMA TypeStep == TypeOK /\ [Next]_vars => TypeOK'
<1> SUFFICES ASSUME TypeOK, [Next]_vars PROVE TypeOK'
  OBVIOUS
<1> USE ProcessorAssumption DEF TypeOK
<1>1. ASSUME NEW q \in Queue, ThreadStep(q) PROVE TypeOK'
  <2>1. UNCHANGED <<clientVars, queueVars, storeVars, life, readers>>
    BY <1>1 DEF ThreadStep, ReceiveStart, ReceiveCheck, BurstsNext, TakeAllReturn, ProcessSample, ProcessEnd,
                BurstsDone, SendLock, SendNext, StoreReturn, SendEnd
  <2>2. QED
    BY <1>1, <2>1, ThreadTypeStep DEF ThreadTypeOK, clientVars, queueVars, storeVars
<1>2. ASSUME NEW q \in Queue, QueueAppears(q) \/ QueueDisappears(q) PROVE TypeOK'
  BY <1>2 DEF QueueAppears, QueueDisappears, dataVars, burstVars, sendVars, clientVars, storeVars
<1>3. ASSUME NEW q \in Queue, QueueServiceAdded(q) PROVE TypeOK'
  <2>1. thPc' \in [Queue -> ThreadPc] /\ running' \in [Queue -> BOOLEAN]
    BY <1>3 DEF QueueServiceAdded, ThreadPc
  <2>2. burst_throughput' \in [Queue -> Nat]
    BY <1>3 DEF QueueServiceAdded
  <2>3. QED
    BY <1>3, <2>1, <2>2 DEF QueueServiceAdded, burstVars, sendVars, clientVars, storeVars
<1>4. ASSUME NEW q \in Queue, RemoveBegin(q) PROVE TypeOK'
  BY <1>4 DEF RemoveBegin, burstVars, sendVars, clientVars, storeVars
<1>5. ASSUME NEW q \in Queue, RemoveEnd(q) PROVE TypeOK'
  <2>1. thPc' \in [Queue -> ThreadPc]
    BY <1>5 DEF RemoveEnd, ThreadPc
  <2>2. burst_throughput' \in [Queue -> Nat]
    BY <1>5 DEF RemoveEnd
  <2>3. QED
    BY <1>5, <2>1, <2>2 DEF RemoveEnd, burstVars, sendVars, clientVars, storeVars
<1>6. ASSUME NEW d \in DataStore, StoreAppears(d) \/ StoreDisappears(d) PROVE TypeOK'
  <2>1. dsTracking' \in [DataStore -> {"idle", "adding", "tracked", "removing"}]
    BY <1>6 DEF StoreAppears, StoreDisappears
  <2>2. appeared' \in 0..MaxAppear
    BY <1>6 DEF StoreAppears, StoreDisappears
  <2>3. CASE StoreAppears(d)
    BY <2>1, <2>2, <2>3 DEF StoreAppears, dataVars, burstVars, sendVars, clientVars, queueVars
  <2>4. CASE StoreDisappears(d)
    BY <2>1, <2>2, <2>4 DEF StoreDisappears, dataVars, burstVars, sendVars, clientVars, queueVars
  <2>5. QED
    BY <1>6, <2>3, <2>4
<1>7. ASSUME NEW d \in DataStore, DataStoreServiceAdded(d) PROVE TypeOK'
  <2>1. dataStoreServices' \in Seq(DataStore)
    BY <1>7, AppendProperties DEF DataStoreServiceAdded
  <2>2. QED
    BY <1>7, <2>1 DEF DataStoreServiceAdded, dataVars, burstVars, sendVars, clientVars, queueVars
<1>8. ASSUME NEW d \in DataStore, DataStoreServiceRemoved(d) PROVE TypeOK'
  <2>1. dataStoreServices' \in Seq(DataStore)
    BY <1>8, RemoveAtProperties DEF DataStoreServiceRemoved
  <2>2. QED
    BY <1>8, <2>1 DEF DataStoreServiceRemoved, dataVars, burstVars, sendVars, clientVars, queueVars
<1>9. ASSUME NEW c \in Client, Call(c) \/ CallLock(c) \/ CallReturn(c) PROVE TypeOK'
  <2>1. CASE Call(c)
    BY <2>1 DEF Call, dataVars, burstVars, sendVars, queueVars, storeVars
  <2>2. CASE CallLock(c)
    BY <2>2 DEF CallLock, dataVars, burstVars, sendVars, queueVars, storeVars
  <2>3. CASE CallReturn(c)
    BY <2>3 DEF CallReturn, dataVars, burstVars, sendVars, queueVars, storeVars
  <2>4. QED
    BY <1>9, <2>1, <2>2, <2>3
<1>10. ASSUME NEW c \in Client, ReadOne(c) PROVE TypeOK'
  <2>1. PICK q \in todo[c] : /\ total' = [total EXCEPT ![c] = @ + burst_throughput[q]]
                              /\ todo' = [todo EXCEPT ![c] = @ \ {q}]
    BY <1>10 DEF ReadOne
  <2>2. total' \in [Client -> Nat] /\ todo' \in [Client -> SUBSET Queue]
    <3>1. q \in Queue /\ todo[c] \ {q} \in SUBSET Queue
      BY <2>1
    <3>2. total[c] + burst_throughput[q] \in Nat
      <4>1. total[c] \in Nat /\ burst_throughput[q] \in Nat
        BY <3>1
      <4>2. QED
        BY <4>1, SMTT(30)
    <3>3. total' \in [Client -> Nat]
      BY <2>1, <3>2
    <3>4. todo' \in [Client -> SUBSET Queue]
      BY <2>1, <3>1
    <3>5. QED
      BY <3>3, <3>4
  <2>3. QED
    BY <1>10, <2>2 DEF ReadOne, dataVars, burstVars, sendVars, queueVars, storeVars
<1>11. CASE TrackerClose \/ StoreTrackerClose \/ Unregister \/ UNCHANGED vars
  <2>1. life' \in {"started", "closing", "closingStores", "unregistered", "destroyed"}
    BY <1>11 DEF TrackerClose, StoreTrackerClose, Unregister, Become, vars
  <2>2. UNCHANGED <<dataVars, burstVars, sendVars, thPc, clientVars, queueVars, storeVars, readers, dsReaders>>
    BY <1>11 DEF TrackerClose, StoreTrackerClose, Unregister, Become, vars
  <2>3. QED
    BY <2>1, <2>2 DEF dataVars, burstVars, sendVars, clientVars, queueVars, storeVars
<1>12. CASE ProcessorDestroy
  BY <1>12, SMTT(30) DEF ProcessorDestroy, dataVars, burstVars, sendVars, clientVars
<1>13. QED
  BY <1>1, <1>2, <1>3, <1>4, <1>5, <1>6, <1>7, <1>8, <1>9, <1>10, <1>11, <1>12
  DEF Next, TrackerStep, StoreTrackerStep, ClientStep, StopStep

(* What a step of a thread leaves alone. *)
LEMMA ThreadFrame ==
  ASSUME NEW q \in Queue, ThreadStep(q)
  PROVE  UNCHANGED <<clPc, todo, queueServices, writer, tracking, dataStoreServices, dsTracking, life, readers>>
  BY DEF ThreadStep, ReceiveStart, ReceiveCheck, BurstsNext, TakeAllReturn, ProcessSample, ProcessEnd, BurstsDone,
         SendLock, SendNext, StoreReturn, SendEnd, clientVars, queueVars, storeVars

(* What a step of a caller, of a tracker or of stopping leaves alone. *)
LEMMA OtherFrame ==
  ASSUME [Next]_vars
  PROVE  \/ \E q \in Queue : ThreadStep(q) \/ QueueServiceAdded(q) \/ RemoveEnd(q)
         \/ \E d \in DataStore : StoreTrackerStep(d)
         \/ ProcessorDestroy
         \/ UNCHANGED <<thPc, i, given, dsReaders, dataStoreServices, queueServices>>
  BY DEF Next, vars, sendVars, queueVars, storeVars, QueueAppears, QueueDisappears, TrackerStep, RemoveBegin,
         StoreAppears, StoreDisappears, Call, ClientStep, CallLock, ReadOne, CallReturn, TrackerClose, StopStep,
         StoreTrackerClose, Unregister, Become

LEMMA LockStep == TypeOK /\ LockInv /\ [Next]_vars => LockInv'
<1> SUFFICES ASSUME TypeOK, LockInv, [Next]_vars PROVE LockInv'
  OBVIOUS
<1> USE ProcessorAssumption DEF TypeOK, LockInv
<1>1. CASE UNCHANGED <<tracking, writer, readers>>
  BY <1>1
<1>2. ASSUME NEW q \in Queue, QueueAppears(q) \/ QueueDisappears(q) PROVE LockInv'
  <2>1. UNCHANGED <<writer, readers>>
    BY <1>2 DEF QueueAppears, QueueDisappears
  <2>2. \A t \in Queue : tracking'[t] = "joining" <=> tracking[t] = "joining"
    BY <1>2 DEF QueueAppears, QueueDisappears
  <2>3. QED
    BY <2>1, <2>2
<1>3. ASSUME NEW q \in Queue, TrackerStep(q) PROVE LockInv'
  BY <1>3 DEF TrackerStep, QueueServiceAdded, RemoveBegin, RemoveEnd, Writable
<1>4. ASSUME NEW c \in Client, CallLock(c) \/ CallReturn(c) PROVE LockInv'
  BY <1>4 DEF CallLock, CallReturn, Visited, Readable, queueVars
<1>5. QED
  BY <1>1, <1>2, <1>3, <1>4, ThreadFrame
  DEF Next, vars, queueVars, StoreAppears, StoreDisappears, StoreTrackerStep, DataStoreServiceAdded,
      DataStoreServiceRemoved, Call, ClientStep, ReadOne, TrackerClose, StopStep, StoreTrackerClose, Unregister,
      Become, ProcessorDestroy

(* A thread that exists goes on existing until it is joined. *)
LEMMA ThreadStays ==
  ASSUME TypeOK, NEW q \in Queue, ThreadStep(q)
  PROVE  {t \in Queue : thPc'[t] # "none"} = {t \in Queue : thPc[t] # "none"}
<1> USE DEF TypeOK
<1>1. PICK next : next # "none" /\ thPc' = [thPc EXCEPT ![q] = next]
  <2>1. CASE ProcessSample(q)
    BY <2>1 DEF ProcessSample
  <2>2. CASE ~ProcessSample(q)
    BY <2>2 DEF ThreadStep, ReceiveStart, ReceiveCheck, BurstsNext, TakeAllReturn, ProcessEnd, NextRound, BurstsDone,
                SendLock, SendNext, StoreReturn, SendEnd
  <2>3. QED
    BY <2>1, <2>2
<1>2. thPc[q] # "none"
  BY DEF ThreadStep, ReceiveStart, ReceiveCheck, BurstsNext, TakeAllReturn, ProcessSample, ProcessEnd, BurstsDone,
         SendLock, SendNext, StoreReturn, SendEnd
<1>3. QED
  BY <1>1, <1>2

LEMMA MapStep == TypeOK /\ LockInv /\ MapInv /\ [Next]_vars => MapInv'
<1> SUFFICES ASSUME TypeOK, LockInv, MapInv, [Next]_vars PROVE MapInv'
  OBVIOUS
<1> USE DEF TypeOK, MapInv
<1>1. ASSUME NEW q \in Queue, ThreadStep(q) PROVE MapInv'
  BY <1>1, ThreadFrame, ThreadStays
<1>2. ASSUME NEW q \in Queue, QueueAppears(q) \/ QueueDisappears(q) PROVE MapInv'
  <2>1. UNCHANGED <<queueServices, thPc, readers, todo, life>>
    BY <1>2 DEF QueueAppears, QueueDisappears, clientVars
  <2>2. {t \in Queue : tracking'[t] \in {"tracked", "removing", "joining"}} = queueServices
    BY <1>2 DEF QueueAppears, QueueDisappears
  <2>3. life \notin {"closingStores", "unregistered", "destroyed"}
    BY <1>2 DEF QueueAppears, QueueDisappears
  <2>4. QED
    BY <2>1, <2>2, <2>3
<1>3. ASSUME NEW q \in Queue, QueueServiceAdded(q) PROVE MapInv'
  <2>1. queueServices' = queueServices \cup {q} /\ UNCHANGED <<readers, todo, life>>
    BY <1>3 DEF QueueServiceAdded, clientVars
  <2>2. {t \in Queue : tracking'[t] \in {"tracked", "removing", "joining"}} = queueServices \cup {q}
    BY <1>3 DEF QueueServiceAdded
  <2>3. {t \in Queue : thPc'[t] # "none"} = queueServices \cup {q}
    BY <1>3 DEF QueueServiceAdded
  <2>4. life \notin {"closingStores", "unregistered", "destroyed"}
    BY <1>3 DEF QueueServiceAdded
  <2>5. QED
    BY <2>1, <2>2, <2>3, <2>4
<1>4. ASSUME NEW q \in Queue, RemoveBegin(q) PROVE MapInv'
  <2>1. UNCHANGED <<queueServices, thPc, readers, todo, life>>
    BY <1>4 DEF RemoveBegin, clientVars
  <2>2. {t \in Queue : tracking'[t] \in {"tracked", "removing", "joining"}} = queueServices
    BY <1>4 DEF RemoveBegin
  <2>3. life \notin {"closingStores", "unregistered", "destroyed"}
    BY <1>4 DEF RemoveBegin
  <2>4. QED
    BY <2>1, <2>2, <2>3
<1>5. ASSUME NEW q \in Queue, RemoveEnd(q) PROVE MapInv'
  <2>1. readers = {}
    BY <1>5, ProcessorAssumption DEF RemoveEnd, LockInv
  <2>2. queueServices' = queueServices \ {q} /\ UNCHANGED <<readers, life>>
    BY <1>5 DEF RemoveEnd
  <2>3. {t \in Queue : tracking'[t] \in {"tracked", "removing", "joining"}} = queueServices \ {q}
    BY <1>5 DEF RemoveEnd
  <2>4. {t \in Queue : thPc'[t] # "none"} = queueServices \ {q}
    BY <1>5 DEF RemoveEnd
  <2>5. life \notin {"closingStores", "unregistered", "destroyed"}
    BY <1>5 DEF RemoveEnd
  <2>6. QED
    BY <2>1, <2>2, <2>3, <2>4, <2>5
<1>6. ASSUME NEW d \in DataStore, StoreAppears(d) \/ StoreDisappears(d) \/ StoreTrackerStep(d) PROVE MapInv'
  <2>1. UNCHANGED <<queueServices, tracking, thPc, readers, todo, life>>
    BY <1>6 DEF StoreAppears, StoreDisappears, StoreTrackerStep, DataStoreServiceAdded, DataStoreServiceRemoved,
                clientVars, queueVars
  <2>2. QED
    BY <2>1
<1>7. ASSUME NEW c \in Client, Call(c) \/ ClientStep(c) PROVE MapInv'
  <2>1. UNCHANGED <<queueServices, tracking, life, thPc>>
    BY <1>7 DEF Call, ClientStep, CallLock, ReadOne, CallReturn, queueVars
  <2>2. \A d \in readers' : todo'[d] \subseteq queueServices
    BY <1>7 DEF Call, ClientStep, CallLock, ReadOne, CallReturn
  <2>3. QED
    BY <2>1, <2>2
<1>8. CASE TrackerClose \/ StoreTrackerClose \/ Unregister
  BY <1>8 DEF TrackerClose, StoreTrackerClose, Unregister, Become, clientVars, queueVars
<1>9. CASE ProcessorDestroy
  <2>1. queueServices' = {} /\ readers = {} /\ UNCHANGED <<readers, tracking, thPc>>
    BY <1>9 DEF ProcessorDestroy, Writable
  <2>2. \A q \in Queue : tracking[q] = "idle"
    BY <1>9 DEF ProcessorDestroy
  <2>3. queueServices = {}
    BY <2>2
  <2>4. QED
    BY <2>1, <2>2, <2>3
<1>10. CASE UNCHANGED vars
  BY <1>10 DEF vars, clientVars, queueVars
<1>11. QED
  BY <1>1, <1>2, <1>3, <1>4, <1>5, <1>6, <1>7, <1>8, <1>9, <1>10 DEF Next, TrackerStep, StopStep

(* Appending a new element, and removing one, keep a list free of duplicates. *)
LEMMA AppendList ==
  ASSUME NEW S, NEW s \in Seq(S), NEW d \in S, IsInjective(s), d \notin Range(s)
  PROVE  IsInjective(Append(s, d)) /\ Range(Append(s, d)) = Range(s) \cup {d}
<1> DEFINE t == Append(s, d)
<1>1. /\ DOMAIN s = 1..Len(s) /\ DOMAIN t = 1..(Len(s) + 1) /\ Len(s) \in Nat
      /\ t[Len(s) + 1] = d /\ \A k \in 1..Len(s) : t[k] = s[k]
  <2>1. t \in Seq(S) /\ Len(t) = Len(s) + 1
    BY AppendProperties
  <2>2. DOMAIN s = 1..Len(s) /\ DOMAIN t = 1..Len(t) /\ Len(s) \in Nat
    BY <2>1, LenProperties
  <2>3. QED
    BY <2>1, <2>2, AppendProperties
<1> HIDE DEF t
<1>2. \A k \in 1..Len(s) : s[k] # d
  BY <1>1 DEF Range
<1>3. \A k, l \in 1..Len(s) : s[k] = s[l] => k = l
  BY <1>1 DEF IsInjective
<1>4. ASSUME NEW k \in 1..(Len(s) + 1), NEW l \in 1..(Len(s) + 1), t[k] = t[l] PROVE k = l
  <2>1. (k \in 1..Len(s) \/ k = Len(s) + 1) /\ (l \in 1..Len(s) \/ l = Len(s) + 1)
    BY <1>1
  <2>2. QED
    BY <1>1, <1>2, <1>3, <1>4, <2>1
<1>5. Range(t) = Range(s) \cup {d}
  <2>1. \A k \in 1..(Len(s) + 1) : k \in 1..Len(s) \/ k = Len(s) + 1
    BY <1>1
  <2>2. 1..Len(s) \subseteq 1..(Len(s) + 1) /\ Len(s) + 1 \in 1..(Len(s) + 1)
    BY <1>1
  <2>3. QED
    BY <1>1, <2>1, <2>2 DEF Range
<1>6. QED
  BY <1>1, <1>4, <1>5 DEF t, IsInjective

LEMMA RemoveList ==
  ASSUME NEW S, NEW s \in Seq(S), NEW k \in DOMAIN s, IsInjective(s)
  PROVE  IsInjective(RemoveAt(s, k)) /\ Range(RemoveAt(s, k)) = Range(s) \ {s[k]}
<1> DEFINE t == RemoveAt(s, k)
<1>1. t \in Seq(S) /\ Len(t) = Len(s) - 1 /\ \A l \in 1..(Len(s) - 1) : t[l] = IF l < k THEN s[l] ELSE s[l + 1]
  BY RemoveAtProperties
<1> HIDE DEF t
<1>2. DOMAIN s = 1..Len(s) /\ DOMAIN t = 1..(Len(s) - 1) /\ Len(s) \in Nat /\ k \in 1..Len(s)
  BY <1>1, LenProperties
<1>3. \A l, m \in 1..Len(s) : s[l] = s[m] => l = m
  BY <1>2 DEF IsInjective
<1>4. ASSUME NEW l \in 1..(Len(s) - 1), NEW m \in 1..(Len(s) - 1), t[l] = t[m] PROVE l = m
  <2>1. l \in 1..Len(s) /\ l + 1 \in 1..Len(s) /\ m \in 1..Len(s) /\ m + 1 \in 1..Len(s) /\ l \in Int /\ m \in Int
    BY <1>2
  <2>2. CASE l < k /\ m < k
    BY <1>1, <1>3, <1>4, <2>1, <2>2
  <2>3. CASE ~(l < k) /\ ~(m < k)
    <3>1. t[l] = s[l + 1] /\ t[m] = s[m + 1]
      BY <1>1, <2>3
    <3>2. l + 1 = m + 1
      BY <1>3, <1>4, <2>1, <3>1
    <3>3. QED
      BY <2>1, <3>2
  <2>4. CASE l < k /\ ~(m < k)
    <3>1. t[l] = s[l] /\ t[m] = s[m + 1]
      BY <1>1, <2>4
    <3>2. l = m + 1
      BY <1>3, <1>4, <2>1, <3>1
    <3>3. QED
      BY <1>2, <2>1, <2>4, <3>2
  <2>5. CASE ~(l < k) /\ m < k
    <3>1. t[l] = s[l + 1] /\ t[m] = s[m]
      BY <1>1, <2>5
    <3>2. m = l + 1
      BY <1>3, <1>4, <2>1, <3>1
    <3>3. QED
      BY <1>2, <2>1, <2>5, <3>2
  <2>6. QED
    BY <2>2, <2>3, <2>4, <2>5
<1>5. ASSUME NEW l \in 1..(Len(s) - 1) PROVE t[l] \in Range(s) \ {s[k]}
  <2>1. l \in 1..Len(s) /\ l + 1 \in 1..Len(s)
    BY <1>2
  <2>2. CASE l < k
    <3>1. t[l] = s[l] /\ l # k
      BY <1>1, <1>2, <2>2
    <3>2. QED
      BY <1>2, <1>3, <2>1, <3>1 DEF Range
  <2>3. CASE ~(l < k)
    <3>1. t[l] = s[l + 1] /\ l + 1 # k
      BY <1>1, <1>2, <2>3
    <3>2. QED
      BY <1>2, <1>3, <2>1, <3>1 DEF Range
  <2>4. QED
    BY <2>2, <2>3
<1>6. ASSUME NEW l \in 1..Len(s), s[l] # s[k] PROVE s[l] \in Range(t)
  <2>1. CASE l < k
    <3>1. l \in 1..(Len(s) - 1)
      BY <1>2, <2>1
    <3>2. t[l] = s[l]
      BY <1>1, <2>1, <3>1
    <3>3. QED
      BY <1>2, <3>1, <3>2 DEF Range
  <2>2. CASE l > k
    <3>1. l - 1 \in 1..(Len(s) - 1) /\ ~(l - 1 < k) /\ (l - 1) + 1 = l
      BY <1>2, <2>2
    <3>2. t[l - 1] = s[l]
      BY <1>1, <3>1
    <3>3. QED
      BY <1>2, <3>1, <3>2 DEF Range
  <2>3. QED
    BY <1>2, <1>6, <2>1, <2>2
<1>7. Range(t) = Range(s) \ {s[k]}
  <2>1. ASSUME NEW e \in Range(t) PROVE e \in Range(s) \ {s[k]}
    BY <1>2, <1>5, <2>1 DEF Range
  <2>2. ASSUME NEW e \in Range(s), e # s[k] PROVE e \in Range(t)
    BY <1>2, <1>6, <2>2 DEF Range
  <2>3. QED
    BY <2>1, <2>2
<1>8. QED
  BY <1>2, <1>4, <1>7 DEF t, IsInjective

LEMMA ListStep == TypeOK /\ ListInv /\ [Next]_vars => ListInv'
<1> SUFFICES ASSUME TypeOK, ListInv, [Next]_vars PROVE ListInv'
  OBVIOUS
<1> USE DEF TypeOK, ListInv
<1> DEFINE Held == {d \in DataStore : dsTracking[d] \in {"tracked", "removing"}}
<1>1. CASE UNCHANGED <<dataStoreServices, dsTracking, life>>
  BY <1>1
<1>2. ASSUME NEW d \in DataStore, StoreAppears(d) \/ StoreDisappears(d) PROVE ListInv'
  <2>1. dataStoreServices' = dataStoreServices /\ life \notin {"unregistered", "destroyed"} /\ life' = life
    BY <1>2 DEF StoreAppears, StoreDisappears
  <2>2. Held' = Held
    BY <1>2 DEF StoreAppears, StoreDisappears
  <2>3. QED
    BY <2>1, <2>2
<1>3. ASSUME NEW d \in DataStore, DataStoreServiceAdded(d) PROVE ListInv'
  <2>1. /\ dataStoreServices' = Append(dataStoreServices, d) /\ dsTracking[d] = "adding"
        /\ dsTracking' = [dsTracking EXCEPT ![d] = "tracked"] /\ life' = life
    BY <1>3 DEF DataStoreServiceAdded
  <2>2. Held' = Held \cup {d} /\ d \notin Held
    BY <2>1
  <2>3. IsInjective(dataStoreServices') /\ Range(dataStoreServices') = Held \cup {d}
    <3> DEFINE s == dataStoreServices
    <3>1. s \in Seq(DataStore) /\ IsInjective(s) /\ Range(s) = Held
      OBVIOUS
    <3>2. d \notin Range(s)
      BY <2>2, <3>1
    <3> HIDE DEF s, Held
    <3>3. IsInjective(Append(s, d)) /\ Range(Append(s, d)) = Range(s) \cup {d}
      BY <3>1, <3>2, AppendList
    <3>4. dataStoreServices' = Append(s, d)
      BY <2>1 DEF s
    <3>5. QED
      BY <3>1, <3>3, <3>4
  <2>4. QED
    BY <2>1, <2>2, <2>3
<1>4. ASSUME NEW d \in DataStore, DataStoreServiceRemoved(d) PROVE ListInv'
  <2>1. PICK k \in DOMAIN dataStoreServices :
          dataStoreServices[k] = d /\ dataStoreServices' = RemoveAt(dataStoreServices, k)
    BY <1>4 DEF DataStoreServiceRemoved
  <2>2. dsTracking' = [dsTracking EXCEPT ![d] = "idle"] /\ life' = life
    BY <1>4 DEF DataStoreServiceRemoved
  <2>3. Held' = Held \ {d}
    BY <2>2
  <2>4. IsInjective(dataStoreServices') /\ Range(dataStoreServices') = Held \ {d}
    BY <2>1, RemoveList
  <2>5. life' \in {"unregistered", "destroyed"} => \A e \in DataStore : dsTracking'[e] = "idle"
    BY <2>2
  <2>6. QED
    BY <2>3, <2>4, <2>5
<1>5. CASE TrackerClose \/ StoreTrackerClose \/ Unregister
  BY <1>5 DEF TrackerClose, StoreTrackerClose, Unregister, Become, storeVars
<1>6. CASE ProcessorDestroy
  <2>1. dataStoreServices' = <<>> /\ dsTracking' = dsTracking /\ \A d \in DataStore : dsTracking[d] = "idle"
    BY <1>6 DEF ProcessorDestroy
  <2>2. IsInjective(<<>>) /\ Range(<<>>) = {}
    BY DEF IsInjective, Range
  <2>3. QED
    BY <2>1, <2>2
<1>7. QED
  BY <1>1, <1>2, <1>3, <1>4, <1>5, <1>6, ThreadFrame
  DEF Next, vars, storeVars, QueueAppears, QueueDisappears, TrackerStep, QueueServiceAdded, RemoveBegin, RemoveEnd,
      StoreTrackerStep, Call, ClientStep, CallLock, ReadOne, CallReturn, StopStep

(* A step of q that neither enters nor leaves the walk over the list. *)
Quiet(q) ==
  /\ \E next \in ThreadPc \ {"send", "store"} : thPc' = [thPc EXCEPT ![q] = next]
  /\ thPc[q] \notin {"send", "store"}
  /\ UNCHANGED <<i, given, dsReaders, dataStoreServices>>

LEMMA QuietSteps ==
  ASSUME TypeOK, MapInv, NEW q \in Queue,
         \/ ReceiveStart(q) \/ ReceiveCheck(q) \/ BurstsNext(q) \/ TakeAllReturn(q) \/ ProcessSample(q)
         \/ ProcessEnd(q) \/ BurstsDone(q) \/ QueueServiceAdded(q) \/ RemoveEnd(q)
  PROVE  Quiet(q)
<1> USE DEF TypeOK, ThreadPc
<1>1. UNCHANGED <<i, given, dsReaders, dataStoreServices>>
  BY DEF ReceiveStart, ReceiveCheck, BurstsNext, TakeAllReturn, ProcessSample, ProcessEnd, BurstsDone,
         QueueServiceAdded, RemoveEnd, sendVars, storeVars
<1>2. thPc[q] \notin {"send", "store"}
  BY DEF ReceiveStart, ReceiveCheck, BurstsNext, TakeAllReturn, ProcessSample, ProcessEnd, BurstsDone,
         QueueServiceAdded, RemoveEnd, MapInv
<1>3. \E next \in ThreadPc \ {"send", "store"} : thPc' = [thPc EXCEPT ![q] = next]
  <2>1. CASE ProcessSample(q)
    BY <2>1 DEF ProcessSample
  <2>2. CASE ~ProcessSample(q)
    BY <2>2 DEF ReceiveStart, ReceiveCheck, BurstsNext, TakeAllReturn, ProcessEnd, NextRound, BurstsDone,
                QueueServiceAdded, RemoveEnd
  <2>3. QED
    BY <2>1, <2>2
<1>4. QED
  BY <1>1, <1>2, <1>3 DEF Quiet

LEMMA OneMore == ASSUME NEW n \in Nat PROVE \A k \in 1..(n + 1) : k \in 1..n \/ k = n + 1
  OBVIOUS

LEMMA SendStep == TypeOK /\ MapInv /\ SendInv /\ [Next]_vars => SendInv'
<1> SUFFICES ASSUME TypeOK, MapInv, SendInv, [Next]_vars PROVE SendInv'
  OBVIOUS
<1> USE DEF TypeOK, SendInv
<1>1. CASE UNCHANGED <<thPc, i, given, dsReaders, dataStoreServices, queueServices>>
  BY <1>1
<1>2. ASSUME NEW q \in Queue, Quiet(q) PROVE SendInv'
  <2>1. PICK next \in ThreadPc \ {"send", "store"} : thPc' = [thPc EXCEPT ![q] = next]
    BY <1>2 DEF Quiet
  <2>2. thPc[q] \notin {"send", "store"} /\ UNCHANGED <<i, given, dsReaders, dataStoreServices>>
    BY <1>2 DEF Quiet
  <2>3. \A t \in Queue : /\ thPc'[t] \in {"send", "store"} <=> thPc[t] \in {"send", "store"}
                         /\ thPc'[t] = "store" <=> thPc[t] = "store"
    BY <2>1, <2>2
  <2>4. QED
    BY <2>2, <2>3
<1>3. ASSUME NEW q \in Queue, SendLock(q) PROVE SendInv'
  <2>1. /\ thPc[q] = "sendLock" /\ thPc' = [thPc EXCEPT ![q] = "send"] /\ dsReaders' = dsReaders \cup {q}
        /\ i' = i /\ given' = given /\ dataStoreServices' = dataStoreServices
    BY <1>3 DEF SendLock, sendVars, storeVars
  <2>2. i[q] = 0 /\ Len(given[q]) = 0
    BY <2>1
  <2>3. Len(dataStoreServices) \in Nat
    BY LenProperties
  <2>4. QED
    BY <2>1, <2>2, <2>3
<1>4. ASSUME NEW q \in Queue, SendNext(q) PROVE SendInv'
  <2> DEFINE n == i[q]
             d == dataStoreServices[n + 1]
  <2>1. /\ thPc[q] = "send" /\ n < Len(dataStoreServices) /\ thPc' = [thPc EXCEPT ![q] = "store"]
        /\ dsReaders' = dsReaders /\ i' = i /\ dataStoreServices' = dataStoreServices
        /\ given' = [given EXCEPT ![q] = Append(@, d)]
    BY <1>4 DEF SendNext, storeVars
  <2>2. Len(dataStoreServices) \in Nat /\ Len(given[q]) = n /\ n \in Nat
    BY <2>1, LenProperties
  <2>3. d \in DataStore
    BY <2>1, <2>2, ElementOfSeq
  <2>4. given'[q] = Append(given[q], d)
    BY <2>1
  <2>5. Len(given'[q]) = n + 1 /\ given'[q][n + 1] = d /\ \A k \in 1..n : given'[q][k] = given[q][k]
    BY <2>2, <2>3, <2>4, AppendProperties
  <2>6. \A k \in 1..(n + 1) : given'[q][k] = dataStoreServices[k]
    <3>1. \A k \in 1..n : given[q][k] = dataStoreServices[k]
      <4>1. q \in dsReaders
        BY <2>1
      <4>2. \A k \in 1..Len(given[q]) : given[q][k] = dataStoreServices[k]
        BY <4>1
      <4>3. QED
        BY <2>2, <4>2
    <3> HIDE DEF n, d
    <3>2. \A k \in 1..(n + 1) : k \in 1..n \/ k = n + 1
      BY <2>2, OneMore
    <3>3. given'[q][n + 1] = dataStoreServices[n + 1]
      BY <2>5 DEF d
    <3>4. QED
      BY <2>5, <3>1, <3>2, <3>3
  <2>7. n + 1 <= Len(dataStoreServices)
    BY <2>1, <2>2
  <2>8. \A t \in Queue : t # q => thPc'[t] = thPc[t] /\ given'[t] = given[t]
    BY <2>1
  <2>9. thPc'[q] = "store"
    BY <2>1
  <2> HIDE DEF n, d
  <2>10. dsReaders' = {t \in Queue : thPc'[t] \in {"send", "store"}}
    BY <2>1, <2>8, <2>9
  <2>11. i'[q] = n
    BY <2>1 DEF n
  <2>12. /\ Len(given'[q]) = i'[q] + 1 /\ Len(given'[q]) <= Len(dataStoreServices')
         /\ \A k \in 1..Len(given'[q]) : given'[q][k] = dataStoreServices'[k]
    BY <2>1, <2>5, <2>6, <2>7, <2>11
  <2> DEFINE Walk(t) == /\ thPc[t] \notin {"send", "store"} => i[t] = 0
                        /\ Len(given[t]) = IF thPc[t] = "store" THEN i[t] + 1 ELSE i[t]
                        /\ Len(given[t]) <= Len(dataStoreServices) \/ t \notin dsReaders
                        /\ t \in dsReaders => \A k \in 1..Len(given[t]) : given[t][k] = dataStoreServices[k]
  <2>13. ASSUME NEW t \in Queue, t # q PROVE Walk(t)'
    BY <2>1, <2>8, <2>13
  <2>14. Walk(q)'
    BY <2>9, <2>12
  <2>15. \A t \in Queue : Walk(t)'
    BY <2>13, <2>14
  <2>16. QED
    BY <2>10, <2>15
<1>5. ASSUME NEW q \in Queue, StoreReturn(q) PROVE SendInv'
  <2>1. /\ thPc[q] = "store" /\ thPc' = [thPc EXCEPT ![q] = "send"] /\ dsReaders' = dsReaders
        /\ i' = [i EXCEPT ![q] = @ + 1] /\ given' = given /\ dataStoreServices' = dataStoreServices
    BY <1>5 DEF StoreReturn, storeVars
  <2>2. \A t \in Queue : thPc'[t] \in {"send", "store"} <=> thPc[t] \in {"send", "store"}
    BY <2>1
  <2>3. Len(given[q]) = i[q] + 1 /\ i'[q] = i[q] + 1 /\ thPc'[q] = "send"
    BY <2>1
  <2>4. \A t \in Queue : t # q => thPc'[t] = thPc[t] /\ i'[t] = i[t]
    BY <2>1
  <2>5. QED
    BY <2>1, <2>2, <2>3, <2>4
<1>6. ASSUME NEW q \in Queue, SendEnd(q) PROVE SendInv'
  <2>1. /\ thPc[q] = "send" /\ thPc' = [thPc EXCEPT ![q] = "process"] /\ dsReaders' = dsReaders \ {q}
        /\ i' = [i EXCEPT ![q] = 0] /\ given' = [given EXCEPT ![q] = <<>>]
        /\ dataStoreServices' = dataStoreServices
    BY <1>6 DEF SendEnd, storeVars
  <2>2. i'[q] = 0 /\ given'[q] = <<>> /\ Len(<<>>) = 0 /\ thPc'[q] = "process"
    BY <2>1
  <2>3. \A t \in Queue : t # q => thPc'[t] = thPc[t] /\ i'[t] = i[t] /\ given'[t] = given[t]
    BY <2>1
  <2>4. dsReaders' = {t \in Queue : thPc'[t] \in {"send", "store"}}
    BY <2>1, <2>2, <2>3
  <2>5. q \notin dsReaders'
    BY <2>1
  <2>6. QED
    BY <2>1, <2>2, <2>3, <2>4, <2>5, SMTT(30)
<1>7. ASSUME dsReaders = {}, UNCHANGED <<thPc, i, given, dsReaders>> PROVE SendInv'
  BY <1>7
<1>8. ASSUME NEW d \in DataStore, StoreTrackerStep(d) PROVE SendInv'
  <2>1. dsReaders = {} /\ UNCHANGED <<thPc, i, given, dsReaders>>
    BY <1>8 DEF StoreTrackerStep, DataStoreServiceAdded, DataStoreServiceRemoved, StoresWritable, sendVars
  <2>2. QED
    BY <1>7, <2>1
<1>9. CASE ProcessorDestroy
  BY <1>7, <1>9 DEF ProcessorDestroy, StoresWritable, sendVars
<1>10. QED
  BY <1>1, <1>2, <1>3, <1>4, <1>5, <1>6, <1>8, <1>9, QuietSteps, OtherFrame DEF ThreadStep

-----------------------------------------------------------------------------
(* Locks, map, list, threads and callers agree in every reachable state. *)
THEOREM InductiveInvariant == Spec => []IInv
<1>1. Init => IInv
  <2> SUFFICES ASSUME Init PROVE IInv
    OBVIOUS
  <2>1. TypeOK
    <3>1. <<>> \in Seq(DataStore)
      OBVIOUS
    <3>2. given \in [Queue -> Seq(DataStore)] /\ dataStoreServices \in Seq(DataStore)
      BY <3>1 DEF Init
    <3>3. QED
      BY <3>2, ProcessorAssumption DEF Init, TypeOK, ThreadPc
  <2>2. LockInv /\ MapInv
    BY ProcessorAssumption DEF Init, LockInv, MapInv
  <2>3. ListInv
    BY DEF Init, ListInv, IsInjective, Range
  <2>4. SendInv
    BY DEF Init, SendInv
  <2>5. QED
    BY <2>1, <2>2, <2>3, <2>4 DEF IInv
<1>2. IInv /\ [Next]_vars => IInv'
  BY TypeStep, LockStep, MapStep, ListStep, SendStep DEF IInv
<1>3. QED
  BY <1>1, <1>2, PTL DEF Spec

(* A walk that ends has given the result to the whole list. *)
LEMMA WalkEnds ==
  ASSUME IInv, [Next]_vars, NEW q \in Queue, thPc[q] = "send", thPc'[q] = "process"
  PROVE  given[q] = dataStoreServices
<1> USE DEF IInv, TypeOK
<1>1. ASSUME NEW t \in Queue, Quiet(t) PROVE FALSE
  BY <1>1 DEF Quiet
<1>2. ASSUME NEW t \in Queue, SendLock(t) \/ SendNext(t) \/ StoreReturn(t) PROVE FALSE
  BY <1>2 DEF SendLock, SendNext, StoreReturn
<1>3. ASSUME NEW t \in Queue, SendEnd(t), t # q PROVE FALSE
  BY <1>3 DEF SendEnd
<1>4. CASE SendEnd(q)
  <2>1. i[q] >= Len(dataStoreServices) /\ Len(dataStoreServices) \in Nat /\ i[q] \in Nat /\ q \in dsReaders
    BY <1>4, LenProperties DEF SendEnd, SendInv
  <2>2. Len(given[q]) = i[q] /\ Len(given[q]) <= Len(dataStoreServices)
    BY <2>1 DEF SendInv
  <2>3. Len(given[q]) = Len(dataStoreServices)
    BY <2>1, <2>2
  <2>4. \A k \in 1..Len(given[q]) : given[q][k] = dataStoreServices[k]
    BY <2>1 DEF SendInv
  <2>5. QED
    BY <2>3, <2>4, SeqEqual
<1>5. ASSUME UNCHANGED thPc PROVE FALSE
  BY <1>5
<1>6. QED
  BY <1>1, <1>2, <1>3, <1>4, <1>5, QuietSteps, OtherFrame
  DEF ThreadStep, StoreTrackerStep, DataStoreServiceAdded, DataStoreServiceRemoved, ProcessorDestroy

(* Every result reaches every tracked data store exactly once. *)
THEOREM ResultsReachEveryStore == Spec => EveryStoreOnce
<1>1. IInv /\ [Next]_vars =>
        [\A q \in Queue : thPc[q] = "send" /\ thPc'[q] = "process" => given[q] = dataStoreServices]_vars
  BY WalkEnds
<1>2. QED
  BY <1>1, InductiveInvariant, PTL DEF Spec, EveryStoreOnce

(***************************************************************************)
(* The processor is a ServiceUser, of queues and of data stores.            *)
(***************************************************************************)
InQueue == {<<q, q>> : q \in {t \in Queue : thPc[t] = "takeAll"}}
StoresHeld == {d \in DataStore : dsTracking[d] \in {"tracked", "removing"}}
InStore == {<<q, given[q][Len(given[q])]>> : q \in {t \in Queue : thPc[t] = "store"}}

LEMMA QueueUserStep == IInv /\ [Next]_vars => [QueueUser!UserNext]_(QueueUser!userVars)
<1> SUFFICES ASSUME IInv, [Next]_vars
             PROVE  QueueUser!UserNext \/ (queueServices' = queueServices /\ InQueue' = InQueue)
  BY DEF QueueUser!userVars, InQueue
<1> USE DEF IInv, TypeOK
<1>1. ASSUME NEW q \in Queue, BurstsNext(q), thPc'[q] = "takeAll" PROVE QueueUser!UserNext
  <2>1. q \in queueServices /\ queueServices' = queueServices
    BY <1>1 DEF BurstsNext, queueVars, MapInv
  <2>2. InQueue' = InQueue \cup {<<q, q>>} /\ <<q, q>> \notin InQueue
    BY <1>1 DEF BurstsNext, InQueue
  <2>3. QueueUser!Enter(q, q)
    BY <2>1, <2>2 DEF QueueUser!Enter, InQueue
  <2>4. QED
    BY <2>3 DEF QueueUser!UserNext
<1>2. ASSUME NEW q \in Queue, TakeAllReturn(q) PROVE QueueUser!UserNext
  <2>1. queueServices' = queueServices /\ thPc[q] = "takeAll"
    BY <1>2 DEF TakeAllReturn, queueVars
  <2>2. PICK next : next # "takeAll" /\ thPc' = [thPc EXCEPT ![q] = next]
    BY <1>2 DEF TakeAllReturn, NextRound
  <2>3. InQueue' = InQueue \ {<<q, q>>} /\ <<q, q>> \in InQueue
    BY <2>1, <2>2 DEF InQueue
  <2>4. QueueUser!Leave(q, q)
    BY <2>1, <2>3 DEF QueueUser!Leave, InQueue
  <2>5. QED
    BY <2>4 DEF QueueUser!UserNext
<1>3. ASSUME NEW q \in Queue, QueueServiceAdded(q) PROVE QueueUser!UserNext
  <2>1. q \notin queueServices /\ queueServices' = queueServices \cup {q} /\ thPc[q] = "none"
    BY <1>3 DEF QueueServiceAdded, MapInv
  <2>2. InQueue' = InQueue
    BY <1>3, <2>1 DEF QueueServiceAdded, InQueue
  <2>3. QueueUser!Hold(q)
    BY <2>1, <2>2 DEF QueueUser!Hold, InQueue
  <2>4. QED
    BY <2>3 DEF QueueUser!UserNext
<1>4. ASSUME NEW q \in Queue, RemoveEnd(q) PROVE QueueUser!UserNext
  <2>1. q \in queueServices /\ queueServices' = queueServices \ {q} /\ thPc[q] = "exited"
    BY <1>4 DEF RemoveEnd, MapInv
  <2>2. InQueue' = InQueue /\ \A t \in Queue : <<t, q>> \notin InQueue
    BY <1>4, <2>1 DEF RemoveEnd, InQueue
  <2>3. QueueUser!Drop(q)
    BY <2>1, <2>2 DEF QueueUser!Drop, InQueue
  <2>4. QED
    BY <2>3 DEF QueueUser!UserNext
<1>5. CASE ProcessorDestroy
  <2>1. queueServices = {}
    BY <1>5 DEF ProcessorDestroy, MapInv
  <2>2. QED
    BY <1>5, <2>1 DEF ProcessorDestroy, InQueue
<1>6. ASSUME NEW q \in Queue, ThreadStep(q), ~TakeAllReturn(q), ~(BurstsNext(q) /\ thPc'[q] = "takeAll")
      PROVE  queueServices' = queueServices /\ InQueue' = InQueue
  <2>1. PICK next : thPc' = [thPc EXCEPT ![q] = next]
    <3>1. CASE ProcessSample(q)
      BY <3>1 DEF ProcessSample
    <3>2. QED
      BY <1>6, <3>1 DEF ThreadStep, ReceiveStart, ReceiveCheck, BurstsNext, ProcessEnd, NextRound, BurstsDone,
                        SendLock, SendNext, StoreReturn, SendEnd
  <2>2. thPc[q] # "takeAll" /\ thPc'[q] # "takeAll"
    BY <1>6 DEF ThreadStep, ReceiveStart, ReceiveCheck, BurstsNext, ProcessSample, ProcessEnd, NextRound,
                BurstsDone, SendLock, SendNext, StoreReturn, SendEnd
  <2>3. InQueue' = InQueue
    BY <2>1, <2>2 DEF InQueue
  <2>4. QED
    BY <1>6, <2>3, ThreadFrame
<1>7. ASSUME UNCHANGED <<queueServices, thPc>> PROVE queueServices' = queueServices /\ InQueue' = InQueue
  BY <1>7 DEF InQueue
<1>8. ASSUME NEW d \in DataStore, StoreTrackerStep(d) PROVE UNCHANGED <<queueServices, thPc>>
  BY <1>8 DEF StoreTrackerStep, DataStoreServiceAdded, DataStoreServiceRemoved, queueVars
<1>9. QED
  BY <1>1, <1>2, <1>3, <1>4, <1>5, <1>6, <1>7, <1>8, OtherFrame

(* No thread is ever inside a queue that the framework has taken back. *)
THEOREM ProcessorIsQueueUser == Spec => ImplementsQueueUser
<1>1. Init => QueueUser!UserInit
  BY DEF Init, QueueUser!UserInit
<1>2. QED
  BY <1>1, QueueUserStep, InductiveInvariant, PTL DEF Spec, ImplementsQueueUser, QueueUser!UserSpec

(* What a step of the thread of q does to the calls of data stores. *)
LEMMA InStoreFrame ==
  ASSUME TypeOK, NEW q \in Queue, NEW next, thPc' = [thPc EXCEPT ![q] = next],
         \A t \in Queue : t # q => given'[t] = given[t],
         thPc[q] # "store", next # "store"
  PROVE  InStore' = InStore
<1>1. \A t \in Queue : thPc'[t] = "store" <=> thPc[t] = "store"
  BY DEF TypeOK
<1>2. \A t \in Queue : thPc[t] = "store" => given'[t] = given[t]
  OBVIOUS
<1>3. QED
  BY <1>1, <1>2 DEF InStore

LEMMA StoreUserStep == IInv /\ [Next]_vars => [StoreUser!UserNext]_(StoreUser!userVars)
<1> SUFFICES ASSUME IInv, [Next]_vars
             PROVE  StoreUser!UserNext \/ (StoresHeld' = StoresHeld /\ InStore' = InStore)
  BY DEF StoreUser!userVars, InStore, StoresHeld
<1> USE DEF IInv, TypeOK
<1>1. ASSUME NEW q \in Queue, SendNext(q) PROVE StoreUser!UserNext
  <2>1. /\ thPc[q] = "send" /\ thPc' = [thPc EXCEPT ![q] = "store"] /\ dsTracking' = dsTracking
        /\ given' = [given EXCEPT ![q] = Append(@, dataStoreServices[i[q] + 1])] /\ i[q] < Len(dataStoreServices)
    BY <1>1 DEF SendNext, storeVars
  <2>2. i[q] + 1 \in 1..Len(dataStoreServices)
    BY <2>1, LenProperties
  <2>3. PICK d \in DataStore : d = dataStoreServices[i[q] + 1]
    BY <2>2, ElementOfSeq
  <2>4. d \in StoresHeld
    <3>1. d \in Range(dataStoreServices)
      BY <2>2, <2>3, LenProperties DEF Range
    <3>2. QED
      BY <3>1 DEF ListInv, StoresHeld
  <2>5. given'[q] = Append(given[q], d)
    BY <2>1, <2>3
  <2>6. given'[q][Len(given'[q])] = d
    BY <2>5, AppendProperties
  <2>7. \A t \in Queue : t # q => thPc'[t] = thPc[t] /\ given'[t] = given[t]
    BY <2>1
  <2>8. thPc'[q] = "store"
    BY <2>1
  <2>9. InStore' = InStore \cup {<<q, d>>} /\ <<q, d>> \notin InStore
    BY <2>1, <2>6, <2>7, <2>8 DEF InStore
  <2>10. StoresHeld' = StoresHeld
    BY <2>1 DEF StoresHeld
  <2>11. StoreUser!Enter(q, d)
    BY <2>4, <2>9, <2>10 DEF StoreUser!Enter, InStore, StoresHeld
  <2>12. QED
    BY <2>11 DEF StoreUser!UserNext
<1>2. ASSUME NEW q \in Queue, StoreReturn(q) PROVE StoreUser!UserNext
  <2>1. /\ thPc[q] = "store" /\ thPc' = [thPc EXCEPT ![q] = "send"] /\ dsTracking' = dsTracking /\ given' = given
    BY <1>2 DEF StoreReturn, storeVars
  <2>2. Len(given[q]) = i[q] + 1 /\ i[q] \in Nat /\ given[q] \in Seq(DataStore)
    BY <2>1 DEF SendInv
  <2>3. Len(given[q]) \in 1..Len(given[q])
    BY <2>2
  <2>4. PICK d \in DataStore : d = given[q][Len(given[q])]
    BY <2>2, <2>3, ElementOfSeq
  <2>5. InStore' = InStore \ {<<q, d>>} /\ <<q, d>> \in InStore
    BY <2>1, <2>4 DEF InStore
  <2>6. StoresHeld' = StoresHeld
    BY <2>1 DEF StoresHeld
  <2>7. StoreUser!Leave(q, d)
    BY <2>5, <2>6 DEF StoreUser!Leave, InStore, StoresHeld
  <2>8. QED
    BY <2>7 DEF StoreUser!UserNext
<1>3. ASSUME NEW d \in DataStore, DataStoreServiceAdded(d) PROVE StoreUser!UserNext
  <2>1. StoresHeld' = StoresHeld \cup {d} /\ d \notin StoresHeld
    BY <1>3 DEF DataStoreServiceAdded, StoresHeld
  <2>2. InStore' = InStore
    BY <1>3 DEF DataStoreServiceAdded, sendVars, InStore
  <2>3. StoreUser!Hold(d)
    BY <2>1, <2>2 DEF StoreUser!Hold, InStore, StoresHeld
  <2>4. QED
    BY <2>3 DEF StoreUser!UserNext
<1>4. ASSUME NEW d \in DataStore, DataStoreServiceRemoved(d) PROVE StoreUser!UserNext
  <2>1. StoresHeld' = StoresHeld \ {d} /\ d \in StoresHeld
    BY <1>4 DEF DataStoreServiceRemoved, StoresHeld
  <2>2. dsReaders = {} /\ InStore' = InStore
    BY <1>4 DEF DataStoreServiceRemoved, StoresWritable, sendVars, InStore
  <2>3. InStore = {}
    BY <2>2 DEF SendInv, InStore
  <2>4. StoreUser!Drop(d)
    BY <2>1, <2>2, <2>3 DEF StoreUser!Drop, InStore, StoresHeld
  <2>5. QED
    BY <2>4 DEF StoreUser!UserNext
<1>5. ASSUME NEW q \in Queue, Quiet(q) PROVE InStore' = InStore
  <2>1. PICK next \in ThreadPc \ {"send", "store"} : thPc' = [thPc EXCEPT ![q] = next]
    BY <1>5 DEF Quiet
  <2>2. thPc[q] # "store" /\ next # "store" /\ given' = given
    BY <1>5, <2>1 DEF Quiet
  <2>3. QED
    BY <2>1, <2>2, InStoreFrame
<1>6. ASSUME NEW q \in Queue, SendLock(q) PROVE InStore' = InStore
  <2>1. thPc[q] # "store" /\ thPc' = [thPc EXCEPT ![q] = "send"] /\ given' = given
    BY <1>6 DEF SendLock, sendVars
  <2>2. QED
    BY <2>1, InStoreFrame
<1>7. ASSUME NEW q \in Queue, SendEnd(q) PROVE InStore' = InStore
  <2>1. thPc[q] # "store" /\ thPc' = [thPc EXCEPT ![q] = "process"] /\ given' = [given EXCEPT ![q] = <<>>]
    BY <1>7 DEF SendEnd
  <2>2. \A t \in Queue : t # q => given'[t] = given[t]
    BY <2>1
  <2>3. QED
    BY <2>1, <2>2, InStoreFrame
<1>8. ASSUME UNCHANGED <<thPc, given>> PROVE InStore' = InStore
  BY <1>8 DEF InStore
<1>9. ASSUME ~(\E d \in DataStore : StoreTrackerStep(d)) PROVE StoresHeld' = StoresHeld
  <2>1. ASSUME NEW d \in DataStore, StoreAppears(d) \/ StoreDisappears(d) PROVE StoresHeld' = StoresHeld
    BY <2>1 DEF StoreAppears, StoreDisappears, StoresHeld
  <2>2. ASSUME dsTracking' = dsTracking PROVE StoresHeld' = StoresHeld
    BY <2>2 DEF StoresHeld
  <2>3. QED
    BY <1>9, <2>1, <2>2, ThreadFrame
    DEF Next, vars, storeVars, QueueAppears, QueueDisappears, TrackerStep, QueueServiceAdded, RemoveBegin, RemoveEnd,
        Call, ClientStep, CallLock, ReadOne, CallReturn, TrackerClose, StopStep, StoreTrackerClose, Unregister,
        ProcessorDestroy, Become
<1>10. CASE \E d \in DataStore : StoreTrackerStep(d)
  BY <1>3, <1>4, <1>10 DEF StoreTrackerStep
<1>11. CASE ~(\E d \in DataStore : StoreTrackerStep(d))
  <2>1. ProcessorDestroy => UNCHANGED <<thPc, given>>
    BY DEF ProcessorDestroy, sendVars
  <2>2. QED
    BY <1>1, <1>2, <1>5, <1>6, <1>7, <1>8, <1>9, <1>11, <2>1, QuietSteps, OtherFrame DEF ThreadStep
<1>12. QED
  BY <1>10, <1>11

(* No thread is ever inside a data store that the framework has taken back. *)
THEOREM ProcessorIsStoreUser == Spec => ImplementsStoreUser
<1>1. Init => StoreUser!UserInit
  BY DEF Init, StoreUser!UserInit
<1>2. QED
  BY <1>1, StoreUserStep, InductiveInvariant, PTL DEF Spec, ImplementsStoreUser, StoreUser!UserSpec

(***************************************************************************)
(* The throughput that a caller reads.                                      *)
(***************************************************************************)

(* The counters of one thread. *)
Counters(q) ==
  /\ received[q] <= MaxReceived /\ burst_throughput[q] <= MaxReceived
  /\ thPc[q] \in {"takeAll", "process", "sendLock", "send", "store"} => received[q] < BURST_SAMPLES_PER_SEC
  /\ thPc[q] = "process" => j[q] <= numOfRecvSamples[q]
  /\ thPc[q] \in {"sendLock", "send", "store"} => j[q] < numOfRecvSamples[q]

LEMMA CountParts == CountInv <=> \A q \in Queue : Counters(q)
  BY DEF CountInv, Counters

(* A step of the thread of q leaves the counters of the other threads alone. *)
LEMMA CountersOfOthers ==
  ASSUME TypeOK, NEW q \in Queue, ThreadStep(q), NEW t \in Queue, t # q, Counters(t)
  PROVE  Counters(t)'
<1>1. UNCHANGED <<received[t], burst_throughput[t], thPc[t], j[t], numOfRecvSamples[t]>>
  <2> USE DEF TypeOK, dataVars, burstVars
  <2>1. CASE TakeAllReturn(q)
    BY <2>1, SMTT(30) DEF TakeAllReturn, NextRound
  <2>2. CASE ProcessSample(q)
    BY <2>2 DEF ProcessSample
  <2>3. CASE ProcessEnd(q)
    BY <2>3 DEF ProcessEnd, NextRound
  <2>4. CASE ReceiveStart(q) \/ ReceiveCheck(q) \/ BurstsNext(q) \/ BurstsDone(q)
    BY <2>4, SMTT(30) DEF ReceiveStart, ReceiveCheck, BurstsNext, BurstsDone
  <2>5. CASE SendLock(q) \/ SendNext(q) \/ StoreReturn(q) \/ SendEnd(q)
    BY <2>5 DEF SendLock, SendNext, StoreReturn, SendEnd
  <2>6. QED
    BY <2>1, <2>2, <2>3, <2>4, <2>5 DEF ThreadStep
<1>2. QED
  BY <1>1 DEF Counters

LEMMA CountersOfThread ==
  ASSUME TypeOK, NEW q \in Queue, ThreadStep(q), Counters(q)
  PROVE  Counters(q)'
<1>1. /\ received[q] \in Nat /\ burst_throughput[q] \in Nat /\ j[q] \in Nat
      /\ numOfRecvSamples[q] \in Nat /\ numOfRecvSamples[q] <= MAX_BURST_LEN
      /\ BURST_SAMPLES_PER_SEC \in Nat \ {0} /\ MAX_BURST_LEN \in Nat \ {0}
  BY ProcessorAssumption DEF TypeOK
<1>2. MaxReceived = BURST_SAMPLES_PER_SEC + MAX_BURST_LEN - 1 /\ MaxReceived \in Nat
  BY <1>1 DEF MaxReceived
<1> HIDE DEF MaxReceived
<1> USE DEF TypeOK, dataVars, burstVars
<1>3. CASE ReceiveStart(q)
  BY <1>1, <1>3 DEF ReceiveStart, Counters
<1>4. CASE ReceiveCheck(q)
  <2>1. received'[q] = 0 /\ thPc'[q] \in {"bursts", "exited"} /\ burst_throughput' = burst_throughput
    BY <1>4 DEF ReceiveCheck
  <2>2. QED
    BY <1>1, <1>2, <2>1, SMTT(30) DEF Counters
<1>5. CASE BurstsNext(q)
  <2>1. /\ UNCHANGED <<received, burst_throughput, j, numOfRecvSamples>>
        /\ \/ thPc'[q] = "takeAll" /\ received[q] < BURST_SAMPLES_PER_SEC
           \/ thPc'[q] = "burstsDone"
    BY <1>5 DEF BurstsNext
  <2>2. QED
    BY <2>1 DEF Counters
<1>6. CASE TakeAllReturn(q)
  <2>1. CASE NextRound(q) /\ UNCHANGED burstVars
    <3>1. thPc'[q] \in {"bursts", "burstsDone"} /\ UNCHANGED <<received, burst_throughput>>
      BY <1>6, <2>1 DEF TakeAllReturn, NextRound
    <3>2. QED
      BY <3>1 DEF Counters
  <2>2. CASE ~(NextRound(q) /\ UNCHANGED burstVars)
    <3>1. /\ thPc[q] = "takeAll" /\ thPc'[q] = "process" /\ UNCHANGED <<received, burst_throughput>>
          /\ j'[q] = 0 /\ numOfRecvSamples'[q] \in 0..MAX_BURST_LEN
      BY <1>6, <2>2 DEF TakeAllReturn
    <3>2. j'[q] <= numOfRecvSamples'[q]
      BY <1>1, <3>1
    <3>3. QED
      BY <3>1, <3>2 DEF Counters
  <2>3. QED
    BY <2>1, <2>2
<1>7. CASE ProcessSample(q)
  <2>1. CASE thPc' = [thPc EXCEPT ![q] = "sendLock"] /\ UNCHANGED j
    BY <1>7, <2>1 DEF ProcessSample, Counters
  <2>2. CASE j' = [j EXCEPT ![q] = @ + 1] /\ UNCHANGED thPc
    <3>1. j'[q] = j[q] + 1 /\ thPc'[q] = "process" /\ thPc[q] = "process" /\ j[q] < numOfRecvSamples[q]
          /\ UNCHANGED <<received, burst_throughput, numOfRecvSamples>>
      BY <1>7, <2>2 DEF ProcessSample
    <3>2. j'[q] <= numOfRecvSamples[q]
      BY <1>1, <3>1
    <3>3. QED
      BY <3>1, <3>2 DEF Counters
  <2>3. QED
    BY <1>7, <2>1, <2>2 DEF ProcessSample
<1>8. CASE ProcessEnd(q)
  <2>1. /\ received'[q] = received[q] + j[q] /\ thPc[q] = "process" /\ burst_throughput' = burst_throughput
        /\ thPc'[q] \in {"bursts", "burstsDone"}
    BY <1>8 DEF ProcessEnd, NextRound
  <2>2. received[q] < BURST_SAMPLES_PER_SEC /\ j[q] <= MAX_BURST_LEN
    BY <1>1, <2>1 DEF Counters
  <2>3. received'[q] <= MaxReceived
    BY <1>1, <1>2, <2>1, <2>2
  <2>4. QED
    BY <2>1, <2>3 DEF Counters
<1>9. CASE BurstsDone(q)
  <2>1. burst_throughput'[q] = received[q] /\ received'[q] = 0 /\ thPc'[q] = "check"
    BY <1>9 DEF BurstsDone
  <2>2. QED
    BY <1>2, <2>1 DEF Counters
<1>10. CASE SendLock(q) \/ SendNext(q) \/ StoreReturn(q)
  <2>1. /\ UNCHANGED <<received, burst_throughput, j, numOfRecvSamples>>
        /\ thPc[q] \in {"sendLock", "send", "store"} /\ thPc'[q] \in {"sendLock", "send", "store"}
    BY <1>10 DEF SendLock, SendNext, StoreReturn
  <2>2. QED
    BY <2>1 DEF Counters
<1>11. CASE SendEnd(q)
  <2>1. /\ UNCHANGED <<received, burst_throughput, numOfRecvSamples>> /\ j'[q] = j[q] + 1
        /\ thPc[q] = "send" /\ thPc'[q] = "process"
    BY <1>11 DEF SendEnd
  <2>2. j[q] < numOfRecvSamples[q]
    BY <2>1 DEF Counters
  <2>3. j'[q] <= numOfRecvSamples'[q]
    BY <1>1, <2>1, <2>2
  <2>4. QED
    BY <2>1, <2>3 DEF Counters
<1>12. QED
  BY <1>3, <1>4, <1>5, <1>6, <1>7, <1>8, <1>9, <1>10, <1>11 DEF ThreadStep

(* A thread takes a burst only below the samples of its second. *)
LEMMA CountStep == TypeOK /\ CountInv /\ [Next]_vars => CountInv'
<1> SUFFICES ASSUME TypeOK, CountInv, [Next]_vars PROVE CountInv'
  OBVIOUS
<1>1. \A q \in Queue : Counters(q)
  BY CountParts
<1>2. CountInv' <=> \A q \in Queue : Counters(q)'
  BY DEF CountInv, Counters
<1>3. ASSUME NEW q \in Queue, ThreadStep(q) PROVE \A t \in Queue : Counters(t)'
  BY <1>1, <1>3, CountersOfThread, CountersOfOthers
<1>4. ASSUME NEW q \in Queue, QueueServiceAdded(q) \/ RemoveEnd(q) PROVE \A t \in Queue : Counters(t)'
  <2>1. MaxReceived \in Nat
    BY ProcessorAssumption DEF MaxReceived
  <2>2. /\ UNCHANGED <<received, j, numOfRecvSamples>> /\ thPc'[q] \in {"start", "none"} /\ burst_throughput'[q] = 0
        /\ \A t \in Queue : t # q => thPc'[t] = thPc[t] /\ burst_throughput'[t] = burst_throughput[t]
    BY <1>4 DEF QueueServiceAdded, RemoveEnd, burstVars, TypeOK
  <2>3. Counters(q)'
    BY <1>1, <2>1, <2>2 DEF Counters
  <2>4. \A t \in Queue : t # q => Counters(t)'
    BY <1>1, <2>2 DEF Counters
  <2>5. QED
    BY <2>3, <2>4
<1>5. ASSUME UNCHANGED <<received, burst_throughput, thPc, j, numOfRecvSamples>>
      PROVE  \A t \in Queue : Counters(t)'
  BY <1>1, <1>5 DEF Counters
<1>6. QED
  BY <1>2, <1>3, <1>4, <1>5
  DEF Next, vars, dataVars, burstVars, TrackerStep, QueueAppears, QueueDisappears, RemoveBegin, StoreAppears,
      StoreDisappears, StoreTrackerStep, DataStoreServiceAdded, DataStoreServiceRemoved, Call, ClientStep, CallLock,
      ReadOne, CallReturn, TrackerClose, StopStep, StoreTrackerClose, Unregister, Become, ProcessorDestroy

(* Passing one more element adds one element's bound to the bound of the sum. *)
LEMMA SumOfPassed ==
  ASSUME NEW S, IsFiniteSet(S), NEW T \in SUBSET S, NEW x \in T,
         NEW bound \in Nat, NEW sum \in Nat, NEW value \in Nat,
         sum <= Cardinality(S \ T) * bound, value <= bound
  PROVE  sum + value <= Cardinality(S \ (T \ {x})) * bound
<1>1. IsFiniteSet(S \ T)
  BY FS_Difference
<1>2. S \ (T \ {x}) = (S \ T) \cup {x} /\ x \notin S \ T
  OBVIOUS
<1>3. Cardinality((S \ T) \cup {x}) = Cardinality(S \ T) + 1 /\ Cardinality(S \ T) \in Nat
  BY <1>1, <1>2, FS_AddElement, FS_CardinalityType
<1>4. \A n, m \in Nat : (n + 1) * m = n * m + m
  OBVIOUS
<1>5. (Cardinality(S \ T) + 1) * bound = Cardinality(S \ T) * bound + bound
  BY <1>3, <1>4
<1>6. \A k \in Nat : sum <= k => sum + value <= k + bound
  OBVIOUS
<1>7. Cardinality(S \ T) * bound \in Nat
  BY <1>3
<1>8. QED
  BY <1>2, <1>3, <1>5, <1>6, <1>7

(* What a caller has summed up, while the lock keeps the map as it is. *)
LEMMA SumStep == TypeOK /\ LockInv /\ MapInv /\ CountInv /\ SumInv /\ [Next]_vars => SumInv'
<1> SUFFICES ASSUME TypeOK, LockInv, MapInv, CountInv, SumInv, [Next]_vars PROVE SumInv'
  OBVIOUS
<1>1. MaxReceived \in Nat /\ IsFiniteSet(queueServices)
  BY ProcessorAssumption, FS_Subset DEF MaxReceived, TypeOK
<1>2. CASE UNCHANGED <<readers, total, todo, queueServices>>
  BY <1>2 DEF SumInv
<1>3. ASSUME readers = {}, UNCHANGED <<readers, total>> PROVE SumInv'
  BY <1>3 DEF SumInv
<1>4. ASSUME NEW c \in Client, CallLock(c) PROVE SumInv'
  <2>1. /\ c \notin readers /\ readers' = readers \cup {c} /\ UNCHANGED <<total, queueServices>>
        /\ todo'[c] = queueServices /\ \A d \in Client : d # c => todo'[d] = todo[d]
    BY <1>4 DEF CallLock, queueVars, TypeOK
  <2>2. total[c] = 0 /\ queueServices \ queueServices = {} /\ Cardinality({}) = 0 /\ 0 * MaxReceived = 0
    <3>1. total[c] = 0
      BY <2>1 DEF SumInv
    <3>2. Cardinality({}) = 0
      BY FS_EmptySet
    <3>3. queueServices \ queueServices = {} /\ 0 * MaxReceived = 0
      BY <1>1
    <3>4. QED
      BY <3>1, <3>2, <3>3
  <2>3. total'[c] <= Cardinality(queueServices' \ todo'[c]) * MaxReceived
    BY <2>1, <2>2
  <2>4. QED
    BY <2>1, <2>3 DEF SumInv
<1>5. ASSUME NEW c \in Client, ReadOne(c) PROVE SumInv'
  <2>1. PICK q \in todo[c] : /\ total' = [total EXCEPT ![c] = @ + burst_throughput[q]]
                              /\ todo' = [todo EXCEPT ![c] = @ \ {q}]
    BY <1>5 DEF ReadOne
  <2>2. c \in readers /\ readers' = readers /\ queueServices' = queueServices
    BY <1>5 DEF ReadOne, queueVars
  <2>3. /\ todo[c] \in SUBSET queueServices /\ total[c] \in Nat /\ burst_throughput[q] \in Nat
        /\ burst_throughput[q] <= MaxReceived
    BY <2>1, <2>2 DEF MapInv, TypeOK, CountInv
  <2>4. total[c] <= Cardinality(queueServices \ todo[c]) * MaxReceived
    BY <2>2 DEF SumInv
  <2>5. total[c] + burst_throughput[q] <= Cardinality(queueServices \ (todo[c] \ {q})) * MaxReceived
    BY <1>1, <2>1, <2>3, <2>4, SumOfPassed
  <2>6. /\ total'[c] = total[c] + burst_throughput[q] /\ todo'[c] = todo[c] \ {q}
        /\ \A d \in Client : d # c => total'[d] = total[d] /\ todo'[d] = todo[d]
    BY <2>1 DEF TypeOK
  <2>7. QED
    BY <2>2, <2>5, <2>6 DEF SumInv
<1>6. ASSUME NEW c \in Client, CallReturn(c) PROVE SumInv'
  <2>1. /\ readers' = readers \ {c} /\ total'[c] = 0 /\ UNCHANGED <<todo, queueServices>>
        /\ \A d \in Client : d # c => total'[d] = total[d]
    BY <1>6 DEF CallReturn, queueVars, TypeOK
  <2>2. QED
    BY <2>1 DEF SumInv
<1>7. ASSUME NEW q \in Queue, QueueServiceAdded(q) \/ RemoveEnd(q) PROVE SumInv'
  <2>1. readers = {} /\ UNCHANGED <<readers, total>>
    BY <1>7, ProcessorAssumption DEF QueueServiceAdded, RemoveEnd, Writable, LockInv, clientVars
  <2>2. QED
    BY <1>3, <2>1
<1>8. CASE ProcessorDestroy
  BY <1>3, <1>8 DEF ProcessorDestroy, Writable, clientVars
<1>9. QED
  BY <1>2, <1>4, <1>5, <1>6, <1>7, <1>8
  DEF Next, vars, clientVars, queueVars, ThreadStep, ReceiveStart, ReceiveCheck, BurstsNext, TakeAllReturn,
      ProcessSample, ProcessEnd, BurstsDone, SendLock, SendNext, StoreReturn, SendEnd, TrackerStep, QueueAppears,
      QueueDisappears, RemoveBegin, StoreAppears, StoreDisappears, StoreTrackerStep, DataStoreServiceAdded,
      DataStoreServiceRemoved, Call, ClientStep, TrackerClose, StopStep, StoreTrackerClose, Unregister, Become

(* The counters of the threads and the sums of the callers, for every number *)
(* of queues and callers.                                                    *)
THEOREM SumsAreBounded == Spec => [](CountInv /\ SumInv)
<1>1. Init => CountInv /\ SumInv
  <2> SUFFICES ASSUME Init PROVE CountInv /\ SumInv
    OBVIOUS
  <2>1. MaxReceived \in Nat
    BY ProcessorAssumption DEF MaxReceived
  <2>2. CountInv
    BY <2>1 DEF Init, CountInv
  <2>3. SumInv
    BY DEF Init, SumInv
  <2>4. QED
    BY <2>2, <2>3
<1>2. IInv /\ (CountInv /\ SumInv) /\ [Next]_vars => (CountInv /\ SumInv)'
  BY CountStep, SumStep DEF IInv
<1>3. QED
  BY <1>1, <1>2, InductiveInvariant, PTL DEF Spec

(* What a caller of getUtilizationStatsValue returns is within what the      *)
(* threads in the map can receive.                                           *)
THEOREM ThroughputIsInRange == Spec => []ThroughputInRange
<1>1. SumInv => ThroughputInRange
  <2> SUFFICES ASSUME SumInv, NEW c \in Client, Visited(c)
               PROVE  total[c] <= Cardinality(queueServices) * MaxReceived
    BY DEF ThroughputInRange
  <2>1. queueServices \ todo[c] = queueServices
    BY DEF Visited
  <2>2. QED
    BY <2>1 DEF SumInv, Visited
<1>2. QED
  BY <1>1, SumsAreBounded, PTL

================================================================================
