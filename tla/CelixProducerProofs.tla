------------------------- MODULE CelixProducerProofs -------------------------
(* Theorems about CelixProducer, for every set of queues, callers and rates. *)
EXTENDS CelixProducer, FiniteSetTheorems, TLAPS

LEMMA TypeStep == TypeOK /\ [Next]_vars => TypeOK'
<1> SUFFICES ASSUME TypeOK, [Next]_vars PROVE TypeOK'
  OBVIOUS
<1> USE ProducerAssumption DEF TypeOK, ThreadPc, InCall
<1>1. ASSUME NEW s \in Queue, GenerateStart(s) \/ GenerateCheck(s) \/ GenerateTest(s) PROVE TypeOK'
  <2>1. CASE GenerateStart(s)
    BY <2>1 DEF GenerateStart, clientVars, frameVars
  <2>2. CASE GenerateCheck(s)
    <3>1. thPc' \in [Queue -> ThreadPc] /\ rate' \in [Queue -> 0..MAX_SAMPLES_PER_SEC]
      BY <2>2 DEF GenerateCheck
    <3>2. QED
      BY <2>2, <3>1 DEF GenerateCheck, dataVars, clientVars, frameVars
  <2>3. CASE GenerateTest(s)
    BY <2>3 DEF GenerateTest, dataVars, clientVars, frameVars
  <2>4. QED
    BY <1>1, <2>1, <2>2, <2>3
<1>2. ASSUME NEW s \in Queue, BurstsNext(s) \/ SamplesNext(s) PROVE TypeOK'
  BY <1>2 DEF BurstsNext, SamplesNext, SendNext, dataVars, clientVars, frameVars
<1>3. ASSUME NEW s \in Queue, NEW call, NEW stored \in SUBSET Nat, NEW loop \in ThreadPc, NEW done \in ThreadPc,
             SendReturn(s, call, stored, loop, done)
      PROVE  TypeOK'
  <2>1. sent' \in [Queue -> Nat]
    BY <1>3 DEF SendReturn
  <2>2. thPc' \in [Queue -> ThreadPc]
    BY <1>3 DEF SendReturn
  <2>3. QED
    BY <1>3, <2>1, <2>2 DEF SendReturn, dataVars, clientVars, frameVars
<1>4. ASSUME NEW s \in Queue, BurstsReturn(s) PROVE TypeOK'
  <2>1. PICK len \in MIN_BURST_LEN..MAX_BURST_LEN : SendReturn(s, "putAll", 0..len, "bursts", "burstsDone")
    BY <1>4 DEF BurstsReturn
  <2>2. 0..len \in SUBSET Nat
    BY <2>1
  <2>3. QED
    BY <1>3, <2>1, <2>2
<1>5. ASSUME NEW s \in Queue, SamplesReturn(s) PROVE TypeOK'
  <2>1. {0, 1} \in SUBSET Nat
    OBVIOUS
  <2>2. QED
    BY <1>3, <1>5, <2>1 DEF SamplesReturn
<1>6. ASSUME NEW s \in Queue, BurstsDone(s) \/ SamplesDone(s) PROVE TypeOK'
  BY <1>6 DEF BurstsDone, SamplesDone, clientVars, frameVars
<1>7. ASSUME NEW s \in Queue, QueueAppears(s) \/ QueueDisappears(s) PROVE TypeOK'
  BY <1>7 DEF QueueAppears, QueueDisappears, dataVars, threadVars, clientVars
<1>8. ASSUME NEW s \in Queue, TrackerStep(s) PROVE TypeOK'
  <2>1. CASE QueueServiceAdded(s)
    BY <2>1 DEF QueueServiceAdded, clientVars
  <2>2. CASE RemoveBegin(s)
    BY <2>2 DEF RemoveBegin, threadVars, clientVars
  <2>3. CASE RemoveEnd(s)
    <3>1. /\ rate' \in [Queue -> 0..MAX_SAMPLES_PER_SEC] /\ sampleRate' \in [Queue -> 0..MAX_SAMPLES_PER_SEC]
          /\ single_throughput' \in [Queue -> Nat] /\ burst_throughput' \in [Queue -> Nat]
      BY <2>3 DEF RemoveEnd
    <3>2. QED
      BY <2>3, <3>1 DEF RemoveEnd, clientVars
  <2>4. QED
    BY <1>8, <2>1, <2>2, <2>3 DEF TrackerStep
<1>9. ASSUME NEW c \in Client, Call(c) \/ CallLock(c) \/ CallReturn(c) PROVE TypeOK'
  BY <1>9 DEF Call, CallLock, CallReturn, Visited, Reading, dataVars, threadVars, frameVars
<1>10. ASSUME NEW c \in Client, SetOne(c) PROVE TypeOK'
  BY <1>10 DEF SetOne, threadVars, frameVars
<1>11. ASSUME NEW c \in Client, ReadOne(c) PROVE TypeOK'
  <2>1. ASSUME NEW op, NEW s \in Queue PROVE Throughput(op, s) \in Nat
    BY <2>1 DEF Throughput
  <2>2. PICK s \in todo[c] : /\ total' = [total EXCEPT ![c] = @ + Throughput(clPc[c], s)]
                             /\ todo' = [todo EXCEPT ![c] = @ \ {s}]
    BY <1>11 DEF ReadOne
  <2>3. total' \in [Client -> Nat] /\ todo' \in [Client -> SUBSET Queue]
    BY <2>1, <2>2
  <2>4. QED
    BY <1>11, <2>3 DEF ReadOne, dataVars, threadVars, frameVars
<1>12. CASE TrackerClose \/ StopStep \/ UNCHANGED vars
  BY <1>12 DEF TrackerClose, StopStep, Unregister, ProducerStop, ProducerDestroy, vars, dataVars, threadVars,
               clientVars, frameVars
<1>13. QED
  BY <1>1, <1>2, <1>4, <1>5, <1>6, <1>7, <1>8, <1>9, <1>10, <1>11, <1>12 DEF Next, ThreadStep, ClientStep

LEMMA LockStep == TypeOK /\ LockInv /\ [Next]_vars => LockInv'
<1> SUFFICES ASSUME TypeOK, LockInv, [Next]_vars PROVE LockInv'
  OBVIOUS
<1> USE ProducerAssumption DEF TypeOK, LockInv
<1>1. CASE UNCHANGED <<tracking, writer, readers, clPc>>
  BY <1>1
<1>2. ASSUME NEW s \in Queue, QueueAppears(s) \/ QueueDisappears(s) PROVE LockInv'
  BY <1>2 DEF QueueAppears, QueueDisappears, clientVars
<1>3. ASSUME NEW s \in Queue, TrackerStep(s) PROVE LockInv'
  BY <1>3 DEF TrackerStep, QueueServiceAdded, RemoveBegin, RemoveEnd, Writable, clientVars
<1>4. ASSUME NEW c \in Client, Call(c) \/ CallLock(c) \/ CallReturn(c) PROVE LockInv'
  BY <1>4 DEF Call, CallLock, CallReturn, Visited, Readable, Reading, frameVars
<1>5. QED
  BY <1>1, <1>2, <1>3, <1>4
  DEF Next, vars, clientVars, frameVars, ThreadStep, GenerateStart, GenerateCheck, GenerateTest, BurstsNext,
      BurstsReturn, BurstsDone, SamplesNext, SamplesReturn, SamplesDone, SendNext, SendReturn, ClientStep, SetOne,
      ReadOne, TrackerClose, StopStep, Unregister, ProducerStop, ProducerDestroy

(* A thread that exists goes on existing until it is joined. *)
LEMMA ThreadStays ==
  ASSUME TypeOK, NEW s \in Queue, ThreadStep(s)
  PROVE  {t \in Queue : thPc'[t] # "none"} = {t \in Queue : thPc[t] # "none"}
<1> USE DEF TypeOK
<1>1. PICK next : next # "none" /\ thPc' = [thPc EXCEPT ![s] = next]
  BY DEF ThreadStep, GenerateStart, GenerateCheck, GenerateTest, BurstsNext, BurstsReturn, BurstsDone,
         SamplesNext, SamplesReturn, SamplesDone, SendNext, SendReturn
<1>2. thPc[s] # "none"
  BY DEF ThreadStep, GenerateStart, GenerateCheck, GenerateTest, BurstsNext, BurstsReturn, BurstsDone,
         SamplesNext, SamplesReturn, SamplesDone, SendNext, SendReturn
<1>3. QED
  BY <1>1, <1>2

LEMMA MapStep == TypeOK /\ LockInv /\ MapInv /\ [Next]_vars => MapInv'
<1> SUFFICES ASSUME TypeOK, LockInv, MapInv, [Next]_vars PROVE MapInv'
  OBVIOUS
<1> USE DEF TypeOK, MapInv
<1>1. ASSUME NEW s \in Queue, ThreadStep(s) PROVE MapInv'
  <2>1. UNCHANGED <<queueServices, tracking, life, readers, todo>>
    BY <1>1 DEF ThreadStep, GenerateStart, GenerateCheck, GenerateTest, BurstsNext, BurstsReturn, BurstsDone,
                SamplesNext, SamplesReturn, SamplesDone, SendNext, SendReturn, clientVars, frameVars
  <2>2. QED
    BY <1>1, <2>1, ThreadStays
<1>2. ASSUME NEW s \in Queue, QueueAppears(s) \/ QueueDisappears(s) PROVE MapInv'
  BY <1>2 DEF QueueAppears, QueueDisappears, threadVars, clientVars
<1>3. ASSUME NEW s \in Queue, QueueServiceAdded(s) PROVE MapInv'
  BY <1>3 DEF QueueServiceAdded, Writable, clientVars
<1>4. ASSUME NEW s \in Queue, RemoveBegin(s) PROVE MapInv'
  BY <1>4 DEF RemoveBegin, Writable, threadVars, clientVars
<1>5. ASSUME NEW s \in Queue, RemoveEnd(s) PROVE MapInv'
  <2>1. readers = {}
    BY <1>5, ProducerAssumption DEF RemoveEnd, LockInv
  <2>2. QED
    BY <1>5, <2>1 DEF RemoveEnd, clientVars
<1>6. ASSUME NEW c \in Client, Call(c) \/ ClientStep(c) PROVE MapInv'
  <2>1. UNCHANGED <<queueServices, tracking, life, thPc>>
    BY <1>6 DEF Call, ClientStep, CallLock, SetOne, ReadOne, CallReturn, threadVars, frameVars
  <2>2. \A d \in readers' : todo'[d] \subseteq queueServices
    BY <1>6 DEF Call, ClientStep, CallLock, SetOne, ReadOne, CallReturn
  <2>3. QED
    BY <2>1, <2>2
<1>7. CASE TrackerClose \/ Unregister \/ ProducerStop
  BY <1>7 DEF TrackerClose, Unregister, ProducerStop, threadVars, clientVars
<1>8. CASE ProducerDestroy
  BY <1>8 DEF ProducerDestroy, Writable, threadVars, clientVars
<1>9. CASE UNCHANGED vars
  BY <1>9 DEF vars, threadVars, clientVars, frameVars
<1>10. QED
  BY <1>1, <1>2, <1>3, <1>4, <1>5, <1>6, <1>7, <1>8, <1>9 DEF Next, TrackerStep, StopStep

(* The rate is looked at before every call, and a call adds at most a burst. *)
LEMMA RateStep ==
  TypeOK /\ CallsBelowRate /\ RateRespected /\ [Next]_vars => CallsBelowRate' /\ RateRespected'
<1> SUFFICES ASSUME TypeOK, CallsBelowRate, RateRespected, [Next]_vars PROVE CallsBelowRate' /\ RateRespected'
  OBVIOUS
<1> USE ProducerAssumption DEF TypeOK, CallsBelowRate, RateRespected, InCall
<1>1. ASSUME NEW s \in Queue, GenerateStart(s) \/ GenerateCheck(s) \/ GenerateTest(s)
      PROVE  CallsBelowRate' /\ RateRespected'
  <2>1. CASE GenerateStart(s)
    BY <2>1 DEF GenerateStart
  <2>2. CASE GenerateCheck(s)
    BY <2>2 DEF GenerateCheck
  <2>3. CASE GenerateTest(s)
    BY <2>3 DEF GenerateTest
  <2>4. QED
    BY <1>1, <2>1, <2>2, <2>3
<1>2. ASSUME NEW s \in Queue, BurstsNext(s) \/ SamplesNext(s) PROVE CallsBelowRate' /\ RateRespected'
  BY <1>2 DEF BurstsNext, SamplesNext, SendNext
<1>3. ASSUME NEW s \in Queue, BurstsReturn(s) PROVE CallsBelowRate' /\ RateRespected'
  <2>1. PICK len \in MIN_BURST_LEN..MAX_BURST_LEN : SendReturn(s, "putAll", 0..len, "bursts", "burstsDone")
    BY <1>3 DEF BurstsReturn
  <2>2. PICK n \in 0..len : sent' = [sent EXCEPT ![s] = @ + n]
    BY <2>1 DEF SendReturn
  <2>3. thPc[s] = "putAll" /\ UNCHANGED rate /\ len \in Int
    BY <2>1 DEF SendReturn
  <2>4. sent'[s] < rate[s] + MAX_BURST_LEN
    BY <2>1, <2>2, <2>3
  <2>5. PICK next \in {"bursts", "burstsDone"} : thPc' = [thPc EXCEPT ![s] = next]
    BY <2>1 DEF SendReturn
  <2>6. \A t \in Queue : t # s => sent'[t] = sent[t] /\ thPc'[t] = thPc[t]
    BY <2>2, <2>5
  <2>7. thPc'[s] \in {"bursts", "burstsDone"}
    BY <2>5
  <2>8. QED
    BY <2>3, <2>4, <2>6, <2>7
<1>4. ASSUME NEW s \in Queue, SamplesReturn(s) PROVE CallsBelowRate' /\ RateRespected'
  <2>1. PICK n \in {0, 1} : sent' = [sent EXCEPT ![s] = @ + n]
    BY <1>4 DEF SamplesReturn, SendReturn
  <2>2. PICK next \in {"samples", "samplesDone"} : thPc' = [thPc EXCEPT ![s] = next]
    BY <1>4 DEF SamplesReturn, SendReturn
  <2>3. thPc[s] = "put" /\ UNCHANGED rate
    BY <1>4 DEF SamplesReturn, SendReturn
  <2>4. sent'[s] <= rate[s] /\ thPc'[s] \in {"samples", "samplesDone"}
    BY <2>1, <2>2, <2>3
  <2>5. \A t \in Queue : t # s => sent'[t] = sent[t] /\ thPc'[t] = thPc[t]
    BY <2>1, <2>2
  <2>6. QED
    BY <2>3, <2>4, <2>5
<1>5. ASSUME NEW s \in Queue, BurstsDone(s) \/ SamplesDone(s) PROVE CallsBelowRate' /\ RateRespected'
  BY <1>5 DEF BurstsDone, SamplesDone
<1>6. ASSUME NEW s \in Queue, QueueServiceAdded(s) PROVE CallsBelowRate' /\ RateRespected'
  BY <1>6 DEF QueueServiceAdded
<1>7. ASSUME NEW s \in Queue, RemoveEnd(s) PROVE CallsBelowRate' /\ RateRespected'
  <2>1. thPc'[s] = "none" /\ sent' = sent
    BY <1>7 DEF RemoveEnd
  <2>2. \A t \in Queue : t # s => rate'[t] = rate[t] /\ thPc'[t] = thPc[t]
    BY <1>7 DEF RemoveEnd
  <2>3. QED
    BY <2>1, <2>2
<1>8. CASE UNCHANGED <<thPc, sent, rate>>
  BY <1>8
<1>9. QED
  BY <1>1, <1>2, <1>3, <1>4, <1>5, <1>6, <1>7, <1>8
  DEF Next, vars, threadVars, ThreadStep, TrackerStep, QueueAppears, QueueDisappears, RemoveBegin, Call, ClientStep,
      CallLock, SetOne, ReadOne, CallReturn, TrackerClose, StopStep, Unregister, ProducerStop, ProducerDestroy

(* No service joins the map while a caller iterates over it. *)
LEMMA SetSoFarStep ==
  TypeOK /\ LockInv /\ MapInv /\ SetSoFar /\ [Next]_vars => SetSoFar'
<1> SUFFICES ASSUME TypeOK, LockInv, MapInv, SetSoFar, [Next]_vars,
                    NEW c \in readers', Client = {c}, clPc'[c] = "setSampleRate",
                    NEW q \in queueServices' \ todo'[c]
             PROVE  sampleRate'[q] = arg'[c]
  BY DEF SetSoFar
<1> USE DEF TypeOK, SetSoFar
<1>1. CASE UNCHANGED <<readers, clPc, queueServices, todo, sampleRate, arg>>
  BY <1>1
<1>2. ASSUME NEW s \in Queue, QueueServiceAdded(s) \/ RemoveEnd(s) PROVE FALSE
  BY <1>2, ProducerAssumption DEF QueueServiceAdded, RemoveEnd, Writable, LockInv
<1>3. CASE Call(c)
  BY <1>3 DEF Call, LockInv
<1>4. CASE CallLock(c)
  BY <1>4 DEF CallLock, frameVars
<1>5. CASE SetOne(c)
  <2>1. PICK s \in todo[c] : /\ sampleRate' = [sampleRate EXCEPT ![s] = arg[c]]
                             /\ todo' = [todo EXCEPT ![c] = @ \ {s}]
    BY <1>5 DEF SetOne
  <2>2. q \in queueServices \ todo[c] \/ q = s
    BY <1>5, <2>1 DEF SetOne, frameVars
  <2>3. q \in Queue /\ s \in Queue /\ UNCHANGED <<arg, clPc, readers>>
    BY <1>5, <2>1, <2>2 DEF SetOne
  <2>4. QED
    BY <2>1, <2>2, <2>3
<1>6. CASE ReadOne(c) \/ CallReturn(c)
  BY <1>6 DEF ReadOne, CallReturn, Reading
<1>7. CASE ProducerDestroy
  BY <1>7 DEF ProducerDestroy
<1>8. c \in Client
  OBVIOUS
<1>9. QED
  BY <1>1, <1>2, <1>3, <1>4, <1>5, <1>6, <1>7, <1>8
  DEF Next, vars, dataVars, clientVars, frameVars, ThreadStep, GenerateStart, GenerateCheck, GenerateTest,
      BurstsNext, BurstsReturn, BurstsDone, SamplesNext, SamplesReturn, SamplesDone, SendNext, SendReturn,
      QueueAppears, QueueDisappears, TrackerStep, RemoveBegin, ClientStep, TrackerClose, StopStep, Unregister,
      ProducerStop

-----------------------------------------------------------------------------
(* The lock, the map, the threads and the callers agree in every reachable   *)
(* state.                                                                    *)
THEOREM InductiveInvariant == Spec => []IInv
<1>1. Init => IInv
  <2> SUFFICES ASSUME Init PROVE IInv
    OBVIOUS
  <2>1. TypeOK
    BY ProducerAssumption DEF Init, TypeOK, ThreadPc
  <2>2. LockInv /\ MapInv /\ SetSoFar
    BY ProducerAssumption DEF Init, LockInv, MapInv, SetSoFar
  <2>3. CallsBelowRate /\ RateRespected
    BY ProducerAssumption DEF Init, CallsBelowRate, RateRespected, InCall
  <2>4. QED
    BY <2>1, <2>2, <2>3 DEF IInv
<1>2. IInv /\ [Next]_vars => IInv'
  BY TypeStep, LockStep, MapStep, RateStep, SetSoFarStep DEF IInv
<1>3. QED
  BY <1>1, <1>2, PTL DEF Spec

(* Every variable of the producer keeps to its type. *)
THEOREM TypeCorrect == Spec => []TypeOK
<1>1. IInv => TypeOK
  BY DEF IInv
<1>2. QED
  BY <1>1, InductiveInvariant, PTL

(* Thread data are freed only after the thread has ended, and never under a  *)
(* caller that iterates over the map.                                        *)
THEOREM ThreadDataStaysAlive == Spec => []NoUseAfterFree
<1>1. IInv => NoUseAfterFree
  BY DEF IInv, MapInv, NoUseAfterFree
<1>2. QED
  BY <1>1, InductiveInvariant, PTL

(* No round sends more than its rate, up to the end of a burst. *)
THEOREM RateIsRespected == Spec => []RateRespected
<1>1. IInv => RateRespected
  BY DEF IInv
<1>2. QED
  BY <1>1, InductiveInvariant, PTL

(* Only a return ends a call, and it comes when all thread data are visited. *)
LEMMA SetReturns ==
  ASSUME IInv, [Next]_vars, NEW c \in Client, Client = {c}, clPc[c] = "setSampleRate", clPc'[c] = "idle"
  PROVE  \A s \in queueServices' : sampleRate'[s] = arg[c]
<1> USE DEF IInv, TypeOK
<1>1. CASE CallReturn(c)
  <2>1. c \in readers /\ todo[c] = {} /\ UNCHANGED <<queueServices, sampleRate>>
    BY <1>1 DEF CallReturn, Visited, frameVars, dataVars
  <2>2. QED
    BY <2>1 DEF SetSoFar
<1>2. CASE Call(c)
  BY <1>2 DEF Call
<1>3. CASE UNCHANGED clPc
  BY <1>3
<1>4. QED
  BY <1>1, <1>2, <1>3
  DEF Next, vars, clientVars, ThreadStep, GenerateStart, GenerateCheck, GenerateTest, BurstsNext, BurstsReturn,
      BurstsDone, SamplesNext, SamplesReturn, SamplesDone, SendNext, SendReturn, QueueAppears, QueueDisappears,
      TrackerStep, QueueServiceAdded, RemoveBegin, RemoveEnd, ClientStep, CallLock, SetOne, ReadOne, TrackerClose,
      StopStep, Unregister, ProducerStop, ProducerDestroy

(* A setSampleRate without competitors misses no tracked queue. *)
THEOREM SetterReachesAll == Spec => SetReachesAll
<1>1. IInv /\ [Next]_vars =>
        [\A c \in Client :
           Client = {c} /\ clPc[c] = "setSampleRate" /\ clPc'[c] = "idle" =>
             \A s \in queueServices' : sampleRate'[s] = arg[c]]_vars
  BY SetReturns
<1>2. QED
  BY <1>1, InductiveInvariant, PTL DEF Spec, SetReachesAll

-----------------------------------------------------------------------------
(* The producer is a ServiceUser. *)

Inside == {<<s, s>> : s \in {t \in Queue : thPc[t] \in InCall}}

LEMMA UserStep == IInv /\ [Next]_vars => [User!UserNext]_(User!userVars)
<1> SUFFICES ASSUME IInv, [Next]_vars
             PROVE  User!UserNext \/ (queueServices' = queueServices /\ Inside' = Inside)
  BY DEF User!userVars, Inside
<1> USE DEF IInv, TypeOK
<1>1. ASSUME NEW s \in Queue, BurstsNext(s) \/ SamplesNext(s), thPc'[s] \in InCall PROVE User!UserNext
  <2>1. s \in queueServices /\ queueServices' = queueServices
    BY <1>1 DEF BurstsNext, SamplesNext, SendNext, frameVars, MapInv
  <2>2. Inside' = Inside \cup {<<s, s>>} /\ <<s, s>> \notin Inside
    BY <1>1 DEF BurstsNext, SamplesNext, SendNext, Inside, InCall
  <2>3. User!Enter(s, s)
    BY <2>1, <2>2 DEF User!Enter, Inside
  <2>4. QED
    BY <2>3 DEF User!UserNext
<1>2. ASSUME NEW s \in Queue, BurstsReturn(s) \/ SamplesReturn(s) PROVE User!UserNext
  <2>1. queueServices' = queueServices /\ thPc[s] \in InCall
    BY <1>2 DEF BurstsReturn, SamplesReturn, SendReturn, frameVars, InCall
  <2>2. PICK next : next \notin InCall /\ thPc' = [thPc EXCEPT ![s] = next]
    BY <1>2 DEF BurstsReturn, SamplesReturn, SendReturn, InCall
  <2>3. Inside' = Inside \ {<<s, s>>} /\ <<s, s>> \in Inside
    BY <2>1, <2>2 DEF Inside
  <2>4. User!Leave(s, s)
    BY <2>1, <2>3 DEF User!Leave, Inside
  <2>5. QED
    BY <2>4 DEF User!UserNext
<1>3. ASSUME NEW s \in Queue, QueueServiceAdded(s) PROVE User!UserNext
  <2>1. s \notin queueServices /\ queueServices' = queueServices \cup {s} /\ thPc[s] = "none"
    BY <1>3 DEF QueueServiceAdded, MapInv
  <2>2. Inside' = Inside
    BY <1>3, <2>1 DEF QueueServiceAdded, Inside, InCall
  <2>3. User!Hold(s)
    BY <2>1, <2>2 DEF User!Hold, Inside
  <2>4. QED
    BY <2>3 DEF User!UserNext
<1>4. ASSUME NEW s \in Queue, RemoveEnd(s) PROVE User!UserNext
  <2>1. s \in queueServices /\ queueServices' = queueServices \ {s} /\ thPc[s] = "exited"
    BY <1>4 DEF RemoveEnd, MapInv
  <2>2. Inside' = Inside /\ \A t \in Queue : <<t, s>> \notin Inside
    BY <1>4, <2>1 DEF RemoveEnd, Inside, InCall
  <2>3. User!Drop(s)
    BY <2>1, <2>2 DEF User!Drop, Inside
  <2>4. QED
    BY <2>3 DEF User!UserNext
<1>5. CASE ProducerDestroy
  <2>1. queueServices = {}
    BY <1>5 DEF ProducerDestroy, MapInv
  <2>2. QED
    BY <1>5, <2>1 DEF ProducerDestroy, threadVars, Inside
<1>6. ASSUME NEW s \in Queue,
             \/ GenerateStart(s) \/ GenerateCheck(s) \/ GenerateTest(s) \/ BurstsDone(s) \/ SamplesDone(s)
             \/ ((BurstsNext(s) \/ SamplesNext(s)) /\ thPc'[s] \notin InCall)
      PROVE  queueServices' = queueServices /\ Inside' = Inside
  <2>1. PICK next : thPc' = [thPc EXCEPT ![s] = next]
    BY <1>6 DEF GenerateStart, GenerateCheck, GenerateTest, BurstsDone, SamplesDone, BurstsNext, SamplesNext, SendNext
  <2>2. thPc[s] \notin InCall /\ thPc'[s] \notin InCall
    BY <1>6 DEF GenerateStart, GenerateCheck, GenerateTest, BurstsDone, SamplesDone, BurstsNext, SamplesNext,
                SendNext, InCall
  <2>3. Inside' = Inside
    BY <2>1, <2>2 DEF Inside
  <2>4. QED
    BY <1>6, <2>3 DEF GenerateStart, GenerateCheck, GenerateTest, BurstsDone, SamplesDone, BurstsNext, SamplesNext,
                      SendNext, frameVars
<1>7. ASSUME UNCHANGED <<queueServices, thPc>> PROVE queueServices' = queueServices /\ Inside' = Inside
  BY <1>7 DEF Inside
<1>8. QED
  BY <1>1, <1>2, <1>3, <1>4, <1>5, <1>6, <1>7
  DEF Next, vars, threadVars, frameVars, ThreadStep, QueueAppears, QueueDisappears, TrackerStep, RemoveBegin, Call,
      ClientStep, CallLock, SetOne, ReadOne, CallReturn, TrackerClose, StopStep, Unregister, ProducerStop

(* No thread is ever inside a queue that the framework has taken back. *)
THEOREM ProducerIsServiceUser == Spec => ImplementsServiceUser
<1>1. Init => User!UserInit
  BY DEF Init, User!UserInit, InCall
<1>2. QED
  BY <1>1, UserStep, InductiveInvariant, PTL DEF Spec, ImplementsServiceUser, User!UserSpec

-----------------------------------------------------------------------------
(* The averages that callers read.                                            *)

(* What a round has sent is what its thread writes for the callers. *)
LEMMA WrittenStep == IInv /\ WrittenInv /\ [Next]_vars => WrittenInv'
<1> SUFFICES ASSUME IInv, WrittenInv, [Next]_vars PROVE WrittenInv'
  OBVIOUS
<1>1. /\ MaxSingle \in Nat /\ MaxBursts \in Nat
      /\ MaxSingle = MAX_SAMPLES_PER_SEC /\ MaxBursts = MAX_SAMPLES_PER_SEC + MAX_BURST_LEN - 1
      /\ MAX_SAMPLES_PER_SEC \in Nat /\ MAX_BURST_LEN \in Nat \ {0}
  BY ProducerAssumption DEF MaxSingle, MaxBursts
<1>2. ASSUME NEW s \in Queue, BurstsDone(s) PROVE WrittenInv'
  <2>1. /\ burst_throughput'[s] = sent[s] /\ single_throughput' = single_throughput /\ thPc[s] = "burstsDone"
        /\ \A t \in Queue : t # s => burst_throughput'[t] = burst_throughput[t]
    BY <1>2 DEF BurstsDone, IInv, TypeOK
  <2>2. /\ sent[s] = 0 \/ sent[s] < rate[s] + MAX_BURST_LEN
        /\ sent[s] \in Nat /\ rate[s] \in 0..MAX_SAMPLES_PER_SEC
    BY <2>1 DEF IInv, RateRespected, TypeOK
  <2>3. sent[s] <= MaxBursts
    BY <1>1, <2>2
  <2>4. QED
    BY <2>1, <2>3 DEF WrittenInv
<1>3. ASSUME NEW s \in Queue, SamplesDone(s) PROVE WrittenInv'
  <2>1. /\ single_throughput'[s] = sent[s] /\ burst_throughput' = burst_throughput /\ thPc[s] = "samplesDone"
        /\ \A t \in Queue : t # s => single_throughput'[t] = single_throughput[t]
    BY <1>3 DEF SamplesDone, IInv, TypeOK
  <2>2. sent[s] <= rate[s] /\ sent[s] \in Nat /\ rate[s] \in 0..MAX_SAMPLES_PER_SEC
    BY <2>1 DEF IInv, RateRespected, TypeOK
  <2>3. sent[s] <= MaxSingle
    BY <1>1, <2>2
  <2>4. QED
    BY <2>1, <2>3 DEF WrittenInv
<1>4. ASSUME NEW s \in Queue, QueueServiceAdded(s) \/ RemoveEnd(s) PROVE WrittenInv'
  <2>1. /\ single_throughput'[s] = 0 /\ burst_throughput'[s] = 0
        /\ \A t \in Queue : t # s => /\ single_throughput'[t] = single_throughput[t]
                                     /\ burst_throughput'[t] = burst_throughput[t]
    BY <1>4 DEF QueueServiceAdded, RemoveEnd, IInv, TypeOK
  <2>2. 0 <= MaxSingle /\ 0 <= MaxBursts
    BY <1>1
  <2>3. QED
    BY <2>1, <2>2 DEF WrittenInv
<1>5. CASE UNCHANGED <<single_throughput, burst_throughput>>
  BY <1>5 DEF WrittenInv
<1>6. QED
  BY <1>2, <1>3, <1>4, <1>5
  DEF Next, vars, dataVars, ThreadStep, GenerateStart, GenerateCheck, GenerateTest, BurstsNext, BurstsReturn,
      SamplesNext, SamplesReturn, SendNext, SendReturn, TrackerStep, QueueAppears, QueueDisappears, RemoveBegin,
      Call, ClientStep, CallLock, SetOne, ReadOne, CallReturn, TrackerClose, StopStep, Unregister, ProducerStop,
      ProducerDestroy

(* Passing one more element adds one element's bound to the bound of the sum. *)
LEMMA SumOfPassed ==
  ASSUME NEW S, IsFiniteSet(S), NEW T \in SUBSET S, NEW x \in T,
         NEW bound \in Nat, NEW sum \in Nat, NEW value \in Nat,
         sum <= Cardinality(S \ T) * bound, value <= bound
  PROVE  sum + value <= Cardinality(S \ (T \ {x})) * bound
<1>1. IsFiniteSet(S \ T)
  BY FS_Difference
<1>2. S \ (T \ {x}) = (S \ T) \cup {x} /\ x \notin S \ T
  OBVIOUS
<1>3. Cardinality((S \ T) \cup {x}) = Cardinality(S \ T) + 1 /\ Cardinality(S \ T) \in Nat
  BY <1>1, <1>2, FS_AddElement, FS_CardinalityType
<1>4. \A n, m \in Nat : (n + 1) * m = n * m + m
  OBVIOUS
<1>5. (Cardinality(S \ T) + 1) * bound = Cardinality(S \ T) * bound + bound
  BY <1>3, <1>4
<1>6. \A k \in Nat : sum <= k => sum + value <= k + bound
  OBVIOUS
<1>7. Cardinality(S \ T) * bound \in Nat
  BY <1>3
<1>8. QED
  BY <1>2, <1>3, <1>5, <1>6, <1>7

LEMMA ThroughputReach ==
  ASSUME TypeOK, WrittenInv, NEW op, NEW s \in Queue
  PROVE  Throughput(op, s) \in Nat /\ Reach(op) \in Nat /\ Throughput(op, s) <= Reach(op)
<1>1. MaxSingle \in Nat /\ MaxBursts \in Nat
  BY ProducerAssumption DEF MaxSingle, MaxBursts
<1>2. /\ single_throughput[s] \in Nat /\ burst_throughput[s] \in Nat
      /\ single_throughput[s] <= MaxSingle /\ burst_throughput[s] <= MaxBursts
  BY DEF TypeOK, WrittenInv
<1>3. QED
  BY <1>1, <1>2 DEF Throughput, Reach

(* What a caller has summed up, while the lock keeps the map as it is. *)
LEMMA SumStep == IInv /\ WrittenInv /\ SumInv /\ [Next]_vars => SumInv'
<1> SUFFICES ASSUME IInv, WrittenInv, SumInv, [Next]_vars PROVE SumInv'
  OBVIOUS
<1>1. IsFiniteSet(queueServices)
  BY ProducerAssumption, FS_Subset DEF IInv, TypeOK
<1>2. \A op : Reach(op) \in Nat
  BY ProducerAssumption DEF Reach, MaxSingle, MaxBursts
<1>3. CASE UNCHANGED <<readers, total, todo, queueServices, clPc>>
  BY <1>3 DEF SumInv
<1>4. ASSUME readers = {}, UNCHANGED <<readers, total>> PROVE SumInv'
  BY <1>4 DEF SumInv
<1>5. ASSUME NEW c \in Client, Call(c) PROVE SumInv'
  <2>1. /\ c \notin readers /\ UNCHANGED <<readers, total, todo, queueServices>>
        /\ \A d \in Client : d # c => clPc'[d] = clPc[d]
    BY <1>5 DEF Call, frameVars, IInv, LockInv, TypeOK
  <2>2. QED
    BY <2>1 DEF SumInv
<1>6. ASSUME NEW c \in Client, CallLock(c) PROVE SumInv'
  <2>1. /\ c \notin readers /\ readers' = readers \cup {c} /\ UNCHANGED <<total, queueServices, clPc>>
        /\ todo'[c] = queueServices /\ \A d \in Client : d # c => todo'[d] = todo[d]
    BY <1>6 DEF CallLock, frameVars, IInv, TypeOK
  <2>2. total[c] = 0
    BY <2>1 DEF SumInv
  <2>3. Cardinality({}) = 0
    BY FS_EmptySet
  <2>4. queueServices \ queueServices = {} /\ 0 * Reach(clPc[c]) = 0
    BY <1>2
  <2>5. total'[c] <= Cardinality(queueServices' \ todo'[c]) * Reach(clPc'[c])
    BY <2>1, <2>2, <2>3, <2>4
  <2>6. QED
    BY <2>1, <2>5 DEF SumInv
<1>7. ASSUME NEW c \in Client, SetOne(c) PROVE SumInv'
  <2>1. PICK s \in todo[c] : todo' = [todo EXCEPT ![c] = @ \ {s}]
    BY <1>7 DEF SetOne
  <2>2. c \in readers /\ UNCHANGED <<readers, queueServices, clPc, total>>
    BY <1>7 DEF SetOne, frameVars
  <2>3. todo[c] \in SUBSET queueServices /\ total[c] \in Nat
    BY <2>2 DEF IInv, MapInv, TypeOK
  <2>4. total[c] <= Cardinality(queueServices \ todo[c]) * Reach(clPc[c]) /\ 0 <= Reach(clPc[c])
    BY <1>2, <2>2 DEF SumInv
  <2>5. total[c] + 0 <= Cardinality(queueServices \ (todo[c] \ {s})) * Reach(clPc[c])
    BY <1>1, <1>2, <2>1, <2>3, <2>4, SumOfPassed
  <2>6. /\ todo'[c] = todo[c] \ {s} /\ total[c] + 0 = total[c]
        /\ \A d \in Client : d # c => todo'[d] = todo[d]
    BY <2>1, <2>3 DEF IInv, TypeOK
  <2>7. QED
    BY <2>2, <2>5, <2>6 DEF SumInv
<1>8. ASSUME NEW c \in Client, ReadOne(c) PROVE SumInv'
  <2>1. PICK s \in todo[c] : /\ total' = [total EXCEPT ![c] = @ + Throughput(clPc[c], s)]
                             /\ todo' = [todo EXCEPT ![c] = @ \ {s}]
    BY <1>8 DEF ReadOne
  <2>2. c \in readers /\ UNCHANGED <<readers, queueServices, clPc>>
    BY <1>8 DEF ReadOne, frameVars
  <2>3. todo[c] \in SUBSET queueServices /\ total[c] \in Nat /\ s \in Queue
    BY <2>1, <2>2 DEF IInv, MapInv, TypeOK
  <2>4. /\ Throughput(clPc[c], s) \in Nat /\ Throughput(clPc[c], s) <= Reach(clPc[c])
        /\ Reach(clPc[c]) \in Nat
    BY <2>3, ThroughputReach DEF IInv
  <2>5. total[c] <= Cardinality(queueServices \ todo[c]) * Reach(clPc[c])
    BY <2>2 DEF SumInv
  <2>6. total[c] + Throughput(clPc[c], s) <= Cardinality(queueServices \ (todo[c] \ {s})) * Reach(clPc[c])
    BY <1>1, <2>1, <2>3, <2>4, <2>5, SumOfPassed
  <2>7. /\ total'[c] = total[c] + Throughput(clPc[c], s) /\ todo'[c] = todo[c] \ {s}
        /\ \A d \in Client : d # c => total'[d] = total[d] /\ todo'[d] = todo[d]
    BY <2>1 DEF IInv, TypeOK
  <2>8. QED
    BY <2>2, <2>6, <2>7 DEF SumInv
<1>9. ASSUME NEW c \in Client, CallReturn(c) PROVE SumInv'
  <2>1. /\ readers' = readers \ {c} /\ total'[c] = 0 /\ UNCHANGED <<todo, queueServices>>
        /\ \A d \in Client : d # c => total'[d] = total[d] /\ clPc'[d] = clPc[d]
    BY <1>9 DEF CallReturn, frameVars, IInv, TypeOK
  <2>2. QED
    BY <2>1 DEF SumInv
<1>10. ASSUME NEW s \in Queue, QueueServiceAdded(s) \/ RemoveEnd(s) PROVE SumInv'
  <2>1. readers = {} /\ UNCHANGED <<readers, total>>
    BY <1>10, ProducerAssumption DEF QueueServiceAdded, RemoveEnd, Writable, IInv, LockInv, clientVars
  <2>2. QED
    BY <1>4, <2>1
<1>11. CASE ProducerDestroy
  BY <1>4, <1>11 DEF ProducerDestroy, Writable, clientVars
<1>12. QED
  BY <1>3, <1>5, <1>6, <1>7, <1>8, <1>9, <1>10, <1>11
  DEF Next, vars, clientVars, frameVars, ThreadStep, GenerateStart, GenerateCheck, GenerateTest, BurstsNext,
      BurstsReturn, BurstsDone, SamplesNext, SamplesReturn, SamplesDone, SendNext, SendReturn, TrackerStep,
      QueueAppears, QueueDisappears, RemoveBegin, ClientStep, TrackerClose, StopStep, Unregister, ProducerStop

(* What threads write and callers sum up, for every number of queues and     *)
(* callers and every rate.                                                   *)
THEOREM SumsAreBounded == Spec => [](WrittenInv /\ SumInv)
<1>1. Init => WrittenInv /\ SumInv
  <2> SUFFICES ASSUME Init PROVE WrittenInv /\ SumInv
    OBVIOUS
  <2>1. MaxSingle \in Nat /\ MaxBursts \in Nat
    BY ProducerAssumption DEF MaxSingle, MaxBursts
  <2>2. WrittenInv
    BY <2>1 DEF Init, WrittenInv
  <2>3. SumInv
    BY DEF Init, SumInv
  <2>4. QED
    BY <2>2, <2>3
<1>2. IInv /\ (WrittenInv /\ SumInv) /\ [Next]_vars => (WrittenInv /\ SumInv)'
  BY WrittenStep, SumStep
<1>3. QED
  BY <1>1, <1>2, InductiveInvariant, PTL DEF Spec

(* No reading of getSampleRate or getUtilizationStatsValue exceeds what a    *)
(* single thread can reach.                                                  *)
THEOREM AveragesAreInRange == Spec => []AverageInRange
<1>1. SumInv => AverageInRange
  <2> SUFFICES ASSUME SumInv, NEW c \in Client, Visited(c)
               PROVE  total[c] <= Cardinality(queueServices) * Reach(clPc[c])
    BY DEF AverageInRange, Average
  <2>1. queueServices \ todo[c] = queueServices
    BY DEF Visited
  <2>2. QED
    BY <2>1 DEF SumInv, Visited
<1>2. QED
  BY <1>1, SumsAreBounded, PTL

================================================================================
