------------------------ MODULE CelixSampleQueueProofs ------------------------
(***************************************************************************)
(* Theorems about the Celix sample queue, for every set of clients, every   *)
(* capacity and every number of samples.                                    *)
(***************************************************************************)
EXTENDS CelixSampleQueue, SequenceTheorems, FiniteSetTheorems, TLAPS

LEMMA OfferType ==
  ASSUME NEW n \in Nat, offered \in 0..MaxSamples, offered + n <= MaxSamples
  PROVE  Offer(n) \in Seq(Sample) /\ Len(Offer(n)) = n
  BY QueueAssumption DEF Offer, Sample

LEMMA SignalType ==
  ASSUME ControlTypeOK, NEW pcs \in [Client -> InCall \cup {"idle"}], Signal(pcs)
  PROVE  pc' \in [Client -> InCall \cup {"idle"}]
  BY DEF Signal, Waiter, Woken, Waiting, InCall, ControlTypeOK

LEMMA AnswerType ==
  ASSUME ControlTypeOK, NEW c \in Client, NEW status \in Status, NEW n \in Nat, Answer(c, status, n)
  PROVE  retStatus' \in [Client -> Status] /\ out' \in [Client -> Nat]
  BY DEF Answer, ControlTypeOK

LEMMA ReturnType ==
  ASSUME ControlTypeOK, NEW c \in Client, NEW status \in Status, NEW n \in Nat, Return(c, status, n),
         rc' = rc, lock' \in {lock, Free}, fault' = fault
  PROVE  ControlTypeOK'
  BY AnswerType DEF Return, ControlTypeOK

LEMMA QueueTypeStep == QueueTypeOK /\ CountTypeOK /\ PutHasSample /\ [Next]_vars => QueueTypeOK'
<1> SUFFICES ASSUME QueueTypeOK, CountTypeOK, PutHasSample, [Next]_vars PROVE QueueTypeOK'
  OBVIOUS
<1>1. ASSUME NEW c \in Client, NewCall(c) PROVE QueueTypeOK'
  <2>1. ASSUME NEW n \in Nat, offered + n <= MaxSamples, NEW op, NEW before, Call(c, op, Offer(n), before) PROVE QueueTypeOK'
    BY <2>1, OfferType, QueueAssumption DEF Call, queueVars, QueueTypeOK
  <2>2. ASSUME NEW op, NEW before, Call(c, op, <<>>, before) PROVE QueueTypeOK'
    BY <2>2, QueueAssumption DEF Call, queueVars, QueueTypeOK
  <2>3. QED
    BY <1>1, <2>1, <2>2, QueueAssumption DEF NewCall, CallPut, CallPutAll, CallTake, CallTakeAll, QueueTypeOK
<1>2. ASSUME NEW s \in Sample, Store(s), UNCHANGED <<args, offered>> PROVE QueueTypeOK'
  BY <1>2, AppendProperties DEF Store, QueueTypeOK
<1>3. ASSUME queue # <<>>, Remove, UNCHANGED <<accepted, args, offered>> PROVE QueueTypeOK'
  BY <1>3, AppendProperties, HeadTailProperties DEF Remove, QueueTypeOK
<1>4. ASSUME NEW c \in Client, PutStore(c) PROVE QueueTypeOK'
  <2>1. Head(args[c]) \in Sample
    BY <1>4, HeadTailProperties DEF PutStore, PutHasSample, QueueTypeOK
  <2>2. QED
    BY <1>2, <1>4, <2>1 DEF PutStore, queueVars, QueueTypeOK
<1>5. ASSUME NEW c \in Client, PutAllStep(c) PROVE QueueTypeOK'
  <2>1. args[c][idx[c] + 1] \in Sample
    BY <1>5, ElementOfSeq DEF PutAllStep, PutAllMore, QueueTypeOK, CountTypeOK
  <2>2. QED
    BY <1>2, <1>5, <2>1 DEF PutAllStep, queueVars, QueueTypeOK
<1>6. ASSUME NEW c \in Client, TakeSample(c) \/ TakeAllStep(c) PROVE QueueTypeOK'
  BY <1>6, <1>3 DEF TakeSample, TakeAllStep, TakeAllMore
<1>7. CASE DestroyList
  <2>1. queue' = <<>> /\ UNCHANGED <<accepted, taken, args, offered>>
    BY <1>7 DEF DestroyList
  <2>2. QED
    BY <2>1 DEF QueueTypeOK
<1>8. CASE UNCHANGED <<queue, accepted, taken, args, offered>>
  BY <1>8 DEF QueueTypeOK
<1>9. QED
  BY <1>1, <1>4, <1>5, <1>6, <1>7, <1>8
  DEF Next, vars, clientVars, Progress, PutFull, Denied, PutAllLock, PutAllEnd, TakeWait, TakeTimedOut,
      TakeAllWait, TakeAllLock, TakeAllTimedOut, TakeAllEnd, ClientFault, Timeout, SpuriousWake,
      StatStep, StatStart, StatCheck, StatReport, StatFault, Unregister, DestroyStep, DestroyBegin, DestroyFree,
      queueVars

LEMMA ControlTypeStep == TypeOK /\ [Next]_vars => ControlTypeOK'
<1> SUFFICES ASSUME TypeOK, [Next]_vars PROVE ControlTypeOK'
  OBVIOUS
<1> USE DEF TypeOK, ControlTypeOK
<1>1. ASSUME NEW c \in Client, NewCall(c) PROVE ControlTypeOK'
  <2>1. ASSUME NEW op \in {"put", "putAll", "take", "takeAll"}, NEW samples, NEW before \in Nat,
               Call(c, op, samples, before)
        PROVE  ControlTypeOK'
    BY <2>1 DEF Call, InCall
  <2>2. \A n \in Nat : Before(c, n) \subseteq Nat
    BY DEF Before
  <2>3. CASE CallPut(c) \/ CallTake(c) \/ CallTakeAll(c)
    BY <2>1, <2>2, <2>3 DEF CallPut, CallTake, CallTakeAll
  <2>4. CASE CallPutAll(c)
    <3>1. PICK n \in 1..BurstLen : \E before \in Before(c, n) : Call(c, "putAll", Offer(n), before)
      BY <2>4 DEF CallPutAll
    <3>2. n \in Nat
      BY <3>1, QueueAssumption
    <3>3. QED
      BY <2>1, <2>2, <3>1, <3>2
  <2>5. QED
    BY <1>1, <2>3, <2>4 DEF NewCall
<1>2. ASSUME NEW c \in Client, PutStore(c) PROVE ControlTypeOK'
  <2>1. CASE Signal([pc EXCEPT ![c] = "idle"]) /\ Answer(c, "SUCCESS", 1)
    <3>1. pc' \in [Client -> InCall \cup {"idle"}]
      BY <2>1, SignalType
    <3>2. QED
      BY <1>2, <2>1, <3>1, AnswerType DEF PutStore, Status
  <2>2. ASSUME NEW status \in {"SUCCESS", "ENOMEM"}, NEW n \in Nat, Return(c, status, n) PROVE ControlTypeOK'
    BY <1>2, <2>2, ReturnType DEF PutStore, Status
  <2>3. QED
    BY <1>2, <2>1, <2>2 DEF PutStore
<1>3. ASSUME NEW c \in Client, PutAllStep(c) PROVE ControlTypeOK'
  BY <1>3, SignalType DEF PutAllStep, retVars
<1>4. ASSUME NEW c \in Client, PutFull(c) \/ Denied(c) PROVE ControlTypeOK'
  BY <1>4, ReturnType DEF PutFull, Denied, Status
<1>5. ASSUME NEW c \in Client, PutAllEnd(c) PROVE ControlTypeOK'
  BY <1>5, ReturnType DEF PutAllEnd, PutAllStatus, Status, CountTypeOK
<1>6. ASSUME NEW c \in Client, TakeSample(c) \/ TakeTimedOut(c) PROVE ControlTypeOK'
  BY <1>6, ReturnType DEF TakeSample, TakeTimedOut, Status
<1>7. ASSUME NEW c \in Client, PutAllLock(c) \/ TakeAllLock(c) \/ TakeWait(c) \/ TakeAllWait(c)
      PROVE  ControlTypeOK'
  BY <1>7 DEF PutAllLock, TakeAllLock, TakeWait, TakeAllWait, InCall, Waiting, retVars
<1>8. ASSUME NEW c \in Client, TakeAllTimedOut(c) \/ TakeAllEnd(c) \/ TakeAllStep(c) PROVE ControlTypeOK'
  BY <1>8, ReturnType DEF TakeAllTimedOut, TakeAllEnd, TakeAllStep, Status, CountTypeOK, retVars
<1>9. ASSUME NEW c \in Client, Timeout(c) \/ SpuriousWake(c) PROVE ControlTypeOK'
  BY <1>9 DEF Timeout, SpuriousWake, Woken, Waiting, InCall, retVars
<1>10. ASSUME NEW c \in Client, ClientFault(c) PROVE ControlTypeOK'
  BY <1>10 DEF ClientFault, clientVars, retVars
<1>11. CASE StatStep \/ Unregister \/ DestroyBegin \/ DestroyFree
  BY <1>11 DEF StatStep, StatStart, StatCheck, StatReport, StatFault, Unregister, DestroyBegin, DestroyFree,
               clientVars, retVars
<1>12. CASE DestroyList
  BY <1>12 DEF DestroyList, Woken, Waiting, InCall, retVars
<1>13. CASE UNCHANGED vars
  BY <1>13 DEF vars, clientVars, retVars
<1>14. QED
  BY <1>1, <1>2, <1>3, <1>4, <1>5, <1>6, <1>7, <1>8, <1>9, <1>10, <1>11, <1>12, <1>13
  DEF Next, Progress, DestroyStep

LEMMA CountTypeStep == TypeOK /\ [Next]_vars => CountTypeOK'
<1> SUFFICES ASSUME TypeOK, [Next]_vars PROVE CountTypeOK'
  OBVIOUS
<1> USE DEF TypeOK, CountTypeOK
<1>1. ASSUME NEW c \in Client, NewCall(c) PROVE CountTypeOK'
  <2>1. PICK op, samples, before : Call(c, op, samples, before)
    BY <1>1 DEF NewCall, CallPut, CallPutAll, CallTake, CallTakeAll
  <2>2. QED
    BY <2>1 DEF Call, queueVars, countVars
<1>2. ASSUME NEW c \in Client, PutStore(c) PROVE CountTypeOK'
  BY <1>2 DEF PutStore, Store, queueVars
<1>3. ASSUME NEW c \in Client, PutAllStep(c) PROVE CountTypeOK'
  <2>1. currentQueueSize' \in Int
    BY <1>3 DEF PutAllStep, Store, queueVars
  <2>2. UNCHANGED <<putCnt, takeCnt, reported>>
    BY <1>3 DEF PutAllStep, countVars
  <2>3. idx' \in [Client -> Nat]
    BY <1>3 DEF PutAllStep
  <2>4. cnt' \in [Client -> Nat]
    BY <1>3 DEF PutAllStep
  <2>5. QED
    BY <2>1, <2>2, <2>3, <2>4
<1>4. ASSUME NEW c \in Client, PutAllEnd(c) PROVE CountTypeOK'
  BY <1>4 DEF PutAllEnd, queueVars
<1>5. ASSUME NEW c \in Client, TakeSample(c) PROVE CountTypeOK'
  BY <1>5 DEF TakeSample
<1>6. ASSUME NEW c \in Client, TakeAllStep(c) PROVE CountTypeOK'
  BY <1>6 DEF TakeAllStep, countVars
<1>7. ASSUME NEW c \in Client, TakeAllEnd(c) PROVE CountTypeOK'
  BY <1>7 DEF TakeAllEnd
<1>8. CASE StatReport
  BY <1>8 DEF StatReport, queueVars, clientVars
<1>9. CASE UNCHANGED <<currentQueueSize, countVars, idx, cnt>>
  BY <1>9 DEF countVars
<1>10. QED
  BY <1>1, <1>2, <1>3, <1>4, <1>5, <1>6, <1>7, <1>8, <1>9
  DEF Next, vars, clientVars, Progress, PutFull, Denied, PutAllLock, TakeWait, TakeTimedOut,
      TakeAllWait, TakeAllLock, TakeAllTimedOut, ClientFault, Timeout, SpuriousWake,
      StatStep, StatStart, StatCheck, StatFault, Unregister, DestroyStep, DestroyBegin, DestroyList, DestroyFree,
      queueVars

LEMMA OwnerTypeStep == OwnerTypeOK /\ [Next]_vars => OwnerTypeOK'
<1> SUFFICES ASSUME OwnerTypeOK, [Next]_vars PROVE OwnerTypeOK'
  OBVIOUS
<1>1. CASE StatStep
  BY <1>1 DEF StatStep, StatStart, StatCheck, StatReport, StatFault, ownerVars, OwnerTypeOK
<1>2. CASE Unregister \/ DestroyStep
  BY <1>2 DEF Unregister, DestroyStep, DestroyBegin, DestroyList, DestroyFree, OwnerTypeOK
<1>3. CASE UNCHANGED ownerVars
  BY <1>3 DEF ownerVars, OwnerTypeOK
<1>4. QED
  BY <1>1, <1>2, <1>3, ZenonT(40)
  DEF Next, vars, NewCall, CallPut, CallPutAll, CallTake, CallTakeAll, Call, Progress, PutStore, PutFull, Denied,
      PutAllLock, PutAllStep, PutAllEnd, TakeWait, TakeSample, TakeTimedOut, TakeAllWait, TakeAllLock,
      TakeAllTimedOut, TakeAllStep, TakeAllEnd, ClientFault, Timeout, SpuriousWake

(* What a signal does to the program counters: it changes only waiters, and *)
(* makes them contend for the mutex again.                                  *)
LEMMA SignalEffect ==
  ASSUME ControlTypeOK, NEW pcs \in [Client -> InCall \cup {"idle"}], Signal(pcs), NEW c \in Client
  PROVE  \/ pc'[c] = pcs[c]
         \/ pc[c] \in Waiting /\ pc'[c] \in {"take", "takeAll"}
  BY DEF Signal, Waiter, Woken, Waiting, ControlTypeOK

LEMMA PutHasSampleStep == TypeOK /\ PutHasSample /\ [Next]_vars => PutHasSample'
<1> SUFFICES ASSUME TypeOK, PutHasSample, [Next]_vars, NEW p \in Client, pc'[p] = "put" PROVE args'[p] # <<>>
  BY DEF PutHasSample
<1> USE DEF TypeOK, ControlTypeOK, QueueTypeOK
<1>1. ASSUME NEW c \in Client, NewCall(c) PROVE args'[p] # <<>>
  <2>1. CASE CallPut(c)
    <3>1. Offer(1) # <<>>
      <4>1. offered + 1 <= MaxSamples
        BY QueueAssumption, <2>1 DEF CallPut
      <4>2. Offer(1) \in Seq(Sample) /\ Len(Offer(1)) = 1
        BY OfferType, <4>1
      <4>3. Len(<<>>) = 0 /\ 0 # 1
        OBVIOUS
      <4>4. QED
        BY <4>2, <4>3, Zenon
    <3>2. args' = [args EXCEPT ![c] = Offer(1)] /\ pc' = [pc EXCEPT ![c] = "put"]
      BY <2>1 DEF CallPut, Call
    <3>3. QED
      BY <3>1, <3>2 DEF PutHasSample
  <2>2. CASE CallPutAll(c) \/ CallTake(c) \/ CallTakeAll(c)
    BY <2>2 DEF CallPutAll, CallTake, CallTakeAll, Call, PutHasSample
  <2>3. QED
    BY <1>1, <2>1, <2>2 DEF NewCall
<1>2. ASSUME UNCHANGED args, pc'[p] = "put" => pc[p] = "put" PROVE args'[p] # <<>>
  BY <1>2 DEF PutHasSample
<1>3. ASSUME NEW c \in Client, PutStore(c) \/ PutAllStep(c) PROVE args'[p] # <<>>
  <2>1. [pc EXCEPT ![c] = "idle"] \in [Client -> InCall \cup {"idle"}] /\ UNCHANGED args
    BY <1>3 DEF PutStore, PutAllStep
  <2>2. CASE Signal([pc EXCEPT ![c] = "idle"])
    BY <1>2, <2>1, <2>2, SignalEffect
  <2>3. CASE Signal(pc)
    BY <1>2, <2>1, <2>3, SignalEffect
  <2>4. CASE pc' = [pc EXCEPT ![c] = "idle"] \/ UNCHANGED pc
    BY <1>2, <2>1, <2>4
  <2>5. QED
    BY <1>3, <2>2, <2>3, <2>4 DEF PutStore, PutAllStep, Return
<1>4. ASSUME NEW c \in Client, PutFull(c) \/ Denied(c) \/ PutAllLock(c) \/ PutAllEnd(c) PROVE args'[p] # <<>>
  BY <1>2, <1>4 DEF PutFull, Denied, PutAllLock, PutAllEnd, Return
<1>5. ASSUME NEW c \in Client, TakeWait(c) \/ TakeSample(c) \/ TakeTimedOut(c) PROVE args'[p] # <<>>
  BY <1>2, <1>5 DEF TakeWait, TakeSample, TakeTimedOut, Return
<1>6. ASSUME NEW c \in Client, TakeAllWait(c) \/ TakeAllLock(c) \/ TakeAllTimedOut(c) \/ TakeAllEnd(c)
      PROVE  args'[p] # <<>>
  BY <1>2, <1>6 DEF TakeAllWait, TakeAllLock, TakeAllTimedOut, TakeAllEnd, Return
<1>7. ASSUME NEW c \in Client, Timeout(c) \/ SpuriousWake(c) PROVE args'[p] # <<>>
  BY <1>2, <1>7 DEF Timeout, SpuriousWake, Woken, Waiting
<1>8. CASE DestroyList
  BY <1>2, <1>8 DEF DestroyList, Woken
<1>9. CASE UNCHANGED <<pc, args>>
  BY <1>2, <1>9
<1>10. QED
  BY <1>1, <1>3, <1>4, <1>5, <1>6, <1>7, <1>8, <1>9
  DEF Next, vars, clientVars, Progress, TakeAllStep, ClientFault, StatStep, StatStart, StatCheck, StatReport,
      StatFault, Unregister, DestroyStep, DestroyBegin, DestroyFree

LEMMA LockOwnerStep == TypeOK /\ LockOwner /\ [Next]_vars => LockOwner'
<1> SUFFICES ASSUME TypeOK, LockOwner, [Next]_vars PROVE LockOwner'
  OBVIOUS
<1> DEFINE Loop == {"putAllLoop", "takeAllLoop"}
<1> USE QueueAssumption DEF TypeOK, ControlTypeOK
<1>1. ASSUME UNCHANGED lock, \A p \in Client : pc'[p] \in Loop <=> pc[p] \in Loop PROVE LockOwner'
  BY <1>1 DEF LockOwner
<1>2. ASSUME NEW c \in Client, NewCall(c) PROVE LockOwner'
  <2>1. PICK op, samples, before : op \in {"put", "putAll", "take", "takeAll"} /\ Call(c, op, samples, before)
    BY <1>2 DEF NewCall, CallPut, CallPutAll, CallTake, CallTakeAll
  <2>2. QED
    BY <1>1, <2>1 DEF Call
<1>3. ASSUME NEW c \in Client, PutStore(c) \/ PutAllStep(c) PROVE LockOwner'
  <2>1. /\ [pc EXCEPT ![c] = "idle"] \in [Client -> InCall \cup {"idle"}]
        /\ UNCHANGED lock
    BY <1>3 DEF PutStore, PutAllStep
  <2>2. CASE Signal([pc EXCEPT ![c] = "idle"]) /\ pc[c] = "put"
    BY <1>1, <2>1, <2>2, SignalEffect DEF Waiting
  <2>3. CASE Signal(pc)
    BY <1>1, <2>1, <2>3, SignalEffect DEF Waiting
  <2>4. CASE (pc' = [pc EXCEPT ![c] = "idle"] /\ pc[c] = "put") \/ UNCHANGED pc
    BY <1>1, <2>1, <2>4
  <2>5. QED
    BY <1>3, <2>2, <2>3, <2>4 DEF PutStore, PutAllStep, Return
<1>4. ASSUME NEW c \in Client, PutFull(c) \/ Denied(c) \/ TakeSample(c) \/ TakeTimedOut(c) \/ TakeAllTimedOut(c)
      PROVE  LockOwner'
  <2>1. UNCHANGED lock /\ pc' = [pc EXCEPT ![c] = "idle"] /\ pc[c] \in {"put", "putAll", "take", "takeAll"}
    BY <1>4 DEF PutFull, Denied, TakeSample, TakeTimedOut, TakeAllTimedOut, Return
  <2>2. QED
    BY <1>1, <2>1
<1>5. ASSUME NEW c \in Client, PutAllLock(c) \/ TakeAllLock(c) PROVE LockOwner'
  BY <1>5 DEF PutAllLock, TakeAllLock, LockOwner, Lockable
<1>6. ASSUME NEW c \in Client, PutAllEnd(c) \/ TakeAllEnd(c) PROVE LockOwner'
  BY <1>6 DEF PutAllEnd, TakeAllEnd, Return, LockOwner
<1>7. ASSUME NEW c \in Client, TakeWait(c) \/ TakeAllWait(c) PROVE LockOwner'
  BY <1>1, <1>7 DEF TakeWait, TakeAllWait
<1>8. ASSUME NEW c \in Client, Timeout(c) \/ SpuriousWake(c) PROVE LockOwner'
  BY <1>1, <1>8 DEF Timeout, SpuriousWake, Woken, Waiting
<1>9. CASE DestroyList
  BY <1>1, <1>9 DEF DestroyList, Woken
<1>10. CASE UNCHANGED <<lock, pc>>
  BY <1>1, <1>10
<1>11. QED
  BY <1>2, <1>3, <1>4, <1>5, <1>6, <1>7, <1>8, <1>9, <1>10
  DEF Next, vars, clientVars, Progress, TakeAllStep, ClientFault, StatStep, StatStart, StatCheck, StatReport,
      StatFault, Unregister, DestroyStep, DestroyBegin, DestroyFree

LEMMA ClosedUnlockedStep == ClosedUnlocked /\ [Next]_vars => ClosedUnlocked'
<1> SUFFICES ASSUME ClosedUnlocked, [Next]_vars PROVE ClosedUnlocked'
  OBVIOUS
<1> USE DEF ClosedUnlocked, open
<1>1. ASSUME NEW c \in Client, PutAllLock(c) \/ TakeAllLock(c) PROVE ClosedUnlocked'
  BY <1>1 DEF PutAllLock, TakeAllLock, ownerVars
<1>2. ASSUME NEW c \in Client, PutAllEnd(c) \/ TakeAllEnd(c) PROVE ClosedUnlocked'
  BY <1>2 DEF PutAllEnd, TakeAllEnd
<1>3. CASE Unregister \/ DestroyStep
  BY <1>3 DEF Unregister, DestroyStep, DestroyBegin, DestroyList, DestroyFree
<1>4. CASE UNCHANGED <<life, lock>>
  BY <1>4
<1>5. QED
  BY <1>1, <1>2, <1>3, <1>4, ZenonT(40)
  DEF Next, vars, ownerVars, NewCall, CallPut, CallPutAll, CallTake, CallTakeAll, Call, Progress, PutStore, PutFull,
      Denied, PutAllStep, TakeWait, TakeSample, TakeTimedOut, TakeAllWait, TakeAllTimedOut, TakeAllStep,
      ClientFault, Timeout, SpuriousWake, StatStep, StatStart, StatCheck, StatReport, StatFault

LEMMA BurstFreshStep == TypeOK /\ BurstFresh /\ LockOwner /\ [Next]_vars => BurstFresh'
<1> SUFFICES ASSUME TypeOK, BurstFresh, LockOwner, [Next]_vars PROVE BurstFresh'
  OBVIOUS
<1> DEFINE Fresh == {"putAll", "takeAll", "takeAllWait"}
<1> USE DEF TypeOK, ControlTypeOK, CountTypeOK
<1>1. ASSUME \A p \in Client : pc'[p] \in Fresh => pc[p] \in Fresh /\ idx'[p] = idx[p] /\ cnt'[p] = cnt[p]
      PROVE  BurstFresh'
  BY <1>1 DEF BurstFresh
<1>2. ASSUME NEW c \in Client, NewCall(c) PROVE BurstFresh'
  <2>1. PICK op, samples, before : Call(c, op, samples, before)
    BY <1>2 DEF NewCall, CallPut, CallPutAll, CallTake, CallTakeAll
  <2>2. QED
    BY <2>1 DEF Call, BurstFresh
<1>3. ASSUME NEW c \in Client, PutStore(c) PROVE BurstFresh'
  <2>1. [pc EXCEPT ![c] = "idle"] \in [Client -> InCall \cup {"idle"}] /\ UNCHANGED <<idx, cnt>>
    BY <1>3 DEF PutStore
  <2>2. CASE Signal([pc EXCEPT ![c] = "idle"])
    BY <2>1, <2>2 DEF Signal, Waiter, Woken, Waiting, BurstFresh
  <2>3. CASE pc' = [pc EXCEPT ![c] = "idle"]
    BY <1>1, <2>1, <2>3
  <2>4. QED
    BY <1>3, <2>2, <2>3 DEF PutStore, Return
<1>4. ASSUME NEW c \in Client, PutAllStep(c) PROVE BurstFresh'
  <2>1. \A p \in Client \ {c} : idx'[p] = idx[p] /\ cnt'[p] = cnt[p]
    BY <1>4 DEF PutAllStep
  <2>2. pc[c] = "putAllLoop" /\ (Signal(pc) \/ UNCHANGED pc)
    BY <1>4 DEF PutAllStep
  <2>3. QED
    BY <2>1, <2>2 DEF Signal, Waiter, Woken, Waiting, BurstFresh
<1>5. ASSUME NEW c \in Client, PutFull(c) \/ Denied(c) \/ PutAllEnd(c) \/ TakeSample(c) \/ TakeTimedOut(c)
               \/ TakeAllTimedOut(c) \/ TakeAllEnd(c)
      PROVE  BurstFresh'
  <2>1. pc' = [pc EXCEPT ![c] = "idle"] /\ UNCHANGED <<idx, cnt>>
    BY <1>5 DEF PutFull, Denied, PutAllEnd, TakeSample, TakeTimedOut, TakeAllTimedOut, TakeAllEnd, Return
  <2>2. QED
    BY <1>1, <2>1
<1>6. ASSUME NEW c \in Client, PutAllLock(c) \/ TakeAllLock(c) \/ TakeWait(c) \/ TakeAllWait(c) PROVE BurstFresh'
  BY <1>1, <1>6 DEF PutAllLock, TakeAllLock, TakeWait, TakeAllWait
<1>7. ASSUME NEW c \in Client, TakeAllStep(c) PROVE BurstFresh'
  BY <1>1, <1>7 DEF TakeAllStep
<1>8. ASSUME NEW c \in Client, Timeout(c) \/ SpuriousWake(c) PROVE BurstFresh'
  BY <1>8 DEF Timeout, SpuriousWake, Woken, Waiting, BurstFresh
<1>9. CASE DestroyList
  BY <1>9 DEF DestroyList, Woken, BurstFresh
<1>10. CASE UNCHANGED <<pc, idx, cnt>>
  BY <1>1, <1>10
<1>11. QED
  BY <1>2, <1>3, <1>4, <1>5, <1>6, <1>7, <1>8, <1>9, <1>10
  DEF Next, vars, clientVars, Progress, ClientFault, StatStep, StatStart, StatCheck, StatReport,
      StatFault, Unregister, DestroyStep, DestroyBegin, DestroyFree

(* Only the owner of the mutex changes what it has moved and not counted. *)
LEMMA OwnerAlone ==
  ASSUME TypeOK, LockOwner, [Next]_vars, NEW d \in Client, lock = d
  PROVE  \/ PutAllStep(d) \/ PutAllEnd(d) \/ TakeAllStep(d) \/ TakeAllEnd(d)
         \/ UNCHANGED <<lock, countVars, queue, currentQueueSize, accepted, taken>> /\ pc'[d] = pc[d] /\ idx'[d] = idx[d]
            /\ cnt'[d] = cnt[d]
<1> USE QueueAssumption DEF TypeOK, ControlTypeOK, CountTypeOK
<1>1. lock # Free /\ pc[d] \in {"putAllLoop", "takeAllLoop"} /\ \A p \in Client \ {d} : pc[p] \notin {"putAllLoop", "takeAllLoop"}
  BY DEF LockOwner
<1>2. ASSUME NEW c \in Client, NewCall(c)
      PROVE  UNCHANGED <<lock, countVars, queueVars>> /\ pc'[d] = pc[d] /\ idx'[d] = idx[d] /\ cnt'[d] = cnt[d]
  <2>1. PICK op, samples, before : Call(c, op, samples, before)
    BY <1>2 DEF NewCall, CallPut, CallPutAll, CallTake, CallTakeAll
  <2>2. QED
    BY <2>1, <1>1 DEF Call
<1>3. ASSUME NEW c \in Client, Progress(c)
      PROVE  \/ c = d /\ (PutAllStep(d) \/ PutAllEnd(d) \/ TakeAllStep(d) \/ TakeAllEnd(d))
             \/ UNCHANGED <<lock, countVars, queueVars, clientVars>>
  BY <1>1, <1>3, SMTT(30)
  DEF Progress, PutStore, PutFull, Denied, PutAllLock, PutAllStep, PutAllEnd, TakeWait, TakeSample, TakeTimedOut,
      TakeAllWait, TakeAllLock, TakeAllTimedOut, TakeAllStep, TakeAllEnd, ClientFault, Lockable
<1>4. ASSUME NEW c \in Client, Timeout(c) \/ SpuriousWake(c)
      PROVE  UNCHANGED <<lock, countVars, queueVars>> /\ pc'[d] = pc[d] /\ idx'[d] = idx[d] /\ cnt'[d] = cnt[d]
  BY <1>1, <1>4 DEF Timeout, SpuriousWake, Waiting
<1>5. ASSUME StatStep \/ Unregister \/ DestroyStep PROVE UNCHANGED <<lock, countVars, queueVars, clientVars>>
  BY <1>1, <1>5
  DEF StatStep, StatStart, StatCheck, StatReport, StatFault, Unregister, DestroyStep, DestroyBegin, DestroyList,
      DestroyFree, Lockable
<1>6. QED
  BY <1>2, <1>3, <1>4, <1>5 DEF Next, vars, queueVars, clientVars

(* While nobody owns the mutex, a step either stores one sample in a queue   *)
(* that is not full, removes one, drops the list, or leaves list and counter *)
(* alone.                                                                    *)
LEMMA UnownedStep ==
  ASSUME TypeOK, PutHasSample, LockOwner, [Next]_vars, lock = Free
  PROVE  \/ /\ \E s \in Sample : Store(s)
            /\ open /\ Len(queue) < MAX_QUEUE_SIZE /\ UNCHANGED <<lock, life>>
         \/ /\ Remove /\ UNCHANGED accepted
            /\ open /\ queue # <<>> /\ currentQueueSize' = currentQueueSize - 1 /\ UNCHANGED <<lock, life>>
         \/ DestroyList
         \/ UNCHANGED queueVars /\ (open' <=> open)
<1> USE QueueAssumption DEF TypeOK, ControlTypeOK
<1>1. ASSUME NEW c \in Client, PutStore(c)
      PROVE  \/ (\E s \in Sample : Store(s)) /\ open /\ Len(queue) < MAX_QUEUE_SIZE /\ UNCHANGED <<lock, life>>
             \/ UNCHANGED queueVars /\ UNCHANGED life
  <2>1. Head(args[c]) \in Sample
    BY <1>1, HeadTailProperties DEF PutStore, PutHasSample, QueueTypeOK
  <2>2. QED
    BY <1>1, <2>1 DEF PutStore, ownerVars
<1>2. ASSUME NEW c \in Client, TakeSample(c)
      PROVE  /\ Remove /\ UNCHANGED accepted
             /\ open /\ queue # <<>> /\ currentQueueSize' = currentQueueSize - 1 /\ UNCHANGED <<lock, life>>
  BY <1>2 DEF TakeSample, ownerVars
<1>3. ASSUME NEW c \in Client, PutAllStep(c) \/ PutAllEnd(c) \/ TakeAllStep(c) \/ TakeAllEnd(c) PROVE FALSE
  BY <1>3 DEF PutAllStep, PutAllEnd, TakeAllStep, TakeAllEnd, LockOwner
<1>4. ASSUME NEW c \in Client, NewCall(c) \/ Timeout(c) \/ SpuriousWake(c) PROVE UNCHANGED queueVars /\ UNCHANGED life
  BY <1>4 DEF NewCall, CallPut, CallPutAll, CallTake, CallTakeAll, Call, Timeout, SpuriousWake, ownerVars
<1>5. ASSUME NEW c \in Client,
             PutFull(c) \/ Denied(c) \/ PutAllLock(c) \/ TakeWait(c) \/ TakeTimedOut(c) \/ TakeAllWait(c)
               \/ TakeAllLock(c) \/ TakeAllTimedOut(c) \/ ClientFault(c)
      PROVE  UNCHANGED queueVars /\ UNCHANGED life
  BY <1>5 DEF PutFull, Denied, PutAllLock, TakeWait, TakeTimedOut, TakeAllWait, TakeAllLock, TakeAllTimedOut,
              ClientFault, ownerVars
<1>6. ASSUME StatStep \/ Unregister \/ DestroyBegin \/ DestroyFree PROVE UNCHANGED queueVars /\ (open' <=> open)
  BY <1>6 DEF StatStep, StatStart, StatCheck, StatReport, StatFault, Unregister, DestroyBegin, DestroyFree, open, ownerVars
<1>7. CASE UNCHANGED vars
  BY <1>7 DEF vars, ownerVars, open
<1>8. QED
  BY <1>1, <1>2, <1>3, <1>4, <1>5, <1>6, <1>7 DEF Next, Progress, DestroyStep, open

(* A free mutex stays free or is taken by a burst that has not begun. *)
LEMMA LockTaken ==
  ASSUME lock = Free, LockOwner, [Next]_vars
  PROVE  lock' = Free \/ \E c \in Client : PutAllLock(c) \/ TakeAllLock(c)
<1>1. ASSUME NEW c \in Client, NewCall(c) \/ Timeout(c) \/ SpuriousWake(c) \/ ClientFault(c) PROVE lock' = lock
  BY <1>1 DEF NewCall, CallPut, CallPutAll, CallTake, CallTakeAll, Call, Timeout, SpuriousWake, ClientFault
<1>2. ASSUME NEW c \in Client, PutStore(c) \/ PutFull(c) \/ Denied(c) \/ PutAllStep(c) \/ PutAllEnd(c)
      PROVE  lock' \in {lock, Free}
  BY <1>2 DEF PutStore, PutFull, Denied, PutAllStep, PutAllEnd
<1>3. ASSUME NEW c \in Client,
             \/ TakeWait(c) \/ TakeSample(c) \/ TakeTimedOut(c) \/ TakeAllWait(c) \/ TakeAllTimedOut(c)
             \/ TakeAllStep(c) \/ TakeAllEnd(c)
      PROVE  lock' \in {lock, Free}
  BY <1>3 DEF TakeWait, TakeSample, TakeTimedOut, TakeAllWait, TakeAllTimedOut, TakeAllStep, TakeAllEnd
<1>4. CASE StatStep \/ Unregister \/ DestroyStep
  BY <1>4 DEF StatStep, StatStart, StatCheck, StatReport, StatFault, Unregister, DestroyStep, DestroyBegin,
              DestroyList, DestroyFree
<1>5. QED
  BY <1>1, <1>2, <1>3, <1>4 DEF Next, vars, Progress

LEMMA UncountedFresh ==
  ASSUME TypeOK, BurstFresh, LockOwner, lock = Free, [Next]_vars
  PROVE  Uncounted("takeAllLoop", idx)' = 0 /\ Uncounted("putAllLoop", cnt)' = 0
<1>1. ASSUME NEW c \in Client, PutAllLock(c) \/ TakeAllLock(c)
      PROVE  lock' = c /\ idx'[c] = 0 /\ cnt'[c] = 0
  BY <1>1 DEF PutAllLock, TakeAllLock, BurstFresh
<1>2. QED
  BY <1>1, LockTaken DEF Uncounted

LEMMA StoreLength ==
  ASSUME QueueTypeOK, NEW s \in Sample, Store(s)
  PROVE  Len(queue') = Len(queue) + 1 /\ Len(accepted') = Len(accepted) + 1
  BY AppendProperties DEF Store, QueueTypeOK

LEMMA RemoveLength ==
  ASSUME QueueTypeOK, queue # <<>>, Remove
  PROVE  Len(queue') = Len(queue) - 1 /\ Len(taken') = Len(taken) + 1 /\ Len(queue) \in Nat
  BY AppendProperties, HeadTailProperties, LenProperties DEF Remove, QueueTypeOK

LEMMA SizeStep == IInv /\ [Next]_vars => SizeInRange' /\ SizeConsistent'
<1> SUFFICES ASSUME IInv, [Next]_vars PROVE SizeInRange' /\ SizeConsistent'
  OBVIOUS
<1> USE QueueAssumption DEF IInv
<1>1. Len(queue) \in Nat /\ currentQueueSize \in Int
  BY LenProperties DEF TypeOK, QueueTypeOK, CountTypeOK
<1>2. CASE lock = Free
  <2>1. open => currentQueueSize = Len(queue)
    BY <1>1, <1>2 DEF SizeConsistent, Uncounted
  <2>2. Uncounted("takeAllLoop", idx)' = 0
    BY <1>2, UncountedFresh
  <2>3. ASSUME NEW s \in Sample, Store(s), open, Len(queue) < MAX_QUEUE_SIZE PROVE SizeInRange' /\ SizeConsistent'
    <3>1. Len(queue') = Len(queue) + 1 /\ currentQueueSize' = currentQueueSize + 1
      BY <2>3, StoreLength DEF TypeOK, Store
    <3>2. QED
      BY <1>1, <2>1, <2>2, <2>3, <3>1 DEF SizeInRange, SizeConsistent
  <2>4. ASSUME Remove, open, queue # <<>>, currentQueueSize' = currentQueueSize - 1
        PROVE  SizeInRange' /\ SizeConsistent'
    <3>1. Len(queue') = Len(queue) - 1 /\ Len(queue) > 0
      BY <2>4, RemoveLength, EmptySeq, LenProperties DEF TypeOK, QueueTypeOK
    <3>2. QED
      BY <1>1, <2>1, <2>2, <2>4, <3>1 DEF SizeInRange, SizeConsistent
  <2>5. CASE DestroyList
    <3>1. queue' = <<>> /\ UNCHANGED currentQueueSize /\ ~open'
      BY <2>5 DEF DestroyList, open
    <3>2. QED
      BY <3>1 DEF SizeInRange, SizeConsistent
  <2>6. CASE UNCHANGED queueVars /\ (open' <=> open)
    BY <1>1, <2>1, <2>2, <2>6 DEF SizeInRange, SizeConsistent, queueVars
  <2>7. QED
    BY <1>2, <2>3, <2>4, <2>5, <2>6, UnownedStep
<1>3. ASSUME NEW d \in Client, lock = d PROVE SizeInRange' /\ SizeConsistent'
  <2>1. open /\ lock # Free /\ idx[d] \in Nat
    BY <1>3 DEF ClosedUnlocked, TypeOK, CountTypeOK
  <2>2. CASE PutAllStep(d)
    <3>1. pc[d] = "putAllLoop" /\ currentQueueSize = Len(queue)
      BY <1>1, <1>3, <2>1, <2>2 DEF PutAllStep, SizeConsistent, Uncounted
    <3>2. pc'[d] = "putAllLoop" /\ lock' = d
      BY <1>3, <2>2, <3>1, SignalEffect DEF PutAllStep, Waiting, TypeOK, ControlTypeOK
    <3>3. Uncounted("takeAllLoop", idx)' = 0
      BY <3>2 DEF Uncounted
    <3>4. args[d][idx[d] + 1] \in Sample
      BY <2>2, ElementOfSeq DEF PutAllStep, PutAllMore, TypeOK, QueueTypeOK, CountTypeOK
    <3>5. \/ /\ Len(queue') = Len(queue) + 1 /\ currentQueueSize' = currentQueueSize + 1
             /\ Len(queue) < MAX_QUEUE_SIZE
          \/ UNCHANGED <<queue, currentQueueSize>>
      BY <2>2, <3>4, StoreLength DEF PutAllStep, PutAllMore, Store, TypeOK, queueVars
    <3>6. QED
      BY <1>1, <3>1, <3>3, <3>5 DEF SizeInRange, SizeConsistent
  <2>3. CASE PutAllEnd(d)
    <3>1. pc[d] = "putAllLoop" /\ currentQueueSize = Len(queue)
      BY <1>1, <1>3, <2>1, <2>3 DEF PutAllEnd, SizeConsistent, Uncounted
    <3>2. QED
      BY <1>1, <2>3, <3>1 DEF PutAllEnd, SizeInRange, SizeConsistent, Uncounted, queueVars
  <2>4. CASE TakeAllStep(d)
    <3>1. pc[d] = "takeAllLoop" /\ currentQueueSize = Len(queue) + idx[d]
      BY <1>1, <1>3, <2>1, <2>4 DEF TakeAllStep, SizeConsistent, Uncounted
    <3>2. Len(queue') = Len(queue) - 1 /\ UNCHANGED <<currentQueueSize, lock, pc>> /\ idx'[d] = idx[d] + 1
      BY <2>4, RemoveLength DEF TakeAllStep, TakeAllMore, TypeOK, CountTypeOK
    <3>3. Uncounted("takeAllLoop", idx)' = idx[d] + 1
      BY <1>3, <2>1, <3>1, <3>2 DEF Uncounted
    <3>4. QED
      BY <1>1, <2>1, <3>1, <3>2, <3>3 DEF SizeInRange, SizeConsistent
  <2>5. CASE TakeAllEnd(d)
    <3>1. pc[d] = "takeAllLoop" /\ currentQueueSize = Len(queue) + idx[d]
      BY <1>1, <1>3, <2>1, <2>5 DEF TakeAllEnd, SizeConsistent, Uncounted
    <3>2. currentQueueSize' = Len(queue) /\ UNCHANGED queue /\ lock' = Free
      BY <1>1, <2>1, <2>5, <3>1 DEF TakeAllEnd
    <3>3. QED
      BY <1>1, <3>2 DEF SizeInRange, SizeConsistent, Uncounted
  <2>6. CASE UNCHANGED <<lock, queue, currentQueueSize>> /\ pc'[d] = pc[d] /\ idx'[d] = idx[d]
    <3>1. Uncounted("takeAllLoop", idx)' = Uncounted("takeAllLoop", idx)
      BY <1>3, <2>6 DEF Uncounted
    <3>2. QED
      BY <2>1, <2>6, <3>1 DEF SizeInRange, SizeConsistent
  <2>7. QED
    BY <1>3, <2>2, <2>3, <2>4, <2>5, <2>6, OwnerAlone
<1>4. QED
  BY <1>2, <1>3 DEF TypeOK, ControlTypeOK

-----------------------------------------------------------------------------
(* The inductive invariant. *)

THEOREM InductiveInvariant == Spec => []IInv
<1>1. Init => IInv
  <2>1. Init => TypeOK
    <3>1. Init => QueueTypeOK
      BY QueueAssumption, EmptySeq DEF Init, QueueTypeOK
    <3>2. Init => CountTypeOK
      BY DEF Init, CountTypeOK
    <3>3. Init => OwnerTypeOK
      BY DEF Init, OwnerTypeOK
    <3>4. Init => ControlTypeOK
      BY DEF Init, ControlTypeOK, Status
    <3>5. QED
      BY <3>1, <3>2, <3>3, <3>4 DEF TypeOK
  <2>2. Init => PutHasSample /\ BurstFresh /\ LockOwner /\ ClosedUnlocked
    BY QueueAssumption DEF Init, PutHasSample, BurstFresh, LockOwner, ClosedUnlocked
  <2>3. Init => SizeInRange /\ SizeConsistent
    BY QueueAssumption DEF Init, SizeInRange, SizeConsistent, Uncounted
  <2>4. QED
    BY <2>1, <2>2, <2>3 DEF IInv
<1>2. IInv /\ [Next]_vars => IInv'
  BY QueueTypeStep, CountTypeStep, ControlTypeStep, OwnerTypeStep, PutHasSampleStep, BurstFreshStep,
     LockOwnerStep, ClosedUnlockedStep, SizeStep
  DEF IInv, TypeOK
<1>3. QED
  BY <1>1, <1>2, PTL DEF Spec

(* Every variable keeps its type, for all clients, capacities and bounds. *)
THEOREM TypeCorrect == Spec => []TypeOK
<1>1. IInv => TypeOK
  BY DEF IInv
<1>2. QED
  BY <1>1, InductiveInvariant, PTL

(* The counter read by the utilization follows the size of the list. *)
THEOREM SizeIsConsistent == Spec => []SizeConsistent
<1>1. IInv => SizeConsistent
  BY DEF IInv
<1>2. QED
  BY <1>1, InductiveInvariant, PTL

(* The unsynchronised utilization reader sees a share between 0 % and 100 %. *)
THEOREM UtilizationStaysInRange == Spec => []UtilizationInRange
<1>1. IInv => UtilizationInRange
  BY QueueAssumption DEF IInv, SizeInRange, UtilizationInRange, UtilizationStatsValue
<1>2. QED
  BY <1>1, InductiveInvariant, PTL

-----------------------------------------------------------------------------
(* The queue implements the bounded first-in first-out queue. *)

(* Only DestroyList closes the queue, and nothing opens it again. *)
LEMMA UnchangedOpen == [Next]_vars => (open' <=> open) \/ DestroyList
<1> SUFFICES ASSUME [Next]_vars PROVE (open' <=> open) \/ DestroyList
  OBVIOUS
<1>1. CASE Unregister \/ DestroyStep
  BY <1>1 DEF Unregister, DestroyStep, DestroyBegin, DestroyFree, open
<1>2. CASE UNCHANGED life
  BY <1>2 DEF open
<1>3. QED
  BY <1>1, <1>2, ZenonT(40)
  DEF Next, vars, ownerVars, NewCall, CallPut, CallPutAll, CallTake, CallTakeAll, Call, Progress, PutStore, PutFull,
      Denied, PutAllLock, PutAllStep, PutAllEnd, TakeWait, TakeSample, TakeTimedOut, TakeAllWait, TakeAllLock,
      TakeAllTimedOut, TakeAllStep, TakeAllEnd, ClientFault, Timeout, SpuriousWake, StatStep, StatStart, StatCheck,
      StatReport, StatFault

LEMMA FifoStep == IInv /\ [Next]_vars => [Fifo!FifoNext]_(Fifo!fifoVars)
<1> SUFFICES ASSUME IInv, [Next]_vars PROVE [Fifo!FifoNext]_(Fifo!fifoVars)
  OBVIOUS
<1> USE DEF IInv
<1>1. ASSUME NEW s \in Sample, Store(s), open, Len(queue) < MAX_QUEUE_SIZE, UNCHANGED life PROVE Fifo!FifoNext
  BY <1>1 DEF Store, Fifo!FifoNext, Fifo!Enqueue, open
<1>2. ASSUME Remove, open, queue # <<>>, UNCHANGED <<accepted, life>> PROVE Fifo!FifoNext
  BY <1>2 DEF Remove, Fifo!FifoNext, Fifo!Dequeue, open
<1>3. CASE lock = Free
  <2>1. CASE DestroyList
    BY <2>1 DEF DestroyList, Fifo!FifoNext, Fifo!Close, open
  <2>2. CASE UNCHANGED queueVars /\ (open' <=> open)
    <3>1. open' = open
      BY <2>2 DEF open
    <3>2. QED
      BY <2>2, <3>1 DEF queueVars, Fifo!fifoVars
  <2>3. QED
    BY <1>1, <1>2, <1>3, <2>1, <2>2, UnownedStep
<1>4. ASSUME NEW d \in Client, lock = d PROVE [Fifo!FifoNext]_(Fifo!fifoVars)
  <2>1. open
    BY <1>4, QueueAssumption DEF ClosedUnlocked
  <2>2. UNCHANGED queueVars /\ UNCHANGED life => UNCHANGED Fifo!fifoVars
    BY DEF queueVars, Fifo!fifoVars, open
  <2>3. CASE PutAllStep(d)
    <3>1. args[d][idx[d] + 1] \in Sample
      BY <2>3, ElementOfSeq DEF PutAllStep, PutAllMore, TypeOK, QueueTypeOK, CountTypeOK
    <3>2. QED
      BY <1>1, <2>1, <2>2, <2>3, <3>1 DEF PutAllStep, PutAllMore, ownerVars
  <2>4. CASE TakeAllStep(d)
    BY <1>2, <2>1, <2>4 DEF TakeAllStep, TakeAllMore, ownerVars
  <2>5. CASE PutAllEnd(d) \/ TakeAllEnd(d)
    BY <2>5 DEF PutAllEnd, TakeAllEnd, ownerVars, queueVars, Fifo!fifoVars, open
  <2>6. CASE UNCHANGED <<lock, queue, accepted, taken>>
    <3>1. (open' <=> open) \/ DestroyList
      BY UnchangedOpen
    <3>2. ~DestroyList
      BY <1>4, QueueAssumption DEF DestroyList
    <3>3. open' = open
      BY <3>1, <3>2 DEF open
    <3>4. QED
      BY <2>6, <3>3 DEF Fifo!fifoVars
  <2>7. QED
    BY <1>4, <2>3, <2>4, <2>5, <2>6, OwnerAlone
<1>5. QED
  BY <1>3, <1>4 DEF TypeOK, ControlTypeOK

(* Every behaviour of the Celix queue is a behaviour of BoundedFifo. *)
THEOREM ImplementsBoundedFifo == Spec => ImplementsFifo
<1>1. Init => Fifo!FifoInit
  BY DEF Init, Fifo!FifoInit, open
<1>2. QED
  BY <1>1, FifoStep, InductiveInvariant, PTL DEF Spec, ImplementsFifo, Fifo!FifoSpec

LEMMA AppendConcat ==
  ASSUME NEW d \in Seq(Sample), NEW f \in Seq(Sample), NEW s \in Sample
  PROVE  Append(d \o f, s) = d \o Append(f, s)
<1>1. d \o f \in Seq(Sample) /\ <<s>> \in Seq(Sample)
  BY ConcatProperties
<1>2. Append(d \o f, s) = (d \o f) \o <<s>> /\ Append(f, s) = f \o <<s>>
  BY <1>1, AppendIsConcat
<1>3. QED
  BY <1>1, <1>2, ConcatAssociative

LEMMA HeadToFront ==
  ASSUME NEW S, NEW d \in Seq(S), NEW f \in Seq(S), f # <<>>
  PROVE  Append(d, Head(f)) \o Tail(f) = d \o f
<1>1. Head(f) \in S /\ Tail(f) \in Seq(S) /\ <<Head(f)>> \in Seq(S)
  BY HeadTailProperties
<1>2. f = <<Head(f)>> \o Tail(f)
  <2> DEFINE g == <<Head(f)>> \o Tail(f)
  <2>1. Len(f) \in Nat /\ Len(f) > 0 /\ Len(Tail(f)) = Len(f) - 1
    BY HeadTailProperties, LenProperties, EmptySeq
  <2>2. g \in Seq(S) /\ Len(g) = Len(f)
    BY <1>1, <2>1, ConcatProperties
  <2>3. ASSUME NEW i \in 1..Len(f) PROVE f[i] = g[i]
    <3>1. Len(<<Head(f)>>) = 1 /\ <<Head(f)>>[1] = f[1]
      BY HeadTailProperties
    <3>2. g[i] = IF i <= 1 THEN <<Head(f)>>[i] ELSE Tail(f)[i - 1]
      BY <1>1, <2>1, <2>3, <3>1, ConcatProperties
    <3>3. i > 1 => Tail(f)[i - 1] = f[i]
      BY <2>1, <2>3, HeadTailProperties
    <3>4. QED
      BY <2>1, <2>3, <3>1, <3>2, <3>3
  <2>4. QED
    BY <2>2, <2>3, SeqEqual
<1>3. Append(d, Head(f)) = d \o <<Head(f)>>
  BY <1>1, AppendIsConcat
<1>4. QED
  BY <1>1, <1>2, <1>3, ConcatAssociative

LEMMA ConservedStep ==
  QueueTypeOK /\ (open => accepted = taken \o queue) /\ [Fifo!FifoNext]_(Fifo!fifoVars)
    => (open => accepted = taken \o queue)'
<1> SUFFICES ASSUME QueueTypeOK, open => accepted = taken \o queue, [Fifo!FifoNext]_(Fifo!fifoVars), open'
             PROVE  accepted' = taken' \o queue'
  OBVIOUS
<1> USE DEF QueueTypeOK
<1>1. ASSUME NEW s \in Sample, Fifo!Enqueue(s) PROVE accepted' = taken' \o queue'
  <2>1. /\ accepted = taken \o queue /\ taken' = taken
        /\ accepted' = Append(accepted, s) /\ queue' = Append(queue, s)
    BY <1>1 DEF Fifo!Enqueue, open
  <2>2. Append(taken \o queue, s) = taken \o Append(queue, s)
    <3>1. taken \in Seq(Sample) /\ queue \in Seq(Sample)
      BY DEF QueueTypeOK
    <3> HIDE DEF QueueTypeOK
    <3>2. QED
      BY <3>1, AppendConcat
  <2>3. QED
    BY <2>1, <2>2, Zenon
<1>2. CASE Fifo!Dequeue
  BY <1>2, HeadToFront DEF Fifo!Dequeue
<1>3. CASE Fifo!Close
  BY <1>3 DEF Fifo!Close
<1>4. CASE UNCHANGED Fifo!fifoVars
  BY <1>4 DEF Fifo!fifoVars
<1>5. QED
  BY <1>1, <1>2, <1>3, <1>4 DEF Fifo!FifoNext

(* No accepted sample is lost, duplicated or overtaken, and the list never   *)
(* holds more than MAX_QUEUE_SIZE samples.                                   *)
THEOREM SamplesAreConserved == Spec => []SamplesConserved
<1> DEFINE Kept == open => accepted = taken \o queue
<1>1. Init => Kept
  BY ConcatEmptySeq, EmptySeq DEF Init
<1>2. IInv /\ Kept /\ [Next]_vars => Kept'
  BY FifoStep, ConservedStep DEF IInv, TypeOK
<1>3. IInv /\ Kept => SamplesConserved
  BY DEF IInv, SizeInRange, SamplesConserved, Fifo!Conservation
<1> HIDE DEF Kept
<1>4. QED
  BY <1>1, <1>2, <1>3, InductiveInvariant, PTL DEF Spec
-----------------------------------------------------------------------------
(* The printed statistics. *)

LEMMA SumWithNext ==
  ASSUME NEW a \in Nat, NEW b \in Nat, NEW n \in Nat
  PROVE  a + b + n + 1 = a + b + (n + 1)
  OBVIOUS

LEMMA StatisticsStep == IInv /\ StatisticsComplete /\ [Next]_vars => StatisticsComplete'
<1> SUFFICES ASSUME IInv, StatisticsComplete, [Next]_vars PROVE StatisticsComplete'
  OBVIOUS
<1> USE QueueAssumption DEF IInv
<1>1. /\ Len(accepted) \in Nat /\ Len(taken) \in Nat /\ putCnt \in Nat /\ takeCnt \in Nat
      /\ reported.put \in Nat /\ reported.take \in Nat
  BY LenProperties DEF TypeOK, QueueTypeOK, CountTypeOK
<1>2. CASE lock = Free
  <2>1. Len(accepted) = reported.put + putCnt /\ Len(taken) = reported.take + takeCnt
    BY <1>1, <1>2 DEF StatisticsComplete, Uncounted
  <2>2. Uncounted("takeAllLoop", idx)' = 0 /\ Uncounted("putAllLoop", cnt)' = 0
    BY <1>2, UncountedFresh
  <2>3. ASSUME NEW c \in Client, PutStore(c) PROVE StatisticsComplete'
    <3>1. Head(args[c]) \in Sample
      BY <2>3, HeadTailProperties DEF PutStore, PutHasSample, TypeOK, QueueTypeOK
    <3>2. \/ Len(accepted') = Len(accepted) + 1 /\ putCnt' = putCnt + 1
          \/ UNCHANGED <<accepted, putCnt>>
      BY <2>3, <3>1, StoreLength DEF PutStore, TypeOK, queueVars
    <3>3. UNCHANGED <<taken, takeCnt, reported>>
      BY <2>3 DEF PutStore, Store, queueVars
    <3>4. Len(accepted') = reported'.put + putCnt' /\ Len(taken') = reported'.take + takeCnt'
      <4>1. reported' = reported /\ takeCnt' = takeCnt /\ taken' = taken
        BY <3>3
      <4>2. CASE Len(accepted') = Len(accepted) + 1 /\ putCnt' = putCnt + 1
        BY <1>1, <2>1, <4>1, <4>2
      <4>3. CASE accepted' = accepted /\ putCnt' = putCnt
        BY <2>1, <4>1, <4>3
      <4>4. QED
        BY <3>2, <4>2, <4>3
    <3>5. reported'.put + putCnt' \in Nat /\ reported'.take + takeCnt' \in Nat
      BY <1>1, <3>2, <3>3
    <3>6. QED
      BY <2>2, <3>4, <3>5 DEF StatisticsComplete
  <2>4. ASSUME NEW c \in Client, TakeSample(c) PROVE StatisticsComplete'
    <3>1. Len(taken') = Len(taken) + 1 /\ takeCnt' = takeCnt + 1 /\ UNCHANGED <<accepted, putCnt, reported>>
      <4>1. takeCnt' = takeCnt + 1 /\ UNCHANGED <<accepted, putCnt, reported>> /\ Remove /\ queue # <<>>
        BY <2>4 DEF TakeSample
      <4>2. QED
        BY <4>1, RemoveLength DEF TypeOK
    <3>2. accepted' = accepted /\ putCnt' = putCnt /\ reported' = reported
      BY <3>1
    <3>3. Len(taken) = reported.take + takeCnt /\ Len(accepted) = reported.put + putCnt
      BY <1>1, <2>1, <2>2 DEF StatisticsComplete
    <3>4. Len(taken') = reported'.take + takeCnt' /\ Len(accepted') = reported'.put + putCnt'
      <4>1. Len(accepted') = reported'.put + putCnt'
        BY <3>2, <3>3
      <4>2. Len(taken') = reported.take + takeCnt + 1 /\ reported.take + takeCnt' = reported.take + takeCnt + 1
        <5>1. ASSUME NEW a \in Nat, NEW b \in Nat, NEW l, l = a + b PROVE l + 1 = a + b + 1 /\ a + (b + 1) = a + b + 1
          BY <5>1
        <5>2. QED
          BY <1>1, <3>1, <3>3, <5>1, Zenon
      <4>3. QED
        BY <3>2, <4>1, <4>2
    <3>5. reported'.put + putCnt' \in Nat /\ reported'.take + takeCnt' \in Nat
      BY <1>1, <3>1, <3>2
    <3>6. QED
      BY <2>2, <3>4, <3>5 DEF StatisticsComplete
  <2>5. CASE StatReport
    BY <1>1, <2>1, <2>2, <2>5, SMTT(30) DEF StatReport, StatisticsComplete, queueVars
  <2>6. CASE UNCHANGED <<accepted, taken, countVars>>
    BY <1>1, <2>1, <2>2, <2>6, SMTT(30) DEF StatisticsComplete, countVars
  <2>7. ASSUME NEW c \in Client, PutAllStep(c) \/ PutAllEnd(c) \/ TakeAllStep(c) \/ TakeAllEnd(c) PROVE FALSE
    BY <1>2, <2>7 DEF PutAllStep, PutAllEnd, TakeAllStep, TakeAllEnd, LockOwner
  <2>8. QED
    BY <2>3, <2>4, <2>5, <2>6, <2>7
    DEF Next, vars, queueVars, NewCall, CallPut, CallPutAll, CallTake, CallTakeAll, Call, Progress, PutFull, Denied,
        PutAllLock, TakeWait, TakeTimedOut, TakeAllWait, TakeAllLock, TakeAllTimedOut, ClientFault, Timeout,
        SpuriousWake, StatStep, StatStart, StatCheck, StatFault, Unregister, DestroyStep, DestroyBegin,
        DestroyList, DestroyFree
<1>3. ASSUME NEW d \in Client, lock = d PROVE StatisticsComplete'
  <2>1. lock # Free /\ idx[d] \in Nat /\ cnt[d] \in Nat
    BY <1>3 DEF TypeOK, CountTypeOK
  <2>2. Uncounted("takeAllLoop", idx) = (IF pc[d] = "takeAllLoop" THEN idx[d] ELSE 0)
        /\ Uncounted("putAllLoop", cnt) = (IF pc[d] = "putAllLoop" THEN cnt[d] ELSE 0)
    BY <1>3, <2>1 DEF Uncounted
  <2>3. lock' = d => /\ Uncounted("takeAllLoop", idx)' = (IF pc'[d] = "takeAllLoop" THEN idx'[d] ELSE 0)
                     /\ Uncounted("putAllLoop", cnt)' = (IF pc'[d] = "putAllLoop" THEN cnt'[d] ELSE 0)
    BY <2>1 DEF Uncounted
  <2>4. CASE PutAllStep(d)
    <3>1. pc[d] = "putAllLoop" /\ pc'[d] = "putAllLoop" /\ lock' = d /\ UNCHANGED <<taken, countVars>>
      BY <1>3, <2>4, SignalEffect DEF PutAllStep, Waiting, TypeOK, ControlTypeOK, Store, queueVars
    <3>2. args[d][idx[d] + 1] \in Sample
      BY <2>4, ElementOfSeq DEF PutAllStep, PutAllMore, TypeOK, QueueTypeOK, CountTypeOK
    <3>3. \/ Len(accepted') = Len(accepted) + 1 /\ cnt'[d] = cnt[d] + 1
          \/ UNCHANGED <<accepted, cnt>>
      BY <2>4, <3>2, StoreLength DEF PutAllStep, TypeOK, CountTypeOK, queueVars
    <3>4. /\ Uncounted("putAllLoop", cnt) = cnt[d] /\ Uncounted("putAllLoop", cnt)' = cnt'[d]
          /\ Uncounted("takeAllLoop", idx) = 0 /\ Uncounted("takeAllLoop", idx)' = 0
      BY <2>2, <2>3, <3>1
    <3>5. Len(accepted) = reported.put + putCnt + cnt[d] /\ Len(taken) = reported.take + takeCnt
      BY <1>1, <3>4 DEF StatisticsComplete
    <3>6. Len(accepted') = reported.put + putCnt + cnt'[d]
      <4>1. CASE Len(accepted') = Len(accepted) + 1 /\ cnt'[d] = cnt[d] + 1
        <5>1. Len(accepted') = (reported.put + putCnt + cnt[d]) + 1
          BY <3>5, <4>1
        <5>2. reported.put + putCnt + cnt[d] + 1 = reported.put + putCnt + (cnt[d] + 1)
          <6> DEFINE a == reported.put
                     b == putCnt
                     n == cnt[d]
          <6>1. a \in Nat /\ b \in Nat /\ n \in Nat
            BY <1>1, <2>1
          <6> HIDE DEF a, b, n
          <6>2. a + b + n + 1 = a + b + (n + 1)
            BY <6>1, SumWithNext
          <6>3. QED
            BY <6>2 DEF a, b, n
        <5>3. QED
          BY <4>1, <5>1, <5>2
      <4>2. CASE accepted' = accepted /\ cnt' = cnt
        BY <3>5, <4>2
      <4>3. QED
        BY <3>3, <4>1, <4>2
    <3>7. reported' = reported /\ putCnt' = putCnt /\ takeCnt' = takeCnt /\ taken' = taken
      BY <3>1 DEF countVars
    <3>8. QED
      BY <1>1, <3>4, <3>5, <3>6, <3>7 DEF StatisticsComplete
  <2>5. CASE PutAllEnd(d)
    <3>1. /\ pc[d] = "putAllLoop" /\ lock' = Free /\ putCnt' = putCnt + cnt[d]
          /\ UNCHANGED <<accepted, taken, takeCnt, reported>>
      BY <2>5 DEF PutAllEnd, queueVars
    <3>2. accepted' = accepted /\ taken' = taken /\ takeCnt' = takeCnt /\ reported' = reported
      BY <3>1
    <3>3. Uncounted("putAllLoop", cnt)' = 0 /\ Uncounted("takeAllLoop", idx)' = 0
      BY <3>1 DEF Uncounted
    <3>4. Uncounted("putAllLoop", cnt) = cnt[d] /\ Uncounted("takeAllLoop", idx) = 0
      BY <2>2, <3>1
    <3>5. /\ Len(accepted) = reported.put + putCnt + cnt[d]
          /\ Len(taken) = reported.take + takeCnt
      BY <1>1, <3>4 DEF StatisticsComplete
    <3>6. /\ Len(accepted) = reported.put + (putCnt + cnt[d]) + 0
          /\ Len(taken) = reported.take + takeCnt + 0
      BY <1>1, <2>1, <3>5
    <3>7. QED
      BY <3>1, <3>2, <3>3, <3>6 DEF StatisticsComplete
  <2>6. CASE TakeAllStep(d)
    <3>1. pc[d] = "takeAllLoop" /\ pc'[d] = "takeAllLoop" /\ lock' = d /\ UNCHANGED <<accepted, countVars>>
      BY <1>3, <2>6 DEF TakeAllStep
    <3>2. Len(taken') = Len(taken) + 1 /\ idx'[d] = idx[d] + 1
      BY <2>6, RemoveLength DEF TakeAllStep, TakeAllMore, TypeOK, CountTypeOK
    <3>3. /\ Uncounted("takeAllLoop", idx) = idx[d] /\ Uncounted("takeAllLoop", idx)' = idx[d] + 1
          /\ Uncounted("putAllLoop", cnt) = 0 /\ Uncounted("putAllLoop", cnt)' = 0
      BY <2>2, <2>3, <3>1, <3>2
    <3>4. Len(accepted) = reported.put + putCnt /\ Len(taken') = reported.take + takeCnt + (idx[d] + 1)
      <4>1. Len(accepted) = reported.put + putCnt + 0 /\ Len(taken) = reported.take + takeCnt + idx[d]
        BY <3>3 DEF StatisticsComplete
      <4>2. Len(accepted) = reported.put + putCnt
        BY <1>1, <4>1
      <4>3. reported.take + takeCnt + idx[d] + 1 = reported.take + takeCnt + (idx[d] + 1)
        <5> DEFINE a == reported.take
                   b == takeCnt
                   n == idx[d]
        <5>1. a \in Nat /\ b \in Nat /\ n \in Nat
          BY <1>1, <2>1
        <5> HIDE DEF a, b, n
        <5>2. a + b + n + 1 = a + b + (n + 1)
          BY <5>1, SumWithNext
        <5>3. QED
          BY <5>2 DEF a, b, n
      <4>4. QED
        BY <3>2, <4>1, <4>2, <4>3
    <3>5. reported' = reported /\ putCnt' = putCnt /\ takeCnt' = takeCnt /\ accepted' = accepted
      BY <3>1 DEF countVars
    <3>6. QED
      BY <1>1, <3>3, <3>4, <3>5 DEF StatisticsComplete
  <2>7. CASE TakeAllEnd(d)
    <3>1. /\ pc[d] = "takeAllLoop" /\ lock' = Free /\ takeCnt' = takeCnt + idx[d]
          /\ UNCHANGED <<accepted, taken, putCnt, reported>>
      BY <2>7 DEF TakeAllEnd
    <3>2. accepted' = accepted /\ taken' = taken /\ putCnt' = putCnt /\ reported' = reported
      BY <3>1
    <3>3. Uncounted("putAllLoop", cnt)' = 0 /\ Uncounted("takeAllLoop", idx)' = 0
      BY <3>1 DEF Uncounted
    <3>4. Uncounted("takeAllLoop", idx) = idx[d] /\ Uncounted("putAllLoop", cnt) = 0
      BY <2>2, <3>1
    <3>5. /\ Len(taken) = reported.take + takeCnt + idx[d]
          /\ Len(accepted) = reported.put + putCnt
      BY <1>1, <3>4, SMTT(30) DEF StatisticsComplete
    <3>6. /\ Len(taken) = reported.take + (takeCnt + idx[d]) + 0
          /\ Len(accepted) = reported.put + putCnt + 0
      BY <1>1, <2>1, <3>5, SMTT(30)
    <3>7. QED
      BY <3>1, <3>2, <3>3, <3>6 DEF StatisticsComplete
  <2>8. CASE /\ UNCHANGED <<lock, accepted, taken, countVars>> /\ pc'[d] = pc[d]
             /\ idx'[d] = idx[d] /\ cnt'[d] = cnt[d]
    BY <1>1, <1>3, <2>1, <2>2, <2>3, <2>8 DEF StatisticsComplete, countVars
  <2>9. QED
    BY <1>3, <2>4, <2>5, <2>6, <2>7, <2>8, OwnerAlone
<1>4. QED
  BY <1>2, <1>3 DEF TypeOK, ControlTypeOK

(* The counters printed for the periods add up to all samples. *)
THEOREM StatisticsAreComplete == Spec => []StatisticsComplete
<1>1. Init => StatisticsComplete
  BY EmptySeq DEF Init, StatisticsComplete, Uncounted
<1>2. QED
  BY <1>1, StatisticsStep, InductiveInvariant, PTL DEF Spec
-----------------------------------------------------------------------------
(* Destruction and the tracked users. *)

(* A client outside the queue comes in only by a new call. *)
LEMMA IdleStays ==
  ASSUME TypeOK, [Next]_vars, NEW p \in Client, pc[p] = "idle"
  PROVE  pc'[p] = "idle" \/ life = "registered"
<1> USE DEF TypeOK, ControlTypeOK
<1>1. ASSUME NEW c \in Client, NewCall(c) PROVE life = "registered"
  BY <1>1 DEF NewCall, CallPut, CallPutAll, CallTake, CallTakeAll, Call
<1>2. ASSUME NEW c \in Client, PutStore(c) \/ PutAllStep(c) PROVE pc'[p] = "idle"
  <2>1. [pc EXCEPT ![c] = "idle"] \in [Client -> InCall \cup {"idle"}]
    OBVIOUS
  <2>2. CASE Signal([pc EXCEPT ![c] = "idle"])
    BY <2>1, <2>2, SignalEffect DEF Waiting
  <2>3. CASE Signal(pc)
    BY <2>3, SignalEffect DEF Waiting
  <2>4. CASE pc' = [pc EXCEPT ![c] = "idle"] \/ UNCHANGED pc
    BY <2>4
  <2>5. QED
    BY <1>2, <2>2, <2>3, <2>4 DEF PutStore, PutAllStep, Return
<1>3. ASSUME NEW c \in Client, PutFull(c) \/ Denied(c) \/ PutAllLock(c) \/ PutAllEnd(c) \/ TakeWait(c) \/ TakeSample(c)
      PROVE  pc'[p] = "idle"
  BY <1>3 DEF PutFull, Denied, PutAllLock, PutAllEnd, TakeWait, TakeSample, Return
<1>4. ASSUME NEW c \in Client,
             TakeTimedOut(c) \/ TakeAllWait(c) \/ TakeAllLock(c) \/ TakeAllTimedOut(c) \/ TakeAllEnd(c)
      PROVE  pc'[p] = "idle"
  BY <1>4 DEF TakeTimedOut, TakeAllWait, TakeAllLock, TakeAllTimedOut, TakeAllEnd, Return
<1>5. ASSUME NEW c \in Client, Timeout(c) \/ SpuriousWake(c) PROVE pc'[p] = "idle"
  BY <1>5 DEF Timeout, SpuriousWake, Waiting
<1>6. CASE DestroyList
  BY <1>6 DEF DestroyList, Woken
<1>7. CASE UNCHANGED pc
  BY <1>7
<1>8. QED
  BY <1>1, <1>2, <1>3, <1>4, <1>5, <1>6, <1>7
  DEF Next, vars, clientVars, Progress, TakeAllStep, ClientFault, StatStep, StatStart, StatCheck, StatReport,
      StatFault, Unregister, DestroyStep, DestroyBegin, DestroyFree

LEMMA TrackedStep == IInv /\ TrackedGone /\ TrackedNeverFault /\ [Next]_vars => TrackedGone' /\ TrackedNeverFault'
<1> SUFFICES ASSUME IInv, TrackedGone, TrackedNeverFault, [Next]_vars PROVE TrackedGone' /\ TrackedNeverFault'
  OBVIOUS
<1> USE QueueAssumption DEF IInv
<1>1. TrackedGone'
  <2> SUFFICES ASSUME life' \in {"stopping", "closed", "freed"}, NEW p \in Tracked PROVE pc'[p] = "idle"
    BY DEF TrackedGone
  <2>1. CASE DestroyBegin
    BY <2>1 DEF DestroyBegin, clientVars
  <2>2. CASE life \in {"stopping", "closed", "freed"}
    BY <2>2, IdleStays DEF TrackedGone
  <2>3. life \in {"stopping", "closed", "freed"} \/ DestroyBegin
    <3>1. CASE Unregister \/ DestroyList \/ DestroyFree
      BY <3>1 DEF Unregister, DestroyList, DestroyFree
    <3>2. CASE UNCHANGED life
      BY <3>2
    <3>3. QED
      BY <3>1, <3>2, ZenonT(40)
      DEF Next, vars, ownerVars, NewCall, CallPut, CallPutAll, CallTake, CallTakeAll, Call, Progress, PutStore,
          PutFull, Denied, PutAllLock, PutAllStep, PutAllEnd, TakeWait, TakeSample, TakeTimedOut, TakeAllWait,
          TakeAllLock, TakeAllTimedOut, TakeAllStep, TakeAllEnd, ClientFault, Timeout, SpuriousWake, StatStep,
          StatStart, StatCheck, StatReport, StatFault, DestroyStep
  <2>4. QED
    BY <2>1, <2>2, <2>3
<1>2. TrackedNeverFault'
  <2>1. ASSUME NEW c \in Client, ClientFault(c) PROVE c \notin Tracked
    <3>1. pc[c] # "idle" /\ life \in {"closed", "freed"}
      BY <2>1 DEF ClientFault, open, InCall, Waiting, TypeOK, OwnerTypeOK
    <3>2. QED
      BY <3>1 DEF TrackedGone
  <2>2. ASSUME NEW c \in Client, ClientFault(c) PROVE TrackedNeverFault'
    BY <2>1, <2>2 DEF ClientFault, TrackedNeverFault
  <2>3. CASE StatFault
    BY <2>3 DEF StatFault, TrackedNeverFault
  <2>4. CASE UNCHANGED fault
    BY <2>4 DEF TrackedNeverFault
  <2>5. ASSUME NEW c \in Client, NewCall(c) \/ Timeout(c) \/ SpuriousWake(c) PROVE UNCHANGED fault
    BY <2>5 DEF NewCall, CallPut, CallPutAll, CallTake, CallTakeAll, Call, Timeout, SpuriousWake
  <2>6. ASSUME NEW c \in Client, Progress(c), ~ClientFault(c) PROVE UNCHANGED fault
    BY <2>6 DEF Progress, PutStore, PutFull, Denied, PutAllLock, PutAllStep, PutAllEnd, TakeWait, TakeSample,
                TakeTimedOut, TakeAllWait, TakeAllLock, TakeAllTimedOut, TakeAllStep, TakeAllEnd
  <2>7. CASE StatStart \/ StatCheck \/ StatReport \/ Unregister \/ DestroyStep
    BY <2>4, <2>7 DEF StatStart, StatCheck, StatReport, Unregister, DestroyStep, DestroyBegin, DestroyList, DestroyFree
  <2>8. QED
    BY <2>2, <2>3, <2>4, <2>5, <2>6, <2>7 DEF Next, vars, StatStep
<1>3. QED
  BY <1>1, <1>2

(* No user that the framework stops first reaches a queue that is gone. *)
THEOREM TrackedUsersAreSafe == Spec => []TrackedNeverFault
<1>1. Init => TrackedGone /\ TrackedNeverFault
  BY QueueAssumption DEF Init, TrackedGone, TrackedNeverFault
<1>2. QED
  BY <1>1, TrackedStep, InductiveInvariant, PTL DEF Spec
-----------------------------------------------------------------------------
(* Wake-ups of clients that take one sample at a time. *)

LEMMA AlertFinite == IsFiniteSet(Alert) /\ Cardinality(Alert) \in Nat
<1>1. Alert \in SUBSET Client
  BY DEF Alert
<1>2. QED
  BY <1>1, QueueAssumption, FS_Subset, FS_CardinalityType

LEMMA WaitersInTimeStep == TypeOK /\ WaitersInTime /\ [Next]_vars => WaitersInTime'
<1> SUFFICES ASSUME TypeOK, WaitersInTime, [Next]_vars, NEW p \in Client, pc'[p] \in Waiting PROVE rc'[p] = "ok"
  BY DEF WaitersInTime
<1> USE DEF TypeOK, ControlTypeOK
<1>1. ASSUME UNCHANGED rc, pc'[p] = pc[p] PROVE rc'[p] = "ok"
  BY <1>1 DEF WaitersInTime
<1>2. ASSUME NEW c \in Client, NewCall(c) PROVE rc'[p] = "ok"
  <2>1. PICK op, samples, before : Call(c, op, samples, before)
    BY <1>2 DEF NewCall, CallPut, CallPutAll, CallTake, CallTakeAll
  <2>2. QED
    BY <2>1 DEF Call, WaitersInTime
<1>3. ASSUME NEW c \in Client, PutStore(c) \/ PutAllStep(c) PROVE rc'[p] = "ok"
  <2>1. [pc EXCEPT ![c] = "idle"] \in [Client -> InCall \cup {"idle"}] /\ UNCHANGED rc
    BY <1>3 DEF PutStore, PutAllStep
  <2>2. CASE Signal([pc EXCEPT ![c] = "idle"])
    BY <1>1, <2>1, <2>2, SignalEffect DEF Waiting
  <2>3. CASE Signal(pc)
    BY <1>1, <2>1, <2>3, SignalEffect DEF Waiting
  <2>4. CASE pc' = [pc EXCEPT ![c] = "idle"] \/ UNCHANGED pc
    BY <1>1, <2>1, <2>4 DEF Waiting
  <2>5. QED
    BY <1>3, <2>2, <2>3, <2>4 DEF PutStore, PutAllStep, Return
<1>4. ASSUME NEW c \in Client, PutFull(c) \/ Denied(c) \/ PutAllLock(c) \/ PutAllEnd(c) \/ TakeSample(c)
      PROVE  rc'[p] = "ok"
  BY <1>1, <1>4 DEF PutFull, Denied, PutAllLock, PutAllEnd, TakeSample, Return, Waiting
<1>5. ASSUME NEW c \in Client, TakeTimedOut(c) \/ TakeAllLock(c) \/ TakeAllTimedOut(c) \/ TakeAllEnd(c)
      PROVE  rc'[p] = "ok"
  BY <1>1, <1>5 DEF TakeTimedOut, TakeAllLock, TakeAllTimedOut, TakeAllEnd, Return, Waiting
<1>6. ASSUME NEW c \in Client, TakeWait(c) \/ TakeAllWait(c) PROVE rc'[p] = "ok"
  BY <1>1, <1>6 DEF TakeWait, TakeAllWait
<1>7. ASSUME NEW c \in Client, Timeout(c) \/ SpuriousWake(c) PROVE rc'[p] = "ok"
  BY <1>7 DEF Timeout, SpuriousWake, Woken, Waiting, WaitersInTime
<1>8. CASE DestroyList
  BY <1>8 DEF DestroyList, Woken, Waiting
<1>9. CASE UNCHANGED <<pc, rc>>
  BY <1>1, <1>9
<1>10. QED
  BY <1>2, <1>3, <1>4, <1>5, <1>6, <1>7, <1>8, <1>9
  DEF Next, vars, clientVars, Progress, TakeAllStep, ClientFault, StatStep, StatStart, StatCheck, StatReport,
      StatFault, Unregister, DestroyStep, DestroyBegin, DestroyFree

LEMMA TakeAllByBurstTakerStep == TypeOK /\ TakeAllByBurstTaker /\ [Next]_vars => TakeAllByBurstTaker'
<1> SUFFICES ASSUME TypeOK, TakeAllByBurstTaker, [Next]_vars PROVE TakeAllByBurstTaker'
  OBVIOUS
<1> DEFINE Burst == {"takeAll", "takeAllWait", "takeAllLoop"}
<1> USE DEF TypeOK, ControlTypeOK
<1>1. ASSUME \A p \in Client : pc'[p] \in Burst => pc[p] \in Burst PROVE TakeAllByBurstTaker'
  BY <1>1 DEF TakeAllByBurstTaker
<1>2. ASSUME NEW c \in Client, NewCall(c) PROVE TakeAllByBurstTaker'
  <2>1. CASE CallTakeAll(c)
    BY <2>1 DEF CallTakeAll, Call, TakeAllByBurstTaker
  <2>2. CASE CallPut(c) \/ CallPutAll(c) \/ CallTake(c)
    <3>1. PICK op, samples, before : op \in {"put", "putAll", "take"} /\ Call(c, op, samples, before)
      BY <2>2 DEF CallPut, CallPutAll, CallTake
    <3>2. QED
      BY <1>1, <3>1 DEF Call
  <2>3. QED
    BY <1>2, <2>1, <2>2 DEF NewCall
<1>3. ASSUME NEW c \in Client, PutStore(c) \/ PutAllStep(c) PROVE TakeAllByBurstTaker'
  <2>1. CASE Signal([pc EXCEPT ![c] = "idle"])
    BY <1>1, <2>1 DEF Signal, Waiter, Woken, Waiting
  <2>2. CASE Signal(pc)
    BY <1>1, <2>2 DEF Signal, Waiter, Woken, Waiting
  <2>3. CASE pc' = [pc EXCEPT ![c] = "idle"] \/ UNCHANGED pc
    BY <1>1, <2>3
  <2>4. QED
    BY <1>3, <2>1, <2>2, <2>3 DEF PutStore, PutAllStep, Return
<1>4. ASSUME NEW c \in Client, PutFull(c) \/ Denied(c) \/ PutAllLock(c) \/ PutAllEnd(c) \/ TakeSample(c)
      PROVE  TakeAllByBurstTaker'
  BY <1>1, <1>4 DEF PutFull, Denied, PutAllLock, PutAllEnd, TakeSample, Return
<1>5. ASSUME NEW c \in Client, TakeTimedOut(c) \/ TakeAllLock(c) \/ TakeAllTimedOut(c) \/ TakeAllEnd(c)
      PROVE  TakeAllByBurstTaker'
  BY <1>1, <1>5 DEF TakeTimedOut, TakeAllLock, TakeAllTimedOut, TakeAllEnd, Return
<1>6. ASSUME NEW c \in Client, TakeWait(c) \/ TakeAllWait(c) PROVE TakeAllByBurstTaker'
  BY <1>1, <1>6 DEF TakeWait, TakeAllWait
<1>7. ASSUME NEW c \in Client, Timeout(c) \/ SpuriousWake(c) PROVE TakeAllByBurstTaker'
  BY <1>1, <1>7 DEF Timeout, SpuriousWake, Woken, Waiting
<1>8. CASE DestroyList
  BY <1>1, <1>8 DEF DestroyList, Woken
<1>9. CASE UNCHANGED pc
  BY <1>1, <1>9
<1>10. QED
  BY <1>2, <1>3, <1>4, <1>5, <1>6, <1>7, <1>8, <1>9
  DEF Next, vars, clientVars, Progress, TakeAllStep, ClientFault, StatStep, StatStart, StatCheck, StatReport,
      StatFault, Unregister, DestroyStep, DestroyBegin, DestroyFree

(* A signal with a waiter moves one waiter into Alert. *)
LEMMA SignalAlerts ==
  ASSUME IInv, WaitersInTime, TakeAllByBurstTaker, BurstTaker = {}, UNCHANGED rc,
         NEW c \in Client, pc[c] \in {"put", "putAllLoop"},
         Signal([pc EXCEPT ![c] = "idle"]) \/ Signal(pc)
  PROVE  \/ Waiter = {} /\ Waiter' = {}
         \/ Cardinality(Alert') = Cardinality(Alert) + 1
<1> USE DEF IInv, TypeOK, ControlTypeOK
<1>1. CASE Waiter = {}
  BY <1>1 DEF Signal, Waiter, Waiting
<1>2. CASE Waiter # {}
  <2>1. PICK w \in Waiter : pc' = [[pc EXCEPT ![c] = "idle"] EXCEPT ![w] = Woken(pc[w])] \/ pc' = [pc EXCEPT ![w] = Woken(pc[w])]
    BY <1>2 DEF Signal
  <2>2. w \in Client /\ pc[w] = "takeWait" /\ rc[w] = "ok" /\ w # c
    BY <2>1 DEF Waiter, Waiting, WaitersInTime, TakeAllByBurstTaker
  <2>3. Alert' = Alert \cup {w} /\ w \notin Alert
    BY <2>1, <2>2 DEF Alert, Woken
  <2>4. QED
    BY <2>3, AlertFinite, FS_AddElement
<1>3. QED
  BY <1>1, <1>2

LEMMA WakeupStep ==
  IInv /\ WaitersInTime /\ TakeAllByBurstTaker /\ NoLostWakeup /\ [Next]_vars => NoLostWakeup'
<1> SUFFICES ASSUME IInv, WaitersInTime, TakeAllByBurstTaker, NoLostWakeup, [Next]_vars, BurstTaker = {},
                    Waiter' # {}
             PROVE  Len(queue') <= Cardinality(Alert')
  BY DEF NoLostWakeup
<1> USE DEF IInv, TypeOK, ControlTypeOK
<1>1. /\ IsFiniteSet(Alert) /\ Cardinality(Alert) \in Nat
      /\ Cardinality(Alert') \in Nat
  <2>1. Alert' \in SUBSET Client
    BY DEF Alert
  <2>2. QED
    BY <2>1, AlertFinite, QueueAssumption, FS_Subset, FS_CardinalityType
<1>2. queue \in Seq(Sample) /\ Len(queue) \in Nat
  BY LenProperties DEF QueueTypeOK
<1>3. ASSUME Waiter # {} PROVE Len(queue) <= Cardinality(Alert)
  BY <1>3 DEF NoLostWakeup
<1>4. ASSUME UNCHANGED queue, Waiter # {}, Alert' = Alert PROVE Len(queue') <= Cardinality(Alert')
  BY <1>3, <1>4
<1>5. ASSUME UNCHANGED queue, Waiter # {}, NEW c, c \notin Alert, Alert' = Alert \cup {c}
      PROVE  Len(queue') <= Cardinality(Alert')
  <2>1. Cardinality(Alert') = Cardinality(Alert) + 1
    BY <1>1, <1>5, FS_AddElement
  <2>2. QED
    BY <1>1, <1>2, <1>3, <1>5, <2>1
<1>6. ASSUME NEW c \in Client, NewCall(c) PROVE Len(queue') <= Cardinality(Alert')
  <2>1. CASE CallTake(c)
    <3>1. Alert' = Alert \cup {c} /\ c \notin Alert /\ Waiter' = Waiter /\ UNCHANGED queue
      BY <2>1 DEF CallTake, Call, Alert, Waiter, Waiting, queueVars
    <3>2. QED
      BY <1>5, <3>1
  <2>2. CASE CallPut(c) \/ CallPutAll(c) \/ CallTakeAll(c)
    <3>1. PICK op, samples, before : op \in {"put", "putAll", "takeAll"} /\ Call(c, op, samples, before)
      BY <2>2 DEF CallPut, CallPutAll, CallTakeAll
    <3>2. Alert' = Alert /\ Waiter' = Waiter /\ UNCHANGED queue
      BY <3>1 DEF Call, Alert, Waiter, Waiting, queueVars
    <3>3. QED
      BY <1>4, <3>2
  <2>3. QED
    BY <1>6, <2>1, <2>2 DEF NewCall
<1>7. ASSUME NEW c \in Client, PutStore(c) \/ PutAllStep(c) PROVE Len(queue') <= Cardinality(Alert')
  <2>1. pc[c] \in {"put", "putAllLoop"} /\ UNCHANGED rc
    BY <1>7 DEF PutStore, PutAllStep
  <2>2. ASSUME NEW s \in Sample, Store(s), Signal([pc EXCEPT ![c] = "idle"]) \/ Signal(pc)
        PROVE  Len(queue') <= Cardinality(Alert')
    <3>1. Len(queue') = Len(queue) + 1
      BY <1>2, <2>2, StoreLength DEF Store
    <3>2. Cardinality(Alert') = Cardinality(Alert) + 1
      BY <2>1, <2>2, SignalAlerts
    <3>3. Waiter # {}
      BY <2>1, <2>2 DEF Signal, Waiter, Waiting
    <3>4. QED
      BY <1>1, <1>2, <1>3, <3>1, <3>2, <3>3
  <2>3. CASE (pc' = [pc EXCEPT ![c] = "idle"] \/ UNCHANGED pc) /\ UNCHANGED queue
    <3>1. Alert' = Alert /\ Waiter' = Waiter
      BY <2>1, <2>3 DEF Alert, Waiter, Waiting
    <3>2. QED
      BY <1>4, <2>3, <3>1
  <2>4. CASE PutStore(c)
    <3>1. Head(args[c]) \in Sample
      BY <2>4 DEF PutStore, PutHasSample, QueueTypeOK
    <3>2. QED
      BY <2>2, <2>3, <2>4, <3>1 DEF PutStore, Return, queueVars
  <2>5. CASE PutAllStep(c)
    <3>1. args[c][idx[c] + 1] \in Sample
      BY <2>5 DEF PutAllStep, PutAllMore, QueueTypeOK, CountTypeOK
    <3>2. QED
      BY <2>2, <2>3, <2>5, <3>1 DEF PutAllStep, queueVars
  <2>6. QED
    BY <1>7, <2>4, <2>5
<1>8. ASSUME NEW c \in Client, PutFull(c) \/ Denied(c) \/ PutAllLock(c) \/ PutAllEnd(c)
      PROVE  Len(queue') <= Cardinality(Alert')
  <2>1. pc[c] \in {"put", "putAll", "takeAll", "putAllLoop"} /\ UNCHANGED <<rc, queue>>
    BY <1>8 DEF PutFull, Denied, PutAllLock, PutAllEnd, queueVars
  <2>2. pc' = [pc EXCEPT ![c] = "idle"] \/ pc' = [pc EXCEPT ![c] = "putAllLoop"]
    BY <1>8 DEF PutFull, Denied, PutAllLock, PutAllEnd, Return
  <2>3. Alert' = Alert /\ Waiter' = Waiter
    BY <2>1, <2>2 DEF Alert, Waiter, Waiting
  <2>4. QED
    BY <1>4, <2>1, <2>3
<1>9. ASSUME NEW c \in Client, TakeWait(c) PROVE Len(queue') <= Cardinality(Alert')
  <2>1. queue' = <<>>
    BY <1>9 DEF TakeWait, queueVars
  <2>2. QED
    BY <1>1, <2>1
<1>10. ASSUME NEW c \in Client, TakeSample(c) PROVE Len(queue') <= Cardinality(Alert')
  <2>1. Alert' = Alert \ {c} /\ c \in Alert /\ Waiter' = Waiter
    BY <1>10 DEF TakeSample, Return, Alert, Waiter, Waiting
  <2>2. Cardinality(Alert') = Cardinality(Alert) - 1
    BY <1>1, <2>1, FS_RemoveElement
  <2>3. Len(queue') = Len(queue) - 1
    BY <1>2, <1>10, RemoveLength DEF TakeSample, Remove
  <2>4. QED
    BY <1>1, <1>2, <1>3, <2>1, <2>2, <2>3
<1>11. ASSUME NEW c \in Client, TakeTimedOut(c) PROVE Len(queue') <= Cardinality(Alert')
  <2>1. Alert' = Alert /\ Waiter' = Waiter /\ UNCHANGED queue
    BY <1>11 DEF TakeTimedOut, Return, Alert, Waiter, Waiting, queueVars
  <2>2. QED
    BY <1>4, <2>1
<1>12. ASSUME NEW c \in Client,
              TakeAllWait(c) \/ TakeAllLock(c) \/ TakeAllTimedOut(c) \/ TakeAllStep(c) \/ TakeAllEnd(c)
       PROVE  FALSE
  BY <1>12 DEF TakeAllWait, TakeAllLock, TakeAllTimedOut, TakeAllStep, TakeAllEnd, TakeAllByBurstTaker
<1>13. ASSUME NEW c \in Client, Timeout(c) PROVE Len(queue') <= Cardinality(Alert')
  <2>1. Alert' = Alert /\ Waiter # {} /\ UNCHANGED queue
    BY <1>13 DEF Timeout, Alert, Waiter, Waiting, Woken, queueVars
  <2>2. QED
    BY <1>4, <2>1
<1>14. ASSUME NEW c \in Client, SpuriousWake(c) PROVE Len(queue') <= Cardinality(Alert')
  <2>1. pc[c] = "takeWait" /\ rc[c] = "ok"
    BY <1>14 DEF SpuriousWake, Waiting, TakeAllByBurstTaker, WaitersInTime
  <2>2. Alert' = Alert \cup {c} /\ c \notin Alert /\ Waiter # {} /\ UNCHANGED queue
    BY <1>14, <2>1 DEF SpuriousWake, Alert, Waiter, Waiting, Woken, queueVars
  <2>3. QED
    BY <1>5, <2>2
<1>15. CASE DestroyList
  BY <1>15 DEF DestroyList, Woken, Waiter, Waiting
<1>16. CASE UNCHANGED <<pc, rc, queue>>
  BY <1>4, <1>16 DEF Alert, Waiter
<1>17. QED
  BY <1>6, <1>7, <1>8, <1>9, <1>10, <1>11, <1>12, <1>13, <1>14, <1>15, <1>16
  DEF Next, vars, clientVars, queueVars, Progress, ClientFault, StatStep, StatStart, StatCheck, StatReport,
      StatFault, Unregister, DestroyStep, DestroyBegin, DestroyFree

(* With clients that take one sample at a time, one signal per stored sample *)
(* never leaves a waiter behind with a sample nobody is going to look for.   *)
THEOREM NoWakeupIsLost == Spec => []NoLostWakeup
<1>1. Init => WaitersInTime /\ TakeAllByBurstTaker /\ NoLostWakeup
  BY DEF Init, WaitersInTime, TakeAllByBurstTaker, NoLostWakeup, Waiter, Waiting
<1>2. IInv /\ [Next]_vars /\ WaitersInTime /\ TakeAllByBurstTaker /\ NoLostWakeup
        => WaitersInTime' /\ TakeAllByBurstTaker' /\ NoLostWakeup'
  BY WaitersInTimeStep, TakeAllByBurstTakerStep, WakeupStep DEF IInv
<1>3. QED
  BY <1>1, <1>2, InductiveInvariant, PTL DEF Spec
-----------------------------------------------------------------------------
(* What put and putAll tell their callers. *)

(* Everything PutCounts and PutReportsTruth say of one client. *)
Told(c) ==
  /\ pc[c] \notin {"idle", "put", "putAll", "putAllLoop"} => args[c] = <<>>
  /\ pc[c] = "put" => Len(args[c]) = 1
  /\ pc[c] \in {"put", "putAll"} => Stored(c) = {} /\ (c \in Zeroing => out[c] = 0)
  /\ pc[c] = "putAllLoop" => /\ idx[c] <= Len(args[c])
                             /\ Stored(c) \subseteq 1..idx[c]
                             /\ cnt[c] = Cardinality(Stored(c))
  /\ pc[c] = "idle" /\ args[c] # <<>> =>
       /\ (\/ c \in Zeroing
           \/ Stored(c) # {}
           \/ Len(args[c]) > 1 /\ retStatus[c] # "ILLEGAL_STATE")
            => out[c] = Cardinality(Stored(c))
       /\ Len(args[c]) > 1 /\ retStatus[c] = "SUCCESS" => Stored(c) = DOMAIN args[c]
       /\ retStatus[c] = "ILLEGAL_STATE" => Stored(c) = {}

LEMMA ToldParts == PutCounts /\ PutReportsTruth <=> \A c \in Client : Told(c)
  BY DEF PutCounts, PutReportsTruth, Told

LEMMA ArgsDomain ==
  ASSUME QueueTypeOK, NEW c \in Client
  PROVE  /\ Len(args[c]) \in Nat /\ DOMAIN args[c] = 1..Len(args[c])
         /\ \A k \in 1..Len(args[c]) : args[c][k] \in Sample
  BY LenProperties, ElementOfSeq DEF QueueTypeOK

LEMMA AcceptedDomain ==
  ASSUME QueueTypeOK
  PROVE  Len(accepted) \in Nat /\ DOMAIN accepted = 1..Len(accepted) /\ \A k \in 1..Len(accepted) : accepted[k] \in Sample
  BY LenProperties, ElementOfSeq DEF QueueTypeOK

(* A stored sample is one more kept sample of its caller and nobody else's. *)
LEMMA StoredOne ==
  ASSUME QueueTypeOK, OfferedOnce, NEW c \in Client, NEW k \in DOMAIN args[c],
         args' = args, accepted' = Append(accepted, args[c][k])
  PROVE  /\ Stored(c)' = Stored(c) \cup {k}
         /\ \A d \in Client : d # c => Stored(d)' = Stored(d)
<1>1. Len(accepted) \in Nat /\ DOMAIN accepted = 1..Len(accepted)
  BY AcceptedDomain
<1>2. args[c][k] \in Sample
  BY ArgsDomain
<1>3. /\ DOMAIN accepted' = 1..(Len(accepted) + 1) /\ accepted'[Len(accepted) + 1] = args[c][k]
      /\ \A j \in 1..Len(accepted) : accepted'[j] = accepted[j]
  <2>1. accepted \in Seq(Sample)
    BY DEF QueueTypeOK
  <2>2. Append(accepted, args[c][k]) \in Seq(Sample) /\ Len(Append(accepted, args[c][k])) = Len(accepted) + 1
    BY <1>2, <2>1, AppendProperties
  <2>3. DOMAIN accepted' = 1..(Len(accepted) + 1)
    BY <2>2, LenProperties
  <2>4. QED
    BY <1>2, <2>1, <2>3, AppendProperties
<1>4. ASSUME NEW d \in Client, NEW i \in DOMAIN args[d]
      PROVE  (\E j \in DOMAIN accepted' : accepted'[j] = args'[d][i])
               <=> (\E j \in DOMAIN accepted : accepted[j] = args[d][i]) \/ (d = c /\ i = k)
  <2>1. 1..(Len(accepted) + 1) = 1..Len(accepted) \cup {Len(accepted) + 1}
    BY <1>1
  <2>2. (\E j \in DOMAIN accepted' : accepted'[j] = args'[d][i])
          <=> (\E j \in DOMAIN accepted : accepted[j] = args[d][i]) \/ args[c][k] = args[d][i]
    BY <1>1, <1>3, <2>1
  <2>3. args[c][k] = args[d][i] <=> d = c /\ i = k
    BY DEF OfferedOnce
  <2>4. QED
    BY <2>2, <2>3
<1>5. \A d \in Client : DOMAIN args'[d] = DOMAIN args[d]
  OBVIOUS
<1>6. Stored(c)' = Stored(c) \cup {k}
  BY <1>4, <1>5 DEF Stored
<1>7. \A d \in Client : d # c => Stored(d)' = Stored(d)
  BY <1>4, <1>5 DEF Stored
<1>8. QED
  BY <1>6, <1>7

LEMMA StoredSame ==
  ASSUME NEW d \in Client, accepted' = accepted, args'[d] = args[d]
  PROVE  Stored(d)' = Stored(d)
  BY DEF Stored

LEMMA StoredFinite ==
  ASSUME QueueTypeOK, NEW c \in Client
  PROVE  IsFiniteSet(Stored(c)) /\ Cardinality(Stored(c)) \in Nat
<1>1. Stored(c) \in SUBSET (1..Len(args[c])) /\ Len(args[c]) \in Nat
  BY ArgsDomain DEF Stored
<1>2. IsFiniteSet(1..Len(args[c]))
  BY <1>1, FS_Interval
<1>3. QED
  BY <1>1, <1>2, FS_Subset, FS_CardinalityType

(* A client that a step passes by, or only wakes up. *)
LEMMA Bystander ==
  ASSUME NEW d \in Client, Told(d), Stored(d)' = Stored(d),
         UNCHANGED <<args[d], idx[d], cnt[d], out[d], retStatus[d]>>,
         pc'[d] = pc[d] \/ (pc[d] \in Waiting /\ pc'[d] \in {"take", "takeAll"})
  PROVE  Told(d)'
<1>1. CASE pc'[d] = pc[d]
  BY <1>1 DEF Told
<1>2. CASE pc[d] \in Waiting /\ pc'[d] \in {"take", "takeAll"}
  BY <1>2 DEF Told, Waiting
<1>3. QED
  BY <1>1, <1>2

(* A client that offers nothing is told nothing. *)
LEMMA TakerTold ==
  ASSUME NEW c \in Client, args'[c] = <<>>, pc'[c] \notin {"put", "putAll", "putAllLoop"}
  PROVE  Told(c)'
<1>1. Stored(c)' = {}
  BY DEF Stored
<1>2. QED
  BY <1>1 DEF Told

(* A call that returns. *)
LEMMA ReturnTold ==
  ASSUME TypeOK, NEW c \in Client, NEW status, NEW n, Return(c, status, n), args' = args,
         (\/ c \in Zeroing
          \/ Stored(c)' # {}
          \/ Len(args[c]) > 1 /\ status # "ILLEGAL_STATE") => n = Cardinality(Stored(c)'),
         Len(args[c]) > 1 /\ status = "SUCCESS" => Stored(c)' = DOMAIN args[c],
         status = "ILLEGAL_STATE" => Stored(c)' = {}
  PROVE  Told(c)'
<1>1. pc'[c] = "idle" /\ out'[c] = n /\ retStatus'[c] = status
  BY DEF Return, Answer, TypeOK, ControlTypeOK
<1>2. QED
  BY <1>1 DEF Told

(* What a step of c that stores nothing leaves alone. *)
LEMMA OthersTold ==
  ASSUME TypeOK, \A d \in Client : Told(d), NEW c \in Client, accepted' = accepted, args' = args,
         \A d \in Client : d # c => /\ UNCHANGED <<idx[d], cnt[d], out[d], retStatus[d]>>
                                    /\ pc'[d] = pc[d]
  PROVE  \A d \in Client : d # c => Told(d)'
<1> SUFFICES ASSUME NEW d \in Client, d # c PROVE Told(d)'
  OBVIOUS
<1>1. Stored(d)' = Stored(d)
  BY StoredSame
<1>2. QED
  BY <1>1, Bystander

(* The samples of a new call are new, also to what was stored before. *)
LEMMA NewCallTold ==
  ASSUME TypeOK, OfferedOnce, \A d \in Client : Told(d), NEW c \in Client, NewCall(c)
  PROVE  OfferedOnce' /\ \A d \in Client : Told(d)'
<1>1. PICK n \in 0..MaxSamples, op \in {"put", "putAll", "take", "takeAll"}, samples \in Seq(Nat), before \in Nat :
        /\ Call(c, op, samples, before) /\ (c \in Zeroing => before = 0) /\ Len(samples) = n /\ DOMAIN samples = 1..n
        /\ \A i \in 1..n : samples[i] = offered + i
        /\ op = "put" => n = 1
        /\ op \in {"take", "takeAll"} => samples = <<>>
  <2>1. offered \in Nat /\ MaxSamples \in Nat
    BY QueueAssumption DEF TypeOK, QueueTypeOK
  <2>2. ASSUME NEW m \in Nat
        PROVE  Offer(m) \in Seq(Nat) /\ Len(Offer(m)) = m /\ DOMAIN Offer(m) = 1..m /\ \A i \in 1..m : Offer(m)[i] = offered + i
    <3>1. Offer(m) \in Seq(Nat)
      BY <2>1 DEF Offer
    <3>2. QED
      BY <3>1, LenProperties DEF Offer
  <2>3. CASE CallPut(c)
    <3>1. PICK before \in Before(c, 1) : Call(c, "put", Offer(1), before)
      BY <2>3 DEF CallPut
    <3>2. 1 \in 0..MaxSamples /\ before \in Nat /\ (c \in Zeroing => before = 0)
      BY <2>1, <2>3 DEF CallPut, Before
    <3>3. QED
      BY <2>2, <3>1, <3>2
  <2>4. CASE CallPutAll(c)
    <3>1. PICK m \in 1..BurstLen :
            offered + m <= MaxSamples /\ \E before \in Before(c, m) : Call(c, "putAll", Offer(m), before)
      BY <2>4 DEF CallPutAll
    <3>2. m \in Nat /\ m \in 0..MaxSamples /\ \A b \in Before(c, m) : b \in Nat /\ (c \in Zeroing => b = 0)
      BY <2>1, <3>1, QueueAssumption DEF Before
    <3>3. QED
      BY <2>2, <3>1, <3>2
  <2>5. CASE CallTake(c) \/ CallTakeAll(c)
    <3>1. \E op \in {"take", "takeAll"}, before \in Nat :
            Call(c, op, <<>>, before) /\ (c \in Zeroing => before = 0)
      BY <2>5 DEF CallTake, CallTakeAll, Before
    <3>2. <<>> \in Seq(Nat) /\ Len(<<>>) = 0 /\ DOMAIN <<>> = 1..0 /\ 0 \in 0..MaxSamples /\ 1..0 = {}
      BY <2>1
    <3>3. QED
      BY <3>1, <3>2
  <2>6. QED
    BY <2>3, <2>4, <2>5 DEF NewCall
<1>2. /\ args'[c] = samples /\ \A d \in Client : d # c => args'[d] = args[d] /\ pc'[d] = pc[d]
      /\ pc'[c] = op /\ out'[c] = before /\ accepted' = accepted /\ offered' = offered + n
      /\ \A d \in Client : d # c => UNCHANGED <<idx[d], cnt[d], out[d], retStatus[d]>>
  BY <1>1 DEF Call, queueVars, retVars, TypeOK, QueueTypeOK, ControlTypeOK, CountTypeOK
<1>3. offered \in Nat /\ n \in Nat
  BY QueueAssumption DEF TypeOK, QueueTypeOK
<1>4. /\ \A j \in DOMAIN accepted : accepted[j] \in Nat
      /\ \A d \in Client : \A i \in DOMAIN args[d] : args[d][i] \in Nat
  BY AcceptedDomain, ArgsDomain DEF TypeOK, Sample
<1>5. OfferedOnce'
  <2>1. \A j \in DOMAIN accepted' : accepted'[j] <= offered'
    BY <1>2, <1>3, <1>4 DEF OfferedOnce
  <2>2. ASSUME NEW d \in Client, NEW i \in DOMAIN args'[d] PROVE args'[d][i] <= offered'
    <3>1. CASE d = c
      <4>1. i \in 1..n /\ args'[d][i] = offered + i
        BY <1>1, <1>2, <2>2, <3>1
      <4>2. QED
        BY <1>2, <1>3, <4>1
    <3>2. CASE d # c
      BY <1>2, <1>3, <1>4, <2>2, <3>2, SMTT(30) DEF OfferedOnce
    <3>3. QED
      BY <3>1, <3>2
  <2>3. ASSUME NEW d \in Client, NEW e \in Client, NEW i \in DOMAIN args'[d], NEW k \in DOMAIN args'[e],
               args'[d][i] = args'[e][k]
        PROVE  d = e /\ i = k
    <3>1. CASE d = c /\ e = c
      <4>1. i \in 1..n /\ k \in 1..n /\ offered + i = offered + k
        BY <1>1, <1>2, <2>3, <3>1
      <4>2. QED
        BY <1>3, <3>1, <4>1
    <3>2. CASE d # c /\ e # c
      BY <1>2, <2>3, <3>2 DEF OfferedOnce
    <3>3. ASSUME NEW a \in Client, NEW b \in Client, a = c, b # c, NEW l \in DOMAIN args'[a],
                 NEW m \in DOMAIN args'[b], args'[a][l] = args'[b][m]
          PROVE  FALSE
      <4>1. l \in 1..n /\ args'[a][l] = offered + l
        BY <1>1, <1>2, <3>3
      <4>2. args'[b][m] <= offered /\ args'[b][m] \in Nat
        BY <1>2, <1>4, <3>3 DEF OfferedOnce
      <4>3. QED
        BY <1>3, <3>3, <4>1, <4>2
    <3>4. QED
      BY <2>3, <3>1, <3>2, <3>3
  <2>4. QED
    BY <2>1, <2>2, <2>3 DEF OfferedOnce
<1>6. Stored(c)' = {}
  <2>1. ASSUME NEW i \in 1..n, NEW j \in DOMAIN accepted PROVE accepted[j] # offered + i
    <3>1. accepted[j] <= offered /\ accepted[j] \in Nat
      BY <1>4, <2>1 DEF OfferedOnce
    <3>2. QED
      BY <1>3, <2>1, <3>1
  <2>2. QED
    BY <1>1, <1>2, <2>1 DEF Stored
<1>7. Told(c)'
  <2>1. CASE op \in {"take", "takeAll"}
    BY <1>1, <1>2, <2>1, TakerTold
  <2>2. CASE op \in {"put", "putAll"}
    BY <1>1, <1>2, <1>6, <2>2 DEF Told
  <2>3. QED
    BY <2>1, <2>2
<1>8. ASSUME NEW d \in Client, d # c PROVE Told(d)'
  BY <1>2, <1>8, StoredSame, Bystander
<1>9. QED
  BY <1>5, <1>7, <1>8

(* The list of accepted samples grows only by samples that were offered. *)
LEMMA OfferedOnceStored ==
  ASSUME QueueTypeOK, OfferedOnce, NEW c \in Client, NEW k \in DOMAIN args[c],
         UNCHANGED <<args, offered>>, accepted' = Append(accepted, args[c][k])
  PROVE  OfferedOnce'
<1>1. args[c][k] \in Sample /\ args[c][k] <= offered /\ accepted \in Seq(Sample)
  BY ArgsDomain DEF OfferedOnce, QueueTypeOK
<1>2. ASSUME NEW j \in DOMAIN accepted' PROVE accepted'[j] <= offered
  <2>1. Len(accepted') = Len(accepted) + 1 /\ accepted' \in Seq(Sample) /\ Len(accepted) \in Nat
    BY <1>1, AppendProperties, LenProperties
  <2>2. j \in 1..(Len(accepted) + 1)
    BY <1>2, <2>1, LenProperties
  <2>3. CASE j = Len(accepted) + 1
    BY <1>1, <2>3, AppendProperties
  <2>4. CASE j # Len(accepted) + 1
    <3>1. j \in 1..Len(accepted)
      BY <2>1, <2>2, <2>4
    <3>2. accepted'[j] = accepted[j]
      BY <1>1, <3>1, AppendProperties
    <3>3. QED
      BY <3>1, <3>2, AcceptedDomain DEF OfferedOnce
  <2>5. QED
    BY <2>3, <2>4
<1>3. QED
  BY <1>2 DEF OfferedOnce

LEMMA PutTold ==
  ASSUME IInv, OfferedOnce, \A d \in Client : Told(d), NEW c \in Client, PutStore(c) \/ PutFull(c) \/ Denied(c)
  PROVE  OfferedOnce' /\ \A d \in Client : Told(d)'
<1> USE DEF IInv, TypeOK
<1>1. Cardinality({}) = 0 /\ Cardinality({1}) = 1
  BY FS_EmptySet, FS_Singleton
<1>2. UNCHANGED <<args, idx, cnt, offered>>
  BY DEF PutStore, PutFull, Denied
<1>3. ASSUME NEW status, NEW n \in {0, out[c]}, Return(c, status, n), accepted' = accepted,
             pc[c] \in {"put", "putAll", "takeAll"}, pc[c] = "put" \/ status = "ILLEGAL_STATE"
      PROVE  OfferedOnce' /\ \A d \in Client : Told(d)'
  <2>1. OfferedOnce'
    BY <1>2, <1>3 DEF OfferedOnce
  <2>2. \A d \in Client : d # c => pc'[d] = pc[d] /\ out'[d] = out[d] /\ retStatus'[d] = retStatus[d]
    BY <1>3 DEF Return, Answer, ControlTypeOK
  <2>3. \A d \in Client : d # c => Told(d)'
    BY <1>2, <1>3, <2>2, OthersTold
  <2>4. Stored(c)' = Stored(c)
    BY <1>2, <1>3, StoredSame
  <2>5. CASE pc[c] = "takeAll"
    <3>1. args'[c] = <<>>
      BY <1>2, <2>5 DEF Told
    <3>2. pc'[c] = "idle"
      BY <1>3 DEF Return, ControlTypeOK
    <3>3. Told(c)'
      BY <3>1, <3>2, TakerTold
    <3>4. QED
      BY <2>1, <2>3, <3>3
  <2>6. CASE pc[c] \in {"put", "putAll"}
    <3>1. Stored(c)' = {} /\ (c \in Zeroing => n = Cardinality(Stored(c)')) /\ (pc[c] = "put" => Len(args[c]) = 1)
      BY <1>1, <1>3, <2>4, <2>6 DEF Told
    <3>2. Len(args[c]) > 1 => status = "ILLEGAL_STATE"
      <4>1. CASE pc[c] = "put"
        <5>1. Len(args[c]) = 1
          BY <3>1, <4>1
        <5>2. QED
          BY <5>1
      <4>2. CASE pc[c] # "put"
        BY <1>3, <4>2
      <4>3. QED
        BY <4>1, <4>2
    <3>3. Told(c)'
      BY <1>2, <1>3, <3>1, <3>2, ReturnTold
    <3>4. QED
      BY <2>1, <2>3, <3>3
  <2>7. QED
    BY <1>3, <2>5, <2>6
<1>4. CASE PutFull(c) \/ Denied(c)
  <2>1. PICK status \in {"SUCCESS", "ILLEGAL_STATE"} :
          /\ Return(c, status, out[c]) /\ accepted' = accepted
          /\ pc[c] \in {"put", "putAll", "takeAll"} /\ (pc[c] = "put" \/ status = "ILLEGAL_STATE")
    BY <1>4 DEF PutFull, Denied, queueVars
  <2>2. QED
    BY <1>3, <2>1
<1>5. CASE PutStore(c)
  <2>1. CASE (Return(c, "SUCCESS", 0) \/ Return(c, "ENOMEM", out[c])) /\ UNCHANGED <<queueVars, putCnt>>
    <3>1. PICK status \in {"SUCCESS", "ENOMEM"}, n \in {0, out[c]} : Return(c, status, n) /\ accepted' = accepted
      BY <2>1 DEF queueVars
    <3>2. pc[c] = "put"
      BY <1>5 DEF PutStore
    <3>3. QED
      BY <1>3, <3>1, <3>2
  <2>2. CASE Store(Head(args[c])) /\ Signal([pc EXCEPT ![c] = "idle"]) /\ Answer(c, "SUCCESS", 1)
    <3>1. pc[c] = "put" /\ Len(args[c]) = 1 /\ Stored(c) = {}
      BY <1>5 DEF PutStore, Told
    <3>2. 1 \in DOMAIN args[c] /\ Head(args[c]) = args[c][1]
      BY <3>1, ArgsDomain DEF Head
    <3>3. accepted' = Append(accepted, args[c][1])
      BY <2>2, <3>2 DEF Store
    <3>4. OfferedOnce'
      BY <1>2, <3>2, <3>3, OfferedOnceStored
    <3>5. Stored(c)' = Stored(c) \cup {1} /\ \A d \in Client : d # c => Stored(d)' = Stored(d)
      BY <1>2, <3>2, <3>3, StoredOne
    <3>6. [pc EXCEPT ![c] = "idle"] \in [Client -> InCall \cup {"idle"}]
      BY DEF ControlTypeOK
    <3>7. \A d \in Client : \/ pc'[d] = [pc EXCEPT ![c] = "idle"][d]
                            \/ pc[d] \in Waiting /\ pc'[d] \in {"take", "takeAll"}
      BY <2>2, <3>6, SignalEffect
    <3>8. pc'[c] = "idle"
      BY <3>1, <3>7 DEF Waiting, ControlTypeOK
    <3>9. /\ out'[c] = 1 /\ retStatus'[c] = "SUCCESS"
          /\ \A d \in Client : d # c => out'[d] = out[d] /\ retStatus'[d] = retStatus[d]
      BY <2>2 DEF Answer, ControlTypeOK
    <3>10. Told(c)'
      <4>1. Cardinality(Stored(c)') = 1 /\ Len(args'[c]) = 1 /\ ~(1 > 1)
        BY <1>1, <1>2, <3>1, <3>5
      <4>2. QED
        BY <3>8, <3>9, <4>1 DEF Told
    <3>11. ASSUME NEW d \in Client, d # c PROVE Told(d)'
      <4>1. pc'[d] = pc[d] \/ (pc[d] \in Waiting /\ pc'[d] \in {"take", "takeAll"})
        BY <3>7, <3>11 DEF ControlTypeOK
      <4>2. QED
        BY <1>2, <3>5, <3>9, <3>11, <4>1, Bystander
    <3>12. QED
      BY <3>4, <3>10, <3>11
  <2>3. QED
    BY <1>5, <2>1, <2>2 DEF PutStore
<1>6. QED
  BY <1>4, <1>5

LEMMA PutAllTold ==
  ASSUME IInv, OfferedOnce, \A d \in Client : Told(d), NEW c \in Client,
         PutAllLock(c) \/ PutAllStep(c) \/ PutAllEnd(c)
  PROVE  OfferedOnce' /\ \A d \in Client : Told(d)'
<1> USE DEF IInv, TypeOK
<1>1. UNCHANGED <<args, offered>>
  BY DEF PutAllLock, PutAllStep, PutAllEnd
<1>2. Len(args[c]) \in Nat /\ DOMAIN args[c] = 1..Len(args[c]) /\ idx[c] \in Nat /\ cnt[c] \in Nat
  BY ArgsDomain DEF CountTypeOK
<1>3. accepted' = accepted => OfferedOnce'
  BY <1>1 DEF OfferedOnce
<1>4. CASE PutAllLock(c)
  <2>1. /\ pc[c] = "putAll" /\ pc'[c] = "putAllLoop" /\ UNCHANGED <<idx, cnt, out, retStatus, accepted>>
        /\ \A d \in Client : d # c => pc'[d] = pc[d]
    BY <1>4 DEF PutAllLock, queueVars, retVars, ControlTypeOK
  <2>2. \A d \in Client : d # c => Told(d)'
    BY <1>1, <2>1, OthersTold
  <2>3. Stored(c) = {} /\ idx[c] = 0 /\ cnt[c] = 0
    BY <2>1 DEF Told, BurstFresh
  <2>4. Stored(c)' = {}
    BY <1>1, <2>1, <2>3, StoredSame
  <2>5. Cardinality({}) = 0
    BY FS_EmptySet
  <2>6. Told(c)'
    BY <1>1, <1>2, <2>1, <2>3, <2>4, <2>5 DEF Told
  <2>7. QED
    BY <1>3, <2>1, <2>2, <2>6
<1>5. CASE PutAllStep(c)
  <2>1. /\ pc[c] = "putAllLoop" /\ idx[c] < Len(args[c]) /\ idx'[c] = idx[c] + 1
        /\ \A d \in Client : d # c => idx'[d] = idx[d]
        /\ UNCHANGED <<out, retStatus>>
    BY <1>5 DEF PutAllStep, PutAllMore, retVars, CountTypeOK
  <2>2. idx[c] + 1 \in DOMAIN args[c] /\ idx'[c] <= Len(args[c]) /\ idx'[c] \in Nat
    BY <1>2, <2>1
  <2>3. Stored(c) \subseteq 1..idx[c] /\ cnt[c] = Cardinality(Stored(c))
    BY <2>1 DEF Told
  <2>4. 1..idx'[c] = 1..idx[c] \cup {idx[c] + 1} /\ idx[c] + 1 \notin 1..idx[c]
    BY <1>2, <2>1
  <2>5. CASE UNCHANGED <<queueVars, cnt, pc>>
    <3>1. UNCHANGED <<accepted, cnt, pc>>
      BY <2>5 DEF queueVars
    <3>2. Stored(c)' = Stored(c) /\ Stored(c) \subseteq 1..idx'[c]
      BY <1>1, <2>3, <2>4, <3>1, StoredSame
    <3>3. Told(c)'
      BY <1>1, <2>1, <2>2, <2>3, <3>1, <3>2 DEF Told
    <3>4. \A d \in Client : d # c => Told(d)'
      BY <1>1, <2>1, <3>1, OthersTold
    <3>5. QED
      BY <1>3, <3>1, <3>3, <3>4
  <2>6. CASE Store(args[c][idx[c] + 1]) /\ cnt' = [cnt EXCEPT ![c] = @ + 1] /\ Signal(pc)
    <3>1. accepted' = Append(accepted, args[c][idx[c] + 1])
      BY <2>6 DEF Store
    <3>2. OfferedOnce'
      BY <1>1, <2>2, <3>1, OfferedOnceStored
    <3>3. Stored(c)' = Stored(c) \cup {idx[c] + 1} /\ \A d \in Client : d # c => Stored(d)' = Stored(d)
      BY <1>1, <2>2, <3>1, StoredOne
    <3>4. cnt'[c] = cnt[c] + 1 /\ \A d \in Client : d # c => cnt'[d] = cnt[d]
      BY <2>6 DEF CountTypeOK
    <3>5. pc \in [Client -> InCall \cup {"idle"}]
      BY DEF ControlTypeOK
    <3>6. \A d \in Client : pc'[d] = pc[d] \/ (pc[d] \in Waiting /\ pc'[d] \in {"take", "takeAll"})
      BY <2>6, <3>5, SignalEffect
    <3>7. pc'[c] = "putAllLoop"
      BY <2>1, <3>6 DEF Waiting
    <3>8. Cardinality(Stored(c)') = cnt'[c]
      <4>1. idx[c] + 1 \notin Stored(c) /\ IsFiniteSet(Stored(c))
        BY <2>3, <2>4, StoredFinite
      <4>2. Cardinality(Stored(c) \cup {idx[c] + 1}) = Cardinality(Stored(c)) + 1
        BY <4>1, FS_AddElement
      <4>3. QED
        BY <2>3, <3>3, <3>4, <4>2
    <3>9. Stored(c)' \subseteq 1..idx'[c]
      BY <2>3, <2>4, <3>3
    <3>10. Told(c)'
      BY <1>1, <2>2, <3>7, <3>8, <3>9 DEF Told
    <3>11. ASSUME NEW d \in Client, d # c PROVE Told(d)'
      BY <1>1, <2>1, <3>3, <3>4, <3>6, <3>11, Bystander
    <3>12. QED
      BY <3>2, <3>10, <3>11
  <2>7. QED
    BY <1>5, <2>5, <2>6 DEF PutAllStep
<1>6. CASE PutAllEnd(c)
  <2>1. PICK status \in Status : /\ Return(c, status, cnt[c])
                                 /\ status = "SUCCESS" => cnt[c] = Len(args[c])
                                 /\ status # "ILLEGAL_STATE"
    BY <1>6 DEF PutAllEnd, PutAllStatus, Status
  <2>2. pc[c] = "putAllLoop" /\ UNCHANGED <<accepted, idx, cnt>>
    BY <1>6 DEF PutAllEnd, queueVars
  <2>3. \A d \in Client : d # c => pc'[d] = pc[d] /\ out'[d] = out[d] /\ retStatus'[d] = retStatus[d]
    BY <2>1 DEF Return, Answer, ControlTypeOK
  <2>4. \A d \in Client : d # c => Told(d)'
    BY <1>1, <2>2, <2>3, OthersTold
  <2>5. Cardinality(Stored(c)') = cnt[c]
    BY <1>1, <2>2, StoredSame DEF Told
  <2>6. cnt[c] = Len(args[c]) => Stored(c)' = DOMAIN args[c]
    <3>1. Stored(c)' = Stored(c) /\ Stored(c) \in SUBSET (1..Len(args[c]))
      BY <1>1, <1>2, <2>2, StoredSame DEF Stored
    <3>2. IsFiniteSet(1..Len(args[c])) /\ Cardinality(1..Len(args[c])) = Len(args[c])
      <4>1. /\ 1 \in Int /\ Len(args[c]) \in Int
            /\ (IF 1 > Len(args[c]) THEN 0 ELSE Len(args[c]) - 1 + 1) = Len(args[c])
        BY <1>2
      <4>2. QED
        BY <4>1, FS_Interval, Zenon
    <3>3. Cardinality(1..Len(args[c])) = Cardinality(Stored(c)) => 1..Len(args[c]) = Stored(c)
      BY <3>1, <3>2, FS_Subset
    <3>4. QED
      BY <1>2, <2>5, <3>1, <3>2, <3>3
  <2>7. Told(c)'
    BY <1>1, <2>1, <2>5, <2>6, ReturnTold
  <2>8. QED
    BY <1>3, <2>2, <2>4, <2>7
<1>7. QED
  BY <1>4, <1>5, <1>6

LEMMA TakeTold ==
  ASSUME IInv, OfferedOnce, \A d \in Client : Told(d), NEW c \in Client,
         \/ TakeWait(c) \/ TakeSample(c) \/ TakeTimedOut(c) \/ TakeAllWait(c) \/ TakeAllLock(c)
         \/ TakeAllTimedOut(c) \/ TakeAllStep(c) \/ TakeAllEnd(c) \/ Timeout(c) \/ SpuriousWake(c)
  PROVE  OfferedOnce' /\ \A d \in Client : Told(d)'
<1> USE DEF IInv, TypeOK
<1>1. UNCHANGED <<args, offered, accepted, cnt>>
  BY DEF TakeWait, TakeSample, TakeTimedOut, TakeAllWait, TakeAllLock, TakeAllTimedOut, TakeAllStep, TakeAllEnd,
         Timeout, SpuriousWake, queueVars
<1>2. OfferedOnce'
  BY <1>1 DEF OfferedOnce
<1>3. pc[c] \in {"take", "takeAll", "takeAllLoop"} \cup Waiting
  BY DEF TakeWait, TakeSample, TakeTimedOut, TakeAllWait, TakeAllLock, TakeAllTimedOut, TakeAllStep, TakeAllEnd,
         Timeout, SpuriousWake
<1>4. args'[c] = <<>>
  BY <1>1, <1>3 DEF Told, Waiting
<1>5. /\ pc'[c] \in {"idle", "take", "takeAll", "takeAllLoop"} \cup Waiting
      /\ \A d \in Client : d # c => pc'[d] = pc[d] /\ idx'[d] = idx[d]
  <2>1. CASE Timeout(c) \/ SpuriousWake(c)
    BY <2>1 DEF Timeout, SpuriousWake, Woken, Waiting, ControlTypeOK
  <2>2. CASE TakeAllStep(c)
    BY <1>3, <2>2 DEF TakeAllStep, CountTypeOK
  <2>3. CASE ~Timeout(c) /\ ~SpuriousWake(c) /\ ~TakeAllStep(c)
    BY <2>3 DEF TakeWait, TakeSample, TakeTimedOut, TakeAllWait, TakeAllLock, TakeAllTimedOut, TakeAllEnd, Return,
                Waiting, ControlTypeOK
  <2>4. QED
    BY <2>1, <2>2, <2>3
<1>6. \A d \in Client : d # c => out'[d] = out[d] /\ retStatus'[d] = retStatus[d]
  BY DEF TakeWait, TakeSample, TakeTimedOut, TakeAllWait, TakeAllLock, TakeAllTimedOut, TakeAllStep, TakeAllEnd,
         Timeout, SpuriousWake, Return, Answer, retVars, ControlTypeOK
<1>7. Told(c)'
  BY <1>4, <1>5, TakerTold DEF Waiting
<1>8. \A d \in Client : d # c => Told(d)'
  BY <1>1, <1>5, <1>6, OthersTold
<1>9. QED
  BY <1>2, <1>7, <1>8

LEMMA ToldStep ==
  IInv /\ OfferedOnce /\ PutCounts /\ PutReportsTruth /\ [Next]_vars
    => OfferedOnce' /\ PutCounts' /\ PutReportsTruth'
<1> SUFFICES ASSUME IInv, OfferedOnce, PutCounts, PutReportsTruth, [Next]_vars
             PROVE  OfferedOnce' /\ PutCounts' /\ PutReportsTruth'
  OBVIOUS
<1>1. \A c \in Client : Told(c)
  BY ToldParts
<1>2. (\A c \in Client : Told(c)') => PutCounts' /\ PutReportsTruth'
  BY DEF PutCounts, PutReportsTruth, Told
<1>3. ASSUME UNCHANGED <<args, offered, accepted, idx, cnt, out, retStatus>>,
             \A d \in Client : pc'[d] = pc[d] \/ (pc[d] \in Waiting /\ pc'[d] \in {"take", "takeAll"})
      PROVE  OfferedOnce' /\ \A d \in Client : Told(d)'
  <2>1. OfferedOnce'
    BY <1>3 DEF OfferedOnce
  <2>2. ASSUME NEW d \in Client PROVE Told(d)'
    BY <1>1, <1>3, <2>2, StoredSame, Bystander
  <2>3. QED
    BY <2>1, <2>2
<1>4. ASSUME NEW c \in Client, NewCall(c) \/ Progress(c) \/ Timeout(c) \/ SpuriousWake(c)
      PROVE  OfferedOnce' /\ \A d \in Client : Told(d)'
  <2>1. CASE ClientFault(c)
    BY <1>3, <2>1 DEF ClientFault, queueVars, clientVars, retVars
  <2>2. QED
    BY <1>1, <1>4, <2>1, NewCallTold, PutTold, PutAllTold, TakeTold DEF Progress, IInv
<1>5. CASE DestroyList
  <2>1. \A d \in Client : pc'[d] = pc[d] \/ (pc[d] \in Waiting /\ pc'[d] \in {"take", "takeAll"})
    BY <1>5 DEF DestroyList, Woken, Waiting
  <2>2. UNCHANGED <<args, offered, accepted, idx, cnt, out, retStatus>>
    BY <1>5 DEF DestroyList, retVars
  <2>3. QED
    BY <1>2, <1>3, <2>1, <2>2
<1>6. CASE UNCHANGED <<args, offered, accepted, idx, cnt, out, retStatus, pc>>
  BY <1>2, <1>3, <1>6
<1>7. QED
  BY <1>2, <1>4, <1>5, <1>6
  DEF Next, vars, queueVars, clientVars, retVars, StatStep, StatStart, StatCheck, StatReport, StatFault, Unregister,
      DestroyStep, DestroyBegin, DestroyFree

(* A caller that clears its variable before each call, as producer_impl.c    *)
(* does, finds in it how many of its samples were stored, and so does every  *)
(* caller of which something was stored; a putAll answers SUCCESS only for a *)
(* complete burst, and a denied call has stored nothing.  This holds for any *)
(* contents of the variables of callers that do not clear them, and however  *)
(* the calls of other threads interleave.                                    *)
THEOREM PutTellsTruth == Spec => []PutReportsTruth
<1>1. Init => OfferedOnce /\ PutCounts /\ PutReportsTruth
  BY DEF Init, OfferedOnce, PutCounts, PutReportsTruth
<1>2. IInv /\ (OfferedOnce /\ PutCounts /\ PutReportsTruth) /\ [Next]_vars
        => (OfferedOnce /\ PutCounts /\ PutReportsTruth)'
  BY ToldStep
<1>3. QED
  BY <1>1, <1>2, InductiveInvariant, PTL DEF Spec

==============================================================================
