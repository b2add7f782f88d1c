------------------------ MODULE StatisticTrackerProofs ------------------------
(* Theorems about StatisticTracker, for every set of services. *)
EXTENDS StatisticTracker, TLAPS

LEMMA TypeStep == TypeOK /\ [Next]_vars => TypeOK'
<1> SUFFICES ASSUME TypeOK, [Next]_vars PROVE TypeOK'
  OBVIOUS
<1> USE TrackerAssumption DEF TypeOK
<1>1. ASSUME NEW s \in Service, PollStep(s) PROVE TypeOK'
  BY <1>1 DEF PollStep, PollStart, PollCheck, PollLookup, PollDone
<1>2. ASSUME NEW s \in Service, StatsAppear(s) \/ StatsDisappear(s) PROVE TypeOK'
  BY <1>2 DEF StatsAppear, StatsDisappear
<1>3. ASSUME NEW s \in Service, TrackerStep(s) PROVE TypeOK'
  BY <1>3 DEF TrackerStep, AskName, CreatePoller, PutEntry, RemoveBegin, RemoveEnd
<1>4. CASE StatisticTrackerStop \/ TrackerClose \/ UNCHANGED vars
  BY <1>4 DEF StatisticTrackerStop, TrackerClose, vars
<1>5. QED
  BY <1>1, <1>2, <1>3, <1>4 DEF Next

LEMMA PollerOfEntryStep == TypeOK /\ PollerOfEntry /\ [Next]_vars => PollerOfEntry'
<1> SUFFICES ASSUME TypeOK, PollerOfEntry, [Next]_vars PROVE PollerOfEntry'
  OBVIOUS
<1> USE DEF TypeOK, PollerOfEntry
<1>1. ASSUME NEW s \in Service, PollStep(s) PROVE PollerOfEntry'
  BY <1>1 DEF PollStep, PollStart, PollCheck, PollLookup, PollDone
<1>2. ASSUME NEW s \in Service, StatsAppear(s) \/ StatsDisappear(s) PROVE PollerOfEntry'
  BY <1>2 DEF StatsAppear, StatsDisappear
<1>3. ASSUME NEW s \in Service, TrackerStep(s) PROVE PollerOfEntry'
  BY <1>3 DEF TrackerStep, AskName, CreatePoller, PutEntry, RemoveBegin, RemoveEnd
<1>4. CASE StatisticTrackerStop \/ TrackerClose \/ UNCHANGED vars
  BY <1>4 DEF StatisticTrackerStop, TrackerClose, vars
<1>5. QED
  BY <1>1, <1>2, <1>3, <1>4 DEF Next

(* The removed callback can take the lock only when nobody is polling. *)
LEMMA ReadersPollStep == TypeOK /\ PollerOfEntry /\ ReadersPoll /\ [Next]_vars => ReadersPoll'
<1> SUFFICES ASSUME TypeOK, PollerOfEntry, ReadersPoll, [Next]_vars PROVE ReadersPoll'
  OBVIOUS
<1> USE DEF TypeOK, ReadersPoll
<1>1. ASSUME NEW s \in Service, PollStep(s) PROVE ReadersPoll'
  <2>1. CASE PollStart(s) \/ PollCheck(s)
    BY <2>1 DEF PollStart, PollCheck
  <2>2. CASE PollLookup(s)
    BY <2>2 DEF PollLookup
  <2>3. CASE PollDone(s)
    BY <2>3 DEF PollDone
  <2>4. QED
    BY <1>1, <2>1, <2>2, <2>3 DEF PollStep
<1>2. ASSUME NEW s \in Service, TrackerStep(s) PROVE ReadersPoll'
  BY <1>2 DEF TrackerStep, AskName, CreatePoller, PutEntry, RemoveBegin, RemoveEnd, Writable, PollerOfEntry
<1>3. CASE UNCHANGED <<readers, pollPc, statServices>>
  BY <1>3
<1>4. QED
  BY <1>1, <1>2, <1>3 DEF Next, vars, StatsAppear, StatsDisappear, StatisticTrackerStop, TrackerClose

(* Before the bundle is stopped nobody clears the flag, and a poller that    *)
(* has ended has lost its entry.                                             *)
LEMMA FlagKeptStep == TypeOK /\ PollerOfEntry /\ FlagKept /\ [Next]_vars => FlagKept'
<1> SUFFICES ASSUME TypeOK, PollerOfEntry, FlagKept, [Next]_vars PROVE FlagKept'
  OBVIOUS
<1> USE DEF TypeOK, FlagKept
<1>1. ASSUME NEW s \in Service, PollStep(s) PROVE FlagKept'
  <2>1. CASE PollStart(s)
    BY <2>1 DEF PollStart
  <2>2. CASE PollCheck(s)
    BY <2>2 DEF PollCheck
  <2>3. CASE PollLookup(s)
    BY <2>3 DEF PollLookup, Readable
  <2>4. CASE PollDone(s)
    BY <2>4 DEF PollDone
  <2>5. QED
    BY <1>1, <2>1, <2>2, <2>3, <2>4 DEF PollStep
<1>2. ASSUME NEW s \in Service, TrackerStep(s) PROVE FlagKept'
  BY <1>2 DEF TrackerStep, AskName, CreatePoller, PutEntry, RemoveBegin, RemoveEnd, PollerOfEntry
<1>3. CASE StatisticTrackerStop \/ TrackerClose
  BY <1>3 DEF StatisticTrackerStop, TrackerClose
<1>4. ASSUME NEW s \in Service, StatsAppear(s) \/ StatsDisappear(s) PROVE FlagKept'
  BY <1>4 DEF StatsAppear, StatsDisappear
<1>5. CASE UNCHANGED vars
  BY <1>5 DEF vars
<1>6. QED
  BY <1>1, <1>2, <1>3, <1>4, <1>5 DEF Next

(* The map, the pollers and the shared flag agree in every reachable state.  *)
THEOREM InductiveInvariant == Spec => []IInv
<1>1. Init => IInv
  <2> SUFFICES ASSUME Init PROVE IInv
    OBVIOUS
  <2>1. TypeOK
    <3>1. running \in BOOLEAN /\ statServices = {} /\ readers = {} /\ life = "started" /\ appeared = 0
      BY Zenon DEF Init
    <3>2. tracking = [s \in Service |-> "idle"] /\ pollPc = [s \in Service |-> "none"]
      BY Zenon DEF Init
    <3>3. appeared \in 0..MaxAppear
      BY <3>1, TrackerAssumption
    <3>4. QED
      BY <3>1, <3>2, <3>3 DEF TypeOK
  <2>2. PollerOfEntry /\ ReadersPoll
    BY DEF Init, PollerOfEntry, ReadersPoll
  <2>3. FlagKept
    BY DEF Init, FlagKept
  <2>4. QED
    BY <2>1, <2>2, <2>3 DEF IInv
<1>2. IInv /\ [Next]_vars => IInv'
  BY TypeStep, PollerOfEntryStep, ReadersPollStep, FlagKeptStep DEF IInv
<1>3. QED
  BY <1>1, <1>2, PTL DEF Spec

(* As long as the bundle is not stopped, every service in the map has a      *)
(* poller that has not ended.                                                *)
THEOREM TrackedServicesArePolled == Spec => []PolledWhileTracked
<1>1. IInv => PolledWhileTracked
  BY DEF IInv, TypeOK, PollerOfEntry, FlagKept, PolledWhileTracked
<1>2. QED
  BY <1>1, InductiveInvariant, PTL

-----------------------------------------------------------------------------
(* The tracker is a ServiceUser. *)

Held == {s \in Service : tracking[s] # "idle"}
Inside == {<<s, s>> : s \in {t \in Service : pollPc[t] = "polling"}}

LEMMA UserStep == IInv /\ [Next]_vars => [User!UserNext]_(User!userVars)
<1> SUFFICES ASSUME IInv, [Next]_vars
             PROVE  User!UserNext \/ (Held' = Held /\ Inside' = Inside)
  BY DEF User!userVars, Held, Inside
<1> USE DEF IInv, TypeOK
<1>1. ASSUME NEW s \in Service, PollLookup(s), pollPc'[s] = "polling" PROVE User!UserNext
  <2>1. Held' = Held /\ s \in Held /\ Inside' = Inside \cup {<<s, s>>} /\ <<s, s>> \notin Inside
    BY <1>1 DEF PollLookup, Held, Inside, PollerOfEntry
  <2>2. User!Enter(s, s)
    BY <2>1 DEF User!Enter, Held, Inside
  <2>3. QED
    BY <2>2 DEF User!UserNext
<1>2. ASSUME NEW s \in Service, PollDone(s) PROVE User!UserNext
  <2>1. Held' = Held /\ Inside' = Inside \ {<<s, s>>} /\ <<s, s>> \in Inside
    BY <1>2 DEF PollDone, Held, Inside
  <2>2. User!Leave(s, s)
    BY <2>1 DEF User!Leave, Held, Inside
  <2>3. QED
    BY <2>2 DEF User!UserNext
<1>3. ASSUME NEW s \in Service, StatsAppear(s) PROVE User!UserNext
  <2>1. Held' = Held \cup {s} /\ s \notin Held /\ Inside' = Inside
    BY <1>3 DEF StatsAppear, Held, Inside
  <2>2. User!Hold(s)
    BY <2>1 DEF User!Hold, Held, Inside
  <2>3. QED
    BY <2>2 DEF User!UserNext
<1>4. ASSUME NEW s \in Service, RemoveBegin(s) \/ RemoveEnd(s), tracking'[s] = "idle" PROVE User!UserNext
  <2>1. Held' = Held \ {s} /\ s \in Held
    BY <1>4 DEF RemoveBegin, RemoveEnd, Held
  <2>2. pollPc[s] # "polling"
    BY <1>4 DEF RemoveBegin, RemoveEnd, PollerOfEntry
  <2>3. Inside' = Inside /\ \A t \in Service : <<t, s>> \notin Inside
    BY <1>4, <2>2 DEF RemoveBegin, RemoveEnd, Inside
  <2>4. User!Drop(s)
    BY <2>1, <2>3 DEF User!Drop, Held, Inside
  <2>5. QED
    BY <2>4 DEF User!UserNext
<1>5. ASSUME NEW s \in Service,
             PollStart(s) \/ PollCheck(s) \/ (PollLookup(s) /\ pollPc'[s] # "polling")
      PROVE  Held' = Held /\ Inside' = Inside
  BY <1>5 DEF PollStart, PollCheck, PollLookup, Held, Inside
<1>6. ASSUME NEW s \in Service,
             \/ AskName(s) \/ CreatePoller(s) \/ PutEntry(s) \/ StatsDisappear(s)
             \/ (RemoveBegin(s) /\ tracking'[s] # "idle")
      PROVE  Held' = Held /\ Inside' = Inside
  BY <1>6 DEF AskName, CreatePoller, PutEntry, StatsDisappear, RemoveBegin, Held, Inside, PollerOfEntry
<1>7. ASSUME UNCHANGED <<tracking, pollPc>> PROVE Held' = Held /\ Inside' = Inside
  BY <1>7 DEF Held, Inside
<1>8. ASSUME NEW s \in Service, RemoveEnd(s) PROVE tracking'[s] = "idle"
  BY <1>8 DEF RemoveEnd
<1>9. QED
  BY <1>1, <1>2, <1>3, <1>4, <1>5, <1>6, <1>7, <1>8
  DEF Next, vars, PollStep, TrackerStep, StatisticTrackerStop, TrackerClose

(* No poller is ever inside a service that the framework has taken back.     *)
THEOREM TrackerIsServiceUser == Spec => ImplementsServiceUser
<1>1. Init => User!UserInit
  BY DEF Init, User!UserInit
<1>2. QED
  BY <1>1, UserStep, InductiveInvariant, PTL DEF Spec, ImplementsServiceUser, User!UserSpec

================================================================================
