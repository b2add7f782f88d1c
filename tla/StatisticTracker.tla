--------------------------- MODULE StatisticTracker ---------------------------
(***************************************************************************)
(* The Celix statistic tracker (statistic_tracker_impl.c and its            *)
(* activator): one polling thread for each statistics service.              *)
(*                                                                          *)
(* All pollers share one flag, running, and the map from threads to         *)
(* services, protected by statLock, a read-write lock that prefers writers. *)
(* A poller holds the lock for reading during its calls of the service; the *)
(* removed callback joins the poller after it has given the lock back.      *)
(***************************************************************************)
EXTENDS Naturals

CONSTANTS
  Service,           \* statistics services; the poller of a service has its name
  MaxAppear          \* bound: how often services appear

ASSUME TrackerAssumption == MaxAppear \in Nat

VARIABLES
  statServices,      \* services in the map
  running,           \* the flag of all pollers
  readers,           \* pollers that hold statLock for reading
  tracking,          \* what the framework is doing with each service
  pollPc,            \* where the poller of each service is
  life,              \* state of the bundle
  appeared           \* how often services have appeared

vars == <<statServices, running, readers, tracking, pollPc, life, appeared>>

(* statistic_tracker_create, and the activator has opened its tracker. *)
Init ==
  /\ statServices = {} /\ running = FALSE /\ readers = {}
  /\ tracking = [s \in Service |-> "idle"]
  /\ pollPc = [s \in Service |-> "none"]
  /\ life = "started" /\ appeared = 0

(* A writer holds statLock within one step, or while tracking says           *)
(* "creating"; one that waits keeps new readers out too.                     *)
Writable == readers = {} /\ \A s \in Service : tracking[s] # "creating"

(* Faulty: the lock is given back before the entry of a new poller is made. *)
ReadableWhileCreating == \A s \in Service : tracking[s] \notin {"adding", "removing"}

Readable == \A s \in Service : tracking[s] \notin {"adding", "creating", "removing"}

-----------------------------------------------------------------------------
(* statPoller *)

(* Faulty: relies on somebody else to set the flag. *)
PollStartUnset(s) ==
  /\ pollPc[s] = "start"
  /\ pollPc' = [pollPc EXCEPT ![s] = "check"]
  /\ UNCHANGED <<statServices, running, readers, tracking, life, appeared>>

PollStart(s) ==
  /\ pollPc[s] = "start"
  /\ running' = TRUE
  /\ pollPc' = [pollPc EXCEPT ![s] = "check"]
  /\ UNCHANGED <<statServices, readers, tracking, life, appeared>>

PollCheck(s) ==
  /\ pollPc[s] = "check"
  /\ pollPc' = [pollPc EXCEPT ![s] = IF running THEN "lookup" ELSE "exited"]
  /\ UNCHANGED <<statServices, running, readers, tracking, life, appeared>>

(* The poller looks its service up; without one it ends. *)
PollLookup(s) ==
  /\ pollPc[s] = "lookup" /\ Readable
  /\ pollPc' = [pollPc EXCEPT ![s] = IF s \in statServices THEN "polling" ELSE "exited"]
  /\ readers' = readers \cup (statServices \cap {s})
  /\ UNCHANGED <<statServices, running, tracking, life, appeared>>

(* Name, type, value and unit have been read. *)
PollDone(s) ==
  /\ pollPc[s] = "polling"
  /\ pollPc' = [pollPc EXCEPT ![s] = "check"]
  /\ readers' = readers \ {s}
  /\ UNCHANGED <<statServices, running, tracking, life, appeared>>

PollStep(s) == PollStart(s) \/ PollCheck(s) \/ PollLookup(s) \/ PollDone(s)

-----------------------------------------------------------------------------
(* The tracker of statistics services.                                        *)

StatsAppear(s) ==
  /\ life \in {"started", "stopping"} /\ tracking[s] = "idle"
  /\ appeared < MaxAppear /\ appeared' = appeared + 1
  /\ tracking' = [tracking EXCEPT ![s] = "naming"]
  /\ UNCHANGED <<statServices, running, readers, pollPc, life>>

(* statistic_tracker_statServiceAdded: the name is asked for first; a        *)
(* service that does not answer gets no poller ...                           *)
AskName(s) ==
  /\ tracking[s] = "naming"
  /\ \E next \in {"adding", "tracked"} : tracking' = [tracking EXCEPT ![s] = next]
  /\ UNCHANGED <<statServices, running, readers, pollPc, life, appeared>>

(* ... and for one that does the poller is created with the lock held ...    *)
CreatePoller(s) ==
  /\ tracking[s] = "adding" /\ Writable
  /\ pollPc' = [pollPc EXCEPT ![s] = "start"]
  /\ tracking' = [tracking EXCEPT ![s] = "creating"]
  /\ UNCHANGED <<statServices, running, readers, life, appeared>>

(* ... which may start, find the flag set and wait for the lock before its   *)
(* entry is put into the map and the lock is given back.                     *)
PutEntry(s) ==
  /\ tracking[s] = "creating"
  /\ statServices' = statServices \cup {s}
  /\ tracking' = [tracking EXCEPT ![s] = "tracked"]
  /\ UNCHANGED <<running, readers, pollPc, life, appeared>>

StatsDisappear(s) ==
  /\ tracking[s] = "tracked"
  /\ tracking' = [tracking EXCEPT ![s] = "removing"]
  /\ UNCHANGED <<statServices, running, readers, pollPc, life, appeared>>

(* Faulty: takes the entry out without the lock and leaves at once. *)
RemoveDetached(s) ==
  /\ tracking[s] = "removing"
  /\ tracking' = [tracking EXCEPT ![s] = "idle"]
  /\ statServices' = statServices \ {s}
  /\ UNCHANGED <<running, readers, pollPc, life, appeared>>

(* Faulty: leaves the map entry for the poller to use. *)
RemoveKeepEntry(s) ==
  /\ tracking[s] = "removing" /\ Writable
  /\ tracking' = [tracking EXCEPT ![s] = IF s \in statServices THEN "joining" ELSE "idle"]
  /\ UNCHANGED <<statServices, running, readers, pollPc, life, appeared>>

(* statistic_tracker_statServiceRemoved: the entry of the service, if there  *)
(* is one, leaves the map ...                                                *)
RemoveBegin(s) ==
  /\ tracking[s] = "removing" /\ Writable
  /\ tracking' = [tracking EXCEPT ![s] = IF s \in statServices THEN "joining" ELSE "idle"]
  /\ statServices' = statServices \ {s}
  /\ UNCHANGED <<running, readers, pollPc, life, appeared>>

(* Faulty: the removed callback does not wait for the poller. *)
RemoveUnjoined(s) ==
  /\ tracking[s] = "joining"
  /\ tracking' = [tracking EXCEPT ![s] = "idle"]
  /\ UNCHANGED <<statServices, running, readers, pollPc, life, appeared>>

(* ... and its poller is joined without the lock. *)
RemoveEnd(s) ==
  /\ tracking[s] = "joining" /\ pollPc[s] = "exited"
  /\ pollPc' = [pollPc EXCEPT ![s] = "none"]
  /\ tracking' = [tracking EXCEPT ![s] = "idle"]
  /\ UNCHANGED <<statServices, running, readers, life, appeared>>

TrackerStep(s) == AskName(s) \/ CreatePoller(s) \/ PutEntry(s) \/ RemoveBegin(s) \/ RemoveEnd(s)

-----------------------------------------------------------------------------
(* bundleActivator_stop: the flag is cleared while services can still        *)
(* appear; then closing the tracker has the services removed.                *)

StatisticTrackerStop ==
  /\ life = "started"
  /\ running' = FALSE
  /\ life' = "stopping"
  /\ UNCHANGED <<statServices, readers, tracking, pollPc, appeared>>

TrackerClose ==
  /\ life = "stopping"
  /\ life' = "closing"
  /\ UNCHANGED <<statServices, running, readers, tracking, pollPc, appeared>>

Closed == life = "closing" /\ \A s \in Service : tracking[s] = "idle"

-----------------------------------------------------------------------------
Next ==
  \/ \E s \in Service : PollStep(s) \/ StatsAppear(s) \/ StatsDisappear(s) \/ TrackerStep(s)
  \/ StatisticTrackerStop \/ TrackerClose
  \/ Closed /\ UNCHANGED vars

Spec == Init /\ [][Next]_vars

(* Threads and callbacks that can run do run, calls of a service return, and *)
(* closing the tracker removes what it tracks.                               *)
FairSpec ==
  /\ Spec
  /\ \A s \in Service :
       /\ WF_vars(PollStep(s)) /\ WF_vars(TrackerStep(s))
       /\ WF_vars(life = "closing" /\ StatsDisappear(s))
  /\ WF_vars(TrackerClose)

-----------------------------------------------------------------------------
TypeOK ==
  /\ statServices \subseteq Service /\ running \in BOOLEAN /\ readers \subseteq Service
  /\ tracking \in [Service -> {"idle", "naming", "adding", "creating", "tracked",
                           "removing", "joining"}]
  /\ pollPc \in [Service -> {"none", "start", "check", "lookup", "polling", "exited"}]
  /\ life \in {"started", "stopping", "closing"}
  /\ appeared \in 0..MaxAppear

(* What the framework relies on: see ServiceUser.  A service is held from    *)
(* the call of the added callback to the return of the removed one.          *)
User == INSTANCE ServiceUser
          WITH Thread <- Service,
               held <- {s \in Service : tracking[s] # "idle"},
               inside <- {<<s, s>> : s \in {t \in Service : pollPc[t] = "polling"}}

(* A poller is inside a statistics service only between its added callback   *)
(* and the return of its removed callback.                                   *)
ImplementsServiceUser == User!UserSpec

(* No poller gives up a service that is in the map while the bundle has not  *)
(* been stopped: a poller that runs before its entry is made waits for the   *)
(* lock, so its first lookup finds the entry, and no other poller's end      *)
(* clears the shared flag.                                                   *)
PolledWhileTracked ==
  life = "started" => \A s \in statServices : pollPc[s] \notin {"none", "exited"}

(* The removal of a service always ends, even if its poller has not begun:   *)
(* the poller may set running again, but it finds no entry.  (Services that  *)
(* come and go for ever could keep the poller from the lock.)                *)
RemovalEnds == \A s \in Service : tracking[s] = "joining" ~> tracking[s] = "idle"

(* Once closing has begun all services are given back, although services     *)
(* that come between the two steps of stopping set running again.            *)
StopEnds == life = "closing" ~> Closed

(* Neither the removal of a service nor closing the tracker waits for ever   *)
(* (statistic_tracker_impl.c).                                               *)
TeardownEnds == RemovalEnds /\ StopEnds

(* The inductive invariant: a poller exists for each entry of the map, for   *)
(* each service whose entry is about to be made and for each one whose       *)
(* removal joins it; it reads with the lock held, and while it does the      *)
(* entry is there.                                                           *)
PollerOfEntry ==
  \A s \in Service :
    /\ s \in statServices => tracking[s] \in {"tracked", "removing"}
    /\ pollPc[s] # "none" <=> s \in statServices \/ tracking[s] \in {"creating", "joining"}
ReadersPoll == readers = {s \in Service : pollPc[s] = "polling"} /\ readers \subseteq statServices
FlagKept ==
  life = "started" =>
    \A s \in Service : /\ pollPc[s] \in {"check", "lookup", "polling"} => running
                       /\ pollPc[s] = "exited" => s \notin statServices /\ tracking[s] # "creating"

IInv == TypeOK /\ PollerOfEntry /\ ReadersPoll /\ FlagKept

================================================================================
