------------------------------ MODULE ServiceUser ------------------------------
(***************************************************************************)
(* What a component that tracks services promises the framework: it calls a *)
(* service only between the service's added callback and the return of its  *)
(* removed callback.  The owner of a service relies on it: once             *)
(* serviceRegistration_unregister has returned, no tracked user is inside.  *)
(***************************************************************************)
CONSTANTS
  Thread,   \* threads of the component
  Service   \* services it may be told of

VARIABLES
  held,     \* services added and not yet given back
  inside    \* pairs <<t, s>>: thread t is in a call of service s

userVars == <<held, inside>>

UserInit == held = {} /\ inside = {}

Hold(s) ==
  /\ s \notin held
  /\ held' = held \cup {s}
  /\ UNCHANGED inside

Enter(t, s) ==
  /\ s \in held /\ <<t, s>> \notin inside
  /\ inside' = inside \cup {<<t, s>>}
  /\ UNCHANGED held

Leave(t, s) ==
  /\ <<t, s>> \in inside
  /\ inside' = inside \ {<<t, s>>}
  /\ UNCHANGED held

Drop(s) ==
  /\ s \in held /\ \A t \in Thread : <<t, s>> \notin inside
  /\ held' = held \ {s}
  /\ UNCHANGED inside

UserNext ==
  \/ \E s \in Service : Hold(s) \/ Drop(s)
  \/ \E t \in Thread, s \in Service : Enter(t, s) \/ Leave(t, s)

UserSpec == UserInit /\ [][UserNext]_userVars

================================================================================
