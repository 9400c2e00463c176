---------------------------- MODULE EventLedger ----------------------------
(***************************************************************************)
(* What the event log and the saved economy promise together: every event  *)
(* a session logs is credited to the economy at most once, only after it   *)
(* was logged, and for good.  Crediting may lag (the daemon may be down)   *)
(* and may settle many events at once (a save covers all since the last).  *)
(***************************************************************************)
EXTENDS Naturals

CONSTANTS Sessions, LineId

VARIABLES
  logged,    \* logged[s]: the lines session s has logged
  credited,  \* credited[s][l]: how often the saved economy has counted line l
  void       \* sessions for which exactly-once is off

vars == <<logged, credited, void>>

Init ==
  /\ logged = [s \in Sessions |-> {}]
  /\ credited = [s \in Sessions |-> [l \in LineId |-> 0]]
  /\ void = {}

LogLine(s) ==
  /\ \E l \in LineId \ logged[s] : logged' = [logged EXCEPT ![s] = @ \cup {l}]
  /\ UNCHANGED <<credited, void>>

\* A save settles any number of logged lines; a session may become void.
Settle ==
  /\ UNCHANGED logged
  /\ void \subseteq void' /\ void' \subseteq Sessions
  /\ credited' \in [Sessions -> [LineId -> Nat]]
  /\ \A s \in Sessions, l \in LineId :
       /\ credited'[s][l] >= credited[s][l]
       /\ credited'[s][l] > 0 => l \in logged[s]
       /\ s \notin void' => credited'[s][l] <= 1

Next == Settle \/ \E s \in Sessions : LogLine(s)

Spec == Init /\ [][Next]_vars
=============================================================================
