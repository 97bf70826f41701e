---------------------------- MODULE VmLifecycle ----------------------------
(***************************************************************************)
(* What the daemon promises of every VM name: the life cycle of the        *)
(* VmState enum, and that guest code executes only under a name that is    *)
(* Running, in at most one partition at a time.  The module says nothing   *)
(* of locks, files, tasks or requests; VmManager is shown to implement it. *)
(***************************************************************************)
CONSTANT Ids    \* the VM names

VARIABLES
  life,         \* life[id]: the state reported for id, "Absent" if unknown
  live          \* the names for which a hypervisor partition exists

lifeVars == <<life, live>>

Init ==
  /\ life = [id \in Ids |-> "Absent"]
  /\ live = {}

Create(id) ==
  /\ life[id] = "Absent"
  /\ life' = [life EXCEPT ![id] = "Created"]
  /\ UNCHANGED live

Start(id) ==
  /\ life[id] = "Created"
  /\ life' = [life EXCEPT ![id] = "Running"]
  /\ UNCHANGED live

\* The partition is set up after the name was marked Running, or never.
Boot(id) ==
  /\ life[id] = "Running"
  /\ id \notin live
  /\ live' = live \cup {id}
  /\ UNCHANGED life

Exit(id) ==
  /\ id \in live
  /\ \E s \in {"Stopped", "Failed"} : life' = [life EXCEPT ![id] = s]
  /\ live' = live \ {id}

Delete(id) ==
  /\ life[id] \in {"Created", "Stopped", "Failed"}
  /\ life' = [life EXCEPT ![id] = "Absent"]
  /\ UNCHANGED live

\* A new daemon process: no partition survives and nothing is Running.
Recover ==
  /\ life' \in [Ids -> {"Absent", "Created", "Stopped", "Failed"}]
  /\ live' = {}

Next ==
  \/ \E id \in Ids :
       Create(id) \/ Start(id) \/ Boot(id) \/ Exit(id) \/ Delete(id)
  \/ Recover

Spec == Init /\ [][Next]_lifeVars
=============================================================================
