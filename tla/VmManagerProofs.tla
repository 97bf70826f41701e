-------------------------- MODULE VmManagerProofs --------------------------
(***************************************************************************)
(* Proofs about VmManager for every set of names, configurations, request  *)
(* slots and runs, any subset of failing operations and any bounds.        *)
(***************************************************************************)
EXTENDS VmManager, FiniteSetTheorems, TLAPS

---------------------------------------------------------------------------
(* What the building blocks of the actions do, field by field. *)

LEMMA ReplyEffect ==
  ASSUME client \in [Clients -> Requests], NEW c \in Clients, Reply(c)
  PROVE  /\ client' \in [Clients -> Requests]
         /\ client'[c].pc = "Idle"
         /\ \A d \in Clients : d # c => client'[d] = client[d]
<1>1. Idle \in Requests /\ Idle.pc = "Idle"
  BY ManagerAssumptions DEF Idle, Requests, ClientPcs
<1> QED BY <1>1 DEF Reply

LEMMA GoToEffect ==
  ASSUME client \in [Clients -> Requests], NEW c \in Clients, NEW pc \in ClientPcs, GoTo(c, pc)
  PROVE  /\ client' \in [Clients -> Requests]
         /\ client'[c].pc = pc
         /\ client'[c].id = client[c].id
         /\ client'[c].config = client[c].config
         /\ client'[c].run = client[c].run
         /\ \A d \in Clients : d # c => client'[d] = client[d]
  BY DEF GoTo, Requests

LEMMA BeginEffect ==
  ASSUME client \in [Clients -> Requests], NEW c \in Clients, NEW pc \in ClientPcs,
         NEW id \in Ids, NEW k \in Configs \cup {None}, NEW r \in Runs \cup {None},
         Begin(c, pc, id, k, r)
  PROVE  /\ client' \in [Clients -> Requests]
         /\ client'[c].pc = pc
         /\ client'[c].id = id
         /\ client'[c].config = k
         /\ client'[c].run = r
         /\ \A d \in Clients : d # c => client'[d] = client[d]
<1> DEFINE new == [pc |-> pc, id |-> id, config |-> k, run |-> r, polls |-> 0]
<1>1. new \in Requests /\ new.pc = pc /\ new.id = id /\ new.config = k /\ new.run = r
  BY ManagerAssumptions DEF Requests
<1>2. client' = [client EXCEPT ![c] = new]
  BY DEF Begin
<1> HIDE DEF new
<1> QED BY <1>1, <1>2

LEMMA WriteStateEffect ==
  ASSUME disk \in [Ids -> Dirs], NEW id \in Ids, NEW s \in VmStates \cup {None, "corrupt"},
         WriteState(id, s)
  PROVE  disk' \in [Ids -> Dirs]
  BY DEF WriteState, Dirs

LEMMA StateWriteFailsEffect ==
  ASSUME disk \in [Ids -> Dirs], NEW id \in Ids, NEW op, StateWriteFails(op, id)
  PROVE  disk' \in [Ids -> Dirs]
<1>1. disk[id].state \in VmStates \cup {None, "corrupt"}
  BY DEF Dirs
<1> QED BY <1>1, WriteStateEffect DEF StateWriteFails

LEMMA WriteConfigEffect ==
  ASSUME disk \in [Ids -> Dirs], NEW id \in Ids, NEW k \in Configs \cup {None, "corrupt"},
         WriteConfig(id, k)
  PROVE  disk' \in [Ids -> Dirs]
  BY DEF WriteConfig, Dirs

LEMMA StoredEntryFields ==
  ASSUME NEW s \in VmStates \cup {"Absent"}, NEW k \in Configs \cup {None}
  PROVE  /\ StoredEntry(s, k) \in Entries
         /\ StoredEntry(s, k).state = s
         /\ StoredEntry(s, k).config = k
         /\ StoredEntry(s, k).stop_flag = None
  BY DEF StoredEntry, Entries

LEMMA NoEntryFields ==
  NoEntry \in Entries /\ NoEntry.state = "Absent" /\ NoEntry.stop_flag = None
  BY StoredEntryFields DEF NoEntry

LEMMA NewRunFields ==
  ASSUME NEW pc \in RunPcs, NEW id \in Ids \cup {None}
  PROVE  /\ NewRun(pc, id) \in RunRecords
         /\ NewRun(pc, id).pc = pc
         /\ NewRun(pc, id).id = id
         /\ ~NewRun(pc, id).closed
  BY DEF NewRun, RunRecords

\* Setting stop flags changes nothing else of a run.
LEMMA SetFlagsEffect ==
  ASSUME run \in [Runs -> RunRecords], NEW S, SetFlags(S)
  PROVE  /\ run' \in [Runs -> RunRecords]
         /\ \A r \in Runs : /\ run'[r].pc = run[r].pc
                            /\ run'[r].id = run[r].id
                            /\ run'[r].result = run[r].result
                            /\ run'[r].closed = run[r].closed
<1>1. ASSUME NEW r \in Runs
      PROVE  /\ run'[r] \in RunRecords
             /\ run'[r].pc = run[r].pc
             /\ run'[r].id = run[r].id
             /\ run'[r].result = run[r].result
             /\ run'[r].closed = run[r].closed
  <2>1. run'[r] = run[r] \/ run'[r] = [run[r] EXCEPT !.stop = TRUE]
    BY DEF SetFlags
  <2> QED BY <2>1 DEF RunRecords
<1> QED BY <1>1 DEF SetFlags

\* A run that moves on, with or without a result.
LEMMA RunPcEffect ==
  ASSUME run \in [Runs -> RunRecords], NEW r \in Runs, NEW pc \in RunPcs,
         run' = [run EXCEPT ![r].pc = pc]
  PROVE  /\ run' \in [Runs -> RunRecords]
         /\ run'[r].pc = pc
         /\ run'[r].id = run[r].id
         /\ run'[r].result = run[r].result
         /\ run'[r].closed = run[r].closed
         /\ \A s \in Runs : s # r => run'[s] = run[s]
  BY DEF RunRecords

LEMMA ReturnEffect ==
  ASSUME run \in [Runs -> RunRecords], NEW r \in Runs, NEW res \in {"Stopped", "Failed"},
         run' = [run EXCEPT ![r].pc = "exited", ![r].result = res]
  PROVE  /\ run' \in [Runs -> RunRecords]
         /\ run'[r].pc = "exited"
         /\ run'[r].id = run[r].id
         /\ run'[r].result = res
         /\ run'[r].closed = run[r].closed
         /\ \A s \in Runs : s # r => run'[s] = run[s]
<1>1. run' = [run EXCEPT ![r] = [[run[r] EXCEPT !.pc = "exited"] EXCEPT !.result = res]]
  OBVIOUS
<1>2. [run[r] EXCEPT !.pc = "exited"] \in RunRecords
  BY DEF RunRecords, RunPcs
<1> QED BY <1>1, <1>2 DEF RunRecords, RunPcs

LEMMA MarkRunningEffect ==
  ASSUME client \in [Clients -> Requests], run \in [Runs -> RunRecords], vms \in [Ids -> Entries],
         NEW c \in Clients, NEW id \in Ids, MarkRunning(c, id)
  PROVE  \E r \in Runs :
           /\ run[r].pc = "unused"
           /\ client' \in [Clients -> Requests]
           /\ run' \in [Runs -> RunRecords]
           /\ vms' \in [Ids -> Entries]
           /\ vms[id].state = "Created"
           /\ vms'[id].state = "Running" /\ vms'[id].config = vms[id].config
           /\ vms'[id].stop_flag = r /\ vms'[id].serial_buf = r
           /\ \A j \in Ids : j # id => vms'[j] = vms[j]
           /\ run'[r].pc = "starting" /\ run'[r].id = id /\ ~run'[r].closed
           /\ \A s \in Runs : s # r => run'[s] = run[s]
           /\ client'[c].pc = "SaveRunning" /\ client'[c].id = id /\ client'[c].run = r
           /\ \A d \in Clients : d # c => client'[d] = client[d]
           /\ UNCHANGED <<disk, completions, waiter, crashes>>
<1>1. PICK r \in Runs :
         /\ run[r].pc = "unused"
         /\ run' = [run EXCEPT ![r] = NewRun("starting", id)]
         /\ vms' = [vms EXCEPT ![id].state = "Running", ![id].stop_flag = r, ![id].serial_buf = r]
         /\ Begin(c, "SaveRunning", id, None, r)
  BY DEF MarkRunning
<1>2. /\ client' \in [Clients -> Requests]
      /\ client'[c].pc = "SaveRunning" /\ client'[c].id = id /\ client'[c].run = r
      /\ \A d \in Clients : d # c => client'[d] = client[d]
  <2>1. "SaveRunning" \in ClientPcs /\ None \in Configs \cup {None} /\ r \in Runs \cup {None}
    BY DEF ClientPcs
  <2>2. Begin(c, "SaveRunning", id, None, r)
    BY <1>1
  <2> QED BY <2>1, <2>2, BeginEffect
<1>3. /\ run' \in [Runs -> RunRecords]
      /\ run'[r].pc = "starting" /\ run'[r].id = id /\ ~run'[r].closed
      /\ \A s \in Runs : s # r => run'[s] = run[s]
  BY <1>1, NewRunFields DEF RunPcs
<1>4. /\ vms' \in [Ids -> Entries]
      /\ vms'[id].state = "Running" /\ vms'[id].config = vms[id].config
      /\ vms'[id].stop_flag = r /\ vms'[id].serial_buf = r
      /\ \A j \in Ids : j # id => vms'[j] = vms[j]
  <2> DEFINE e1 == [vms[id] EXCEPT !.state = "Running"]
             e2 == [e1 EXCEPT !.stop_flag = r]
             e3 == [e2 EXCEPT !.serial_buf = r]
  <2>1. vms' = [vms EXCEPT ![id] = e3]
    BY <1>1
  <2>2. e1 \in Entries /\ e1.state = "Running" /\ e1.config = vms[id].config
    BY DEF Entries, VmStates
  <2>3. e2 \in Entries /\ e2.state = e1.state /\ e2.config = e1.config /\ e2.stop_flag = r
    <3> HIDE DEF e1
    <3> QED BY <2>2 DEF Entries
  <2>4. /\ e3 \in Entries /\ e3.state = e2.state /\ e3.config = e2.config
        /\ e3.stop_flag = e2.stop_flag /\ e3.serial_buf = r
    <3> HIDE DEF e2
    <3> QED BY <2>3 DEF Entries
  <2> HIDE DEF e1, e2, e3
  <2> QED BY <2>1, <2>2, <2>3, <2>4
<1>5. vms[id].state = "Created" /\ UNCHANGED <<disk, completions, waiter, crashes>>
  BY DEF MarkRunning, Startable
<1> QED BY <1>1, <1>2, <1>3, <1>4, <1>5

\* The two ends of RecordExit: the name is gone, or an entry is updated.
LEMMA RecordExitEffect ==
  ASSUME run \in [Runs -> RunRecords], vms \in [Ids -> Entries], NEW r \in Runs,
         run[r].id \in Ids, run[r].result \in {"Stopped", "Failed"}, RecordExit(r)
  PROVE  /\ run[r].pc = "exited"
         /\ run' \in [Runs -> RunRecords]
         /\ vms' \in [Ids -> Entries]
         /\ UNCHANGED <<disk, client, completions, waiter, crashes>>
         /\ \A s \in Runs : /\ run'[s].id = run[s].id
                            /\ run'[s].result = run[s].result
                            /\ s # r => run'[s].pc = run[s].pc
         /\ \/ /\ vms[run[r].id].state = "Absent"
               /\ run'[r].pc = "notify"
               /\ \A s \in Runs : run'[s].closed = run[s].closed
               /\ vms' = vms
            \/ /\ vms[run[r].id].state # "Absent"
               /\ run'[r].pc = "saving"
               /\ \A s \in Runs :
                    run'[s].closed <=> (run[s].closed \/ vms[run[r].id].serial_buf = s)
               /\ vms'[run[r].id].state = run[r].result
               /\ vms'[run[r].id].config = vms[run[r].id].config
               /\ \A j \in Ids : j # run[r].id => vms'[j] = vms[j]
<1> DEFINE id == run[r].id
<1>0. run[r].pc = "exited" /\ UNCHANGED <<disk, client, completions, waiter, crashes>>
  BY DEF RecordExit
<1>1. CASE vms[id].state = "Absent"
  <2>1. run' = [run EXCEPT ![r].pc = "notify"] /\ vms' = vms
    BY <1>1 DEF RecordExit
  <2> QED BY <1>0, <1>1, <2>1, RunPcEffect DEF RunPcs
<1>2. CASE vms[id].state # "Absent"
  <2>1. /\ vms' = [vms EXCEPT ![id] = ExitedEntry(@, run[r].result)]
        /\ run' = [s \in Runs |->
                     [run[s] EXCEPT !.pc = IF s = r THEN "saving" ELSE @,
                                    !.closed = @ \/ Closes(vms[id], s)]]
    BY <1>2 DEF RecordExit
  <2>2. ASSUME NEW s \in Runs
        PROVE  /\ run'[s] \in RunRecords
               /\ run'[s].id = run[s].id
               /\ run'[s].result = run[s].result
               /\ run'[s].pc = IF s = r THEN "saving" ELSE run[s].pc
               /\ run'[s].closed <=> (run[s].closed \/ vms[id].serial_buf = s)
    <3> DEFINE q1 == [run[s] EXCEPT !.pc = IF s = r THEN "saving" ELSE @]
               shut == run[s].closed \/ vms[id].serial_buf = s
               q2 == [q1 EXCEPT !.closed = shut]
    <3>1. /\ q1 \in RunRecords /\ q1.id = run[s].id /\ q1.result = run[s].result
          /\ q1.pc = IF s = r THEN "saving" ELSE run[s].pc
      BY DEF RunRecords, RunPcs
    <3>2. run'[s] = q2
      BY <2>1 DEF Closes, RunRecords
    <3>3. shut \in BOOLEAN
      OBVIOUS
    <3> HIDE DEF q1, shut
    <3>4. /\ q2 \in RunRecords /\ q2.id = q1.id /\ q2.result = q1.result /\ q2.pc = q1.pc
          /\ q2.closed = shut
      BY <3>1, <3>3 DEF RunRecords
    <3> HIDE DEF q2
    <3>5. run'[s].closed <=> shut
      BY <3>2, <3>4
    <3> QED BY <3>1, <3>2, <3>4, <3>5 DEF shut
  <2>3. run' \in [Runs -> RunRecords]
    BY <2>1, <2>2
  <2>4. /\ vms' \in [Ids -> Entries]
        /\ vms'[id].state = run[r].result
        /\ vms'[id].config = vms[id].config
        /\ \A j \in Ids : j # id => vms'[j] = vms[j]
    <3> DEFINE e1 == [vms[id] EXCEPT !.state = run[r].result]
               e2 == [e1 EXCEPT !.stop_flag = None]
    <3>1. vms' = [vms EXCEPT ![id] = e2]
      BY <2>1 DEF ExitedEntry
    <3>2. e1 \in Entries /\ e1.state = run[r].result /\ e1.config = vms[id].config
      BY DEF Entries, VmStates
    <3> HIDE DEF e1
    <3>3. e2 \in Entries /\ e2.state = e1.state /\ e2.config = e1.config
      BY <3>2 DEF Entries
    <3> HIDE DEF e2
    <3> QED BY <3>1, <3>2, <3>3
  <2> QED BY <1>0, <1>2, <2>2, <2>3, <2>4
<1> QED BY <1>1, <1>2

LEMMA RecoverEffect ==
  ASSUME disk \in [Ids -> Dirs], CrashAndRecover
  PROVE  /\ disk' \in [Ids -> Dirs]
         /\ vms' \in [Ids -> Entries]
         /\ \A id \in Ids : /\ vms'[id].state # "Running"
                            /\ vms'[id].state # "Absent" => vms'[id].config \in Configs
         /\ client' \in [Clients -> Requests]
         /\ \A c \in Clients : client'[c].pc = "Idle"
         /\ run \in [Runs -> RunRecords] => run' \in [Runs -> RunRecords]
         /\ \A r \in Runs :
              \/ run'[r] = run[r] /\ run[r].pc = "unused"
              \/ run'[r].pc = "dead" /\ ~run'[r].closed
<1>1. PICK W \in SUBSET PendingWrites, D \in SUBSET PendingRemovals :
             disk' = Torn(W, D) /\ vms' = LoadAll(Torn(W, D))
  BY DEF CrashAndRecover
<1>2. Torn(W, D) \in [Ids -> Dirs]
  <2>1. ASSUME NEW id \in Ids PROVE Torn(W, D)[id] \in Dirs
    <3> DEFINE k == TornFile(disk[id].config, <<id, "config">> \in W, <<id, "config">> \in D)
               s == TornFile(disk[id].state, <<id, "state">> \in W, <<id, "state">> \in D)
    <3>1. k \in Configs \cup {None, "corrupt"} /\ s \in VmStates \cup {None, "corrupt"}
      BY DEF TornFile, Dirs
    <3>2. Torn(W, D)[id] = [config |-> k, state |-> s]
      BY DEF Torn
    <3> HIDE DEF k, s
    <3> QED BY <3>1, <3>2 DEF Dirs
  <2> QED BY <2>1 DEF Torn
<1>3. ASSUME NEW id \in Ids
      PROVE  /\ vms'[id] \in Entries
             /\ vms'[id].state # "Running"
             /\ vms'[id].state # "Absent" => vms'[id].config \in Configs
  <2> DEFINE d == disk'[id]
  <2>1. d.config \in Configs \cup {None, "corrupt"} /\ d.state \in VmStates \cup {None, "corrupt"}
    BY <1>1, <1>2 DEF Dirs
  <2>2. vms'[id] = IF d.config \in {None, "corrupt"} THEN NoEntry
                     ELSE StoredEntry(LoadState(d.state), d.config)
    BY <1>1 DEF LoadAll
  <2>3. LoadState(d.state) \in VmStates \ {"Running"}
    BY <2>1 DEF LoadState, VmStates
  <2> HIDE DEF d
  <2> QED BY <2>1, <2>2, <2>3, NoEntryFields, StoredEntryFields DEF VmStates
<1>4. vms' \in [Ids -> Entries]
  BY <1>1, <1>3 DEF LoadAll
<1>5. Idle \in Requests /\ Idle.pc = "Idle"
  BY ManagerAssumptions DEF Idle, Requests, ClientPcs
<1>6. client' \in [Clients -> Requests] /\ \A c \in Clients : client'[c].pc = "Idle"
  BY <1>5 DEF CrashAndRecover
<1>7. /\ NewRun("dead", None) \in RunRecords
      /\ NewRun("dead", None).pc = "dead"
      /\ ~NewRun("dead", None).closed
  BY NewRunFields DEF RunPcs
<1>8. run' = [r \in Runs |-> IF run[r].pc = "unused" THEN run[r] ELSE NewRun("dead", None)]
  BY DEF CrashAndRecover
<1>9. run \in [Runs -> RunRecords] => run' \in [Runs -> RunRecords]
  BY <1>7, <1>8
<1>10. ASSUME NEW r \in Runs
       PROVE  \/ run'[r] = run[r] /\ run[r].pc = "unused"
              \/ run'[r].pc = "dead" /\ ~run'[r].closed
  BY <1>7, <1>8
<1>11. disk' \in [Ids -> Dirs]
  BY <1>1, <1>2
<1> HIDE DEF CrashAndRecover
<1> QED BY <1>3, <1>4, <1>6, <1>9, <1>10, <1>11

LEMMA ConfigWriteFailsEffect ==
  ASSUME disk \in [Ids -> Dirs], NEW id \in Ids, ConfigWriteFails(id)
  PROVE  disk' \in [Ids -> Dirs]
<1>1. disk[id].config \in Configs \cup {None, "corrupt"}
  BY DEF Dirs
<1> QED BY <1>1, WriteConfigEffect DEF ConfigWriteFails

---------------------------------------------------------------------------
(* Type correctness.  TypeOK allows None in every optional field; it is    *)
(* inductive only together with which of them are set at which point.      *)

VmsOK ==
  /\ vms \in [Ids -> Entries]
  /\ \A id \in Ids : vms[id].state # "Absent" => vms[id].config \in Configs

DiskOK == disk \in [Ids -> Dirs]

ClientOK ==
  /\ client \in [Clients -> Requests]
  /\ \A c \in Clients :
       /\ client[c].pc # "Idle" => client[c].id \in Ids
       /\ client[c].pc \in {"SaveRunning", "Spawn"} => client[c].run \in Runs
       /\ client[c].pc \in {"CloneInsert", "SaveConfig"} => client[c].config \in Configs

RunOK ==
  /\ run \in [Runs -> RunRecords]
  /\ \A r \in Runs :
       /\ run[r].pc \notin {"unused", "dead"} => run[r].id \in Ids
       /\ run[r].pc \in {"exited", "saving"} => run[r].result \in {"Stopped", "Failed"}

CountersOK == completions \in Nat /\ waiter \in Waits /\ crashes \in 0..MaxCrashes

TypeInv == VmsOK /\ DiskOK /\ ClientOK /\ RunOK /\ CountersOK

\* A start_vm between its locked section and its spawn owns its run alone.
StartsOK ==
  \A c \in Clients : client[c].pc \in {"SaveRunning", "Spawn"} =>
    /\ run[client[c].run].pc = "starting"
    /\ run[client[c].run].id = client[c].id
    /\ \A d \in Clients \ {c} :
         client[d].pc \in {"SaveRunning", "Spawn"} => client[d].run # client[c].run

\* What an action leaves alone stays well typed.
LEMMA Unchanged ==
  /\ VmsOK /\ UNCHANGED vms => VmsOK'
  /\ DiskOK /\ UNCHANGED disk => DiskOK'
  /\ ClientOK /\ UNCHANGED client => ClientOK'
  /\ RunOK /\ UNCHANGED run => RunOK'
  /\ CountersOK /\ UNCHANGED <<completions, waiter, crashes>> => CountersOK'
  BY DEF VmsOK, DiskOK, ClientOK, RunOK, CountersOK

LEMMA ReplyOK == ASSUME ClientOK, NEW c \in Clients, Reply(c) PROVE ClientOK'
  BY ReplyEffect DEF ClientOK

\* A request moves on with the locals it has.
LEMMA GoToOK ==
  ASSUME ClientOK, NEW c \in Clients, NEW pc \in ClientPcs, GoTo(c, pc),
         client[c].pc # "Idle",
         pc = "Spawn" => client[c].pc = "SaveRunning",
         pc \notin {"SaveRunning", "CloneInsert", "SaveConfig"}
  PROVE  ClientOK'
  BY GoToEffect DEF ClientOK

LEMMA BeginOK ==
  ASSUME ClientOK, NEW c \in Clients, NEW pc \in ClientPcs, NEW id \in Ids,
         NEW k \in Configs \cup {None}, NEW r \in Runs \cup {None}, Begin(c, pc, id, k, r),
         pc \in {"SaveRunning", "Spawn"} => r \in Runs,
         pc \in {"CloneInsert", "SaveConfig"} => k \in Configs
  PROVE  ClientOK'
  BY BeginEffect DEF ClientOK

LEMMA SetFlagsOK == ASSUME RunOK, NEW S, SetFlags(S) PROVE RunOK'
  BY SetFlagsEffect DEF RunOK

LEMMA RunPcOK ==
  ASSUME RunOK, NEW r \in Runs, NEW pc \in RunPcs, run' = [run EXCEPT ![r].pc = pc],
         run[r].id \in Ids, pc \notin {"exited", "saving"}
  PROVE  RunOK'
  BY RunPcEffect DEF RunOK

LEMMA RemoveEntryOK ==
  ASSUME VmsOK, NEW id \in Ids, vms' = [vms EXCEPT ![id] = NoEntry]
  PROVE  VmsOK'
  BY NoEntryFields DEF VmsOK

LEMMA InsertEntryOK ==
  ASSUME TypeInv, NEW c \in Clients, NEW id \in Ids, NEW k \in Configs, InsertEntry(c, id, k)
  PROVE  TypeInv'
<1>1. VmsOK'
  <2>1. "Created" \in VmStates
    BY DEF VmStates
  <2> QED BY <2>1, StoredEntryFields DEF InsertEntry, TypeInv, VmsOK
<1>2. ClientOK'
  <2>1. "SaveConfig" \in ClientPcs /\ None \in Runs \cup {None} /\ k \in Configs \cup {None}
    BY DEF ClientPcs
  <2>2. Begin(c, "SaveConfig", id, k, None)
    BY DEF InsertEntry
  <2> QED BY <2>1, <2>2, BeginOK DEF TypeInv
<1> QED BY <1>1, <1>2, Unchanged DEF InsertEntry, TypeInv

LEMMA MarkRunningOK ==
  ASSUME TypeInv, NEW c \in Clients, NEW id \in Ids, MarkRunning(c, id)
  PROVE  TypeInv'
<1>1. PICK r \in Runs :
           /\ client' \in [Clients -> Requests]
           /\ run' \in [Runs -> RunRecords]
           /\ vms' \in [Ids -> Entries]
           /\ vms[id].state = "Created"
           /\ vms'[id].config = vms[id].config
           /\ \A j \in Ids : j # id => vms'[j] = vms[j]
           /\ run'[r].pc = "starting" /\ run'[r].id = id
           /\ \A s \in Runs : s # r => run'[s] = run[s]
           /\ client'[c].pc = "SaveRunning" /\ client'[c].id = id /\ client'[c].run = r
           /\ \A d \in Clients : d # c => client'[d] = client[d]
           /\ UNCHANGED <<disk, completions, waiter, crashes>>
  BY MarkRunningEffect DEF TypeInv, VmsOK, ClientOK, RunOK
<1>2. VmsOK'
  BY <1>1 DEF TypeInv, VmsOK
<1>3. ClientOK'
  BY <1>1 DEF TypeInv, ClientOK
<1>4. RunOK'
  BY <1>1 DEF TypeInv, RunOK
<1> QED BY <1>1, <1>2, <1>3, <1>4, Unchanged DEF TypeInv

LEMMA PollOK ==
  ASSUME TypeInv, NEW c \in Clients, Poll(c)
  PROVE  TypeInv'
<1>1. /\ client[c].pc = "Poll" /\ UNCHANGED <<vms, disk, run, completions, waiter, crashes>>
  BY DEF Poll
<1>2. CASE Reply(c)
  BY <1>1, <1>2, ReplyOK, Unchanged DEF TypeInv
<1>3. CASE GoTo(c, "RestartStart")
  <2>1. "RestartStart" \in ClientPcs
    BY DEF ClientPcs
  <2>2. ClientOK'
    BY <1>1, <1>3, <2>1, GoToOK DEF TypeInv
  <2> QED BY <1>1, <2>2, Unchanged DEF TypeInv
<1>4. CASE /\ ~LastPoll(client[c].polls)
           /\ client' = [client EXCEPT ![c].polls = client[c].polls + 1]
  <2>1. client[c] \in Requests
    BY DEF TypeInv, ClientOK
  <2> DEFINE n == client[c].polls
             q == [client[c] EXCEPT !.polls = n + 1]
  <2>2. n + 1 \in 0..(MaxPolls - 1)
    BY <1>4, <2>1, ManagerAssumptions DEF LastPoll, Requests
  <2>3. client' = [client EXCEPT ![c] = q]
    BY <1>4
  <2>4. /\ q \in Requests /\ q.pc = client[c].pc /\ q.id = client[c].id
        /\ q.run = client[c].run /\ q.config = client[c].config
    <3> HIDE DEF n
    <3> QED BY <2>1, <2>2 DEF Requests
  <2> HIDE DEF q
  <2>5. ClientOK'
    BY <2>3, <2>4 DEF TypeInv, ClientOK
  <2> QED BY <1>1, <2>5, Unchanged DEF TypeInv
<1> QED BY <1>2, <1>3, <1>4 DEF Poll

LEMMA ClientStepOK ==
  ASSUME TypeInv, StartsOK, NEW c \in Clients, ClientStep(c)
  PROVE  TypeInv'
<1> DEFINE id == client[c].id
<1>0. /\ client[c].pc # "Idle" => id \in Ids
      /\ client[c].pc \in {"CloneInsert", "SaveConfig"} => client[c].config \in Configs
      /\ client[c].pc \in {"SaveRunning", "Spawn"} => client[c].run \in Runs
  BY DEF TypeInv, ClientOK
<1>a. {"SaveCreated", "Rollback", "Spawn", "RestartStart"} \subseteq ClientPcs
  BY DEF ClientPcs
<1>b. {"Created", "Running"} \subseteq VmStates
  BY DEF VmStates
<1>1. CASE CloneInsert(c)
  <2>1. CASE InsertEntry(c, id, client[c].config)
    BY <1>0, <1>1, <2>1, InsertEntryOK DEF CloneInsert
  <2>2. CASE Reply(c) /\ UNCHANGED <<vms, disk, run, completions, waiter, crashes>>
    BY <2>2, ReplyOK, Unchanged DEF TypeInv
  <2> QED BY <1>1, <2>1, <2>2 DEF CloneInsert
<1>2. CASE SaveConfig(c)
  <2>0. client[c].pc = "SaveConfig" /\ UNCHANGED <<vms, run, completions, waiter, crashes>>
    BY <1>2 DEF SaveConfig
  <2>1. DiskOK'
    BY <1>0, <1>2, <2>0, WriteConfigEffect, ConfigWriteFailsEffect DEF SaveConfig, TypeInv, DiskOK
  <2>2. ClientOK'
    <3>1. GoTo(c, "SaveCreated") \/ GoTo(c, "Rollback")
      BY <1>2 DEF SaveConfig
    <3> QED BY <1>a, <2>0, <3>1, GoToOK DEF TypeInv
  <2> QED BY <2>0, <2>1, <2>2, Unchanged DEF TypeInv
<1>3. CASE SaveCreated(c)
  <2>0. client[c].pc = "SaveCreated" /\ UNCHANGED <<vms, run, completions, waiter, crashes>>
    BY <1>3 DEF SaveCreated
  <2>1. DiskOK'
    BY <1>0, <1>b, <1>3, <2>0, WriteStateEffect, StateWriteFailsEffect
       DEF SaveCreated, TypeInv, DiskOK
  <2>2. ClientOK'
    <3>1. Reply(c) \/ GoTo(c, "Rollback")
      BY <1>3 DEF SaveCreated
    <3> QED BY <1>a, <2>0, <3>1, GoToOK, ReplyOK DEF TypeInv
  <2> QED BY <2>0, <2>1, <2>2, Unchanged DEF TypeInv
<1>4. CASE Rollback(c)
  BY <1>0, <1>4, RemoveEntryOK, ReplyOK, Unchanged DEF Rollback, TypeInv
<1>5. CASE SaveRunning(c)
  <2>0. client[c].pc = "SaveRunning" /\ UNCHANGED <<vms, run, completions, waiter, crashes>>
    BY <1>5 DEF SaveRunning
  <2>1. DiskOK'
    BY <1>0, <1>b, <1>5, <2>0, WriteStateEffect, StateWriteFailsEffect
       DEF SaveRunning, TypeInv, DiskOK
  <2>2. ClientOK'
    <3>1. Reply(c) \/ GoTo(c, "Spawn")
      BY <1>5 DEF SaveRunning
    <3> QED BY <1>a, <2>0, <3>1, GoToOK, ReplyOK DEF TypeInv
  <2> QED BY <2>0, <2>1, <2>2, Unchanged DEF TypeInv
<1>6. CASE Spawn(c)
  <2>1. "running" \in RunPcs /\ run[client[c].run].id \in Ids
    BY <1>0, <1>6 DEF RunPcs, Spawn, StartsOK
  <2>2. RunOK'
    BY <1>0, <1>6, <2>1, RunPcOK DEF Spawn, TypeInv
  <2> QED BY <1>6, <2>2, ReplyOK, Unchanged DEF Spawn, TypeInv
<1>7. CASE Poll(c)
  BY <1>7, PollOK
<1>8. CASE RestartStart(c)
  <2>1. CASE MarkRunning(c, id)
    BY <1>0, <1>8, <2>1, MarkRunningOK DEF RestartStart
  <2>2. CASE Reply(c) /\ UNCHANGED <<vms, disk, run, completions, waiter, crashes>>
    BY <2>2, ReplyOK, Unchanged DEF TypeInv
  <2> QED BY <1>8, <2>1, <2>2 DEF RestartStart
<1>9. CASE DeleteDir(c)
  <2>0. /\ client[c].pc = "DeleteDir" /\ Reply(c)
        /\ UNCHANGED <<vms, run, completions, waiter, crashes>>
    BY <1>9 DEF DeleteDir
  <2>1. DiskOK'
    <3>1. disk[id] \in Dirs /\ NoDir \in Dirs
      BY <1>0, <2>0 DEF TypeInv, DiskOK, NoDir, Dirs
    <3>2. CASE disk' = [disk EXCEPT ![id] = NoDir]
      BY <1>0, <2>0, <3>1, <3>2 DEF TypeInv, DiskOK
    <3>3. CASE \E left \in SUBSET {"config", "state"} :
                 disk' = [disk EXCEPT ![id] =
                            [config |-> IF "config" \in left THEN @.config ELSE None,
                             state  |-> IF "state" \in left THEN @.state ELSE None]]
      <4>1. PICK left \in SUBSET {"config", "state"} :
                 disk' = [disk EXCEPT ![id] =
                            [config |-> IF "config" \in left THEN @.config ELSE None,
                             state  |-> IF "state" \in left THEN @.state ELSE None]]
        BY <3>3
      <4> DEFINE d == [config |-> IF "config" \in left THEN disk[id].config ELSE None,
                       state  |-> IF "state" \in left THEN disk[id].state ELSE None]
      <4>2. d \in Dirs
        BY <3>1 DEF Dirs
      <4>3. disk' = [disk EXCEPT ![id] = d]
        BY <4>1
      <4> HIDE DEF d
      <4> QED BY <1>0, <2>0, <4>2, <4>3 DEF TypeInv, DiskOK
    <3> QED BY <1>9, <3>2, <3>3 DEF DeleteDir, RemovedDir
  <2> QED BY <2>0, <2>1, ReplyOK, Unchanged DEF TypeInv
<1> QED BY <1>1, <1>2, <1>3, <1>4, <1>5, <1>6, <1>7, <1>8, <1>9 DEF ClientStep

LEMMA ClientRequestOK ==
  ASSUME TypeInv, NEW c \in Clients, ClientRequest(c)
  PROVE  TypeInv'
<1>a. {"CloneInsert", "Poll", "DeleteDir"} \subseteq ClientPcs
  BY DEF ClientPcs
<1>b. None \in Configs \cup {None} /\ None \in Runs \cup {None}
  OBVIOUS
<1>0. PICK id \in Ids :
         \/ \E k \in Configs : CreateVm(c, id, k)
         \/ \E dest \in Ids : CloneRead(c, id, dest)
         \/ StartVm(c, id) \/ StopVm(c, id) \/ RestartVm(c, id) \/ DeleteVm(c, id)
  BY DEF ClientRequest
<1>1. CASE \E k \in Configs : CreateVm(c, id, k)
  BY <1>1, InsertEntryOK DEF CreateVm
<1>2. CASE \E dest \in Ids : CloneRead(c, id, dest)
  <2>1. PICK dest \in Ids : CloneRead(c, id, dest)
    BY <1>2
  <2>2. vms[id].config \in Configs
    BY <2>1 DEF CloneRead, TypeInv, VmsOK
  <2>3. Begin(c, "CloneInsert", dest, vms[id].config, None)
    BY <2>1 DEF CloneRead
  <2>4. ClientOK'
    BY <1>a, <1>b, <2>2, <2>3, BeginOK DEF TypeInv
  <2> QED BY <2>1, <2>4, Unchanged DEF CloneRead, TypeInv
<1>3. CASE StartVm(c, id)
  BY <1>3, MarkRunningOK DEF StartVm
<1>4. CASE StopVm(c, id)
  BY <1>4, SetFlagsOK, Unchanged DEF StopVm, TypeInv
<1>5. CASE RestartVm(c, id)
  <2>1. Begin(c, "Poll", id, None, None)
    BY <1>5 DEF RestartVm
  <2>2. ClientOK'
    BY <1>a, <1>b, <2>1, BeginOK DEF TypeInv
  <2> QED BY <1>5, <2>2, SetFlagsOK, Unchanged DEF RestartVm, TypeInv
<1>6. CASE DeleteVm(c, id)
  <2>1. Begin(c, "DeleteDir", id, None, None)
    BY <1>6 DEF DeleteVm
  <2>2. ClientOK'
    BY <1>a, <1>b, <2>1, BeginOK DEF TypeInv
  <2> QED BY <1>6, <2>2, RemoveEntryOK, Unchanged DEF DeleteVm, TypeInv
<1> QED BY <1>0, <1>1, <1>2, <1>3, <1>4, <1>5, <1>6

LEMMA TaskOK ==
  ASSUME TypeInv, NEW r \in Runs, Returns(r) \/ TaskStep(r)
  PROVE  TypeInv'
<1>0. run[r].id \in Ids
  BY DEF Returns, BootAndRunReturns, TaskStep, RecordExit, SaveExit, SendCompletion, TypeInv, RunOK
<1>a. {"notify", "done"} \subseteq RunPcs
  BY DEF RunPcs
<1>1. CASE Returns(r)
  <2>1. PICK res \in {"Stopped", "Failed"} : BootAndRunReturns(r, res)
    BY <1>1 DEF Returns
  <2>2. RunOK'
    BY <1>0, <2>1, ReturnEffect DEF BootAndRunReturns, TypeInv, RunOK
  <2> QED BY <2>1, <2>2, Unchanged DEF BootAndRunReturns, TypeInv
<1>2. CASE RecordExit(r)
  <2>0. run[r].result \in {"Stopped", "Failed"}
    BY <1>2 DEF RecordExit, TypeInv, RunOK
  <2>1. /\ run[r].pc = "exited"
        /\ run' \in [Runs -> RunRecords]
        /\ vms' \in [Ids -> Entries]
        /\ UNCHANGED <<disk, client, completions, waiter, crashes>>
        /\ \A s \in Runs : /\ run'[s].id = run[s].id
                           /\ run'[s].result = run[s].result
                           /\ s # r => run'[s].pc = run[s].pc
        /\ \/ vms' = vms /\ run'[r].pc = "notify"
           \/ /\ vms[run[r].id].state # "Absent"
              /\ run'[r].pc = "saving"
              /\ vms'[run[r].id].config = vms[run[r].id].config
              /\ \A j \in Ids : j # run[r].id => vms'[j] = vms[j]
    BY <1>0, <1>2, <2>0, RecordExitEffect DEF TypeInv, VmsOK, RunOK
  <2>2. RunOK'
    BY <2>1 DEF TypeInv, RunOK
  <2>3. VmsOK'
    BY <2>1 DEF TypeInv, VmsOK
  <2> QED BY <2>1, <2>2, <2>3, Unchanged DEF TypeInv
<1>3. CASE SaveExit(r)
  <2>1. run[r].result \in VmStates
    BY <1>3 DEF SaveExit, TypeInv, RunOK, VmStates
  <2>2. DiskOK'
    BY <1>0, <1>3, <2>1, WriteStateEffect, StateWriteFailsEffect DEF SaveExit, TypeInv, DiskOK
  <2>3. RunOK'
    BY <1>0, <1>a, <1>3, RunPcOK DEF SaveExit, TypeInv
  <2> QED BY <1>3, <2>2, <2>3, Unchanged DEF SaveExit, TypeInv
<1>4. CASE SendCompletion(r)
  <2>1. RunOK'
    BY <1>0, <1>a, <1>4, RunPcOK DEF SendCompletion, TypeInv
  <2>2. CountersOK'
    BY <1>4 DEF SendCompletion, TypeInv, CountersOK
  <2> QED BY <1>4, <2>1, <2>2, Unchanged DEF SendCompletion, TypeInv
<1> QED BY <1>1, <1>2, <1>3, <1>4 DEF TaskStep

LEMMA ShutdownOK ==
  ASSUME TypeInv, StopAll \/ StopAllAndWait \/ WaitReceive \/ WaitTimeout
  PROVE  TypeInv'
<1>1. CASE StopAll
  BY <1>1, SetFlagsOK, Unchanged DEF StopAll, TypeInv
<1>2. CASE StopAllAndWait
  <2> DEFINE n == Cardinality(RunningIds)
             F == {r \in Runs : \E id \in RunningIds : vms[id].stop_flag = r}
             pc == IF RunningIds = {} THEN "returned" ELSE "waiting"
  <2>1. n \in Nat
    <3>1. IsFiniteSet(RunningIds)
      BY FS_Subset, ManagerAssumptions DEF RunningIds
    <3> QED BY <3>1, FS_CardinalityType
  <2>2. waiter' = [NotShutDown EXCEPT !.pc = pc, !.count = n, !.flagged = F]
    BY <1>2 DEF StopAllAndWait
  <2>3. F \in SUBSET Runs /\ pc \in {"returned", "waiting"}
    OBVIOUS
  <2> HIDE DEF n, F, pc
  <2>4. waiter' = [pc |-> pc, count |-> n, stopped |-> 0, timed_out |-> FALSE, flagged |-> F]
    BY <2>2 DEF NotShutDown
  <2>5. waiter' \in Waits
    BY <2>1, <2>3, <2>4 DEF Waits
  <2>6. CountersOK'
    BY <1>2, <2>5 DEF StopAllAndWait, TypeInv, CountersOK
  <2> QED BY <1>2, <2>6, SetFlagsOK, Unchanged DEF StopAllAndWait, TypeInv
<1>3. CASE WaitReceive
  <2> DEFINE n == waiter.stopped + 1
             pc == IF Drained(n, waiter.count) THEN "returned" ELSE waiter.pc
  <2>1. waiter' = [waiter EXCEPT !.stopped = n, !.pc = pc]
    BY <1>3 DEF WaitReceive
  <2>2. waiter \in Waits /\ n \in Nat /\ pc \in {"idle", "waiting", "returned"}
    BY DEF TypeInv, CountersOK, Waits
  <2> HIDE DEF n, pc
  <2>3. waiter' \in Waits
    BY <2>1, <2>2 DEF Waits
  <2>4. completions' \in Nat
    BY <1>3 DEF WaitReceive, TypeInv, CountersOK
  <2>5. CountersOK'
    BY <1>3, <2>3, <2>4 DEF WaitReceive, TypeInv, CountersOK
  <2> QED BY <1>3, <2>5, Unchanged DEF WaitReceive, TypeInv
<1>4. CASE WaitTimeout
  <2>1. waiter' \in Waits
    BY <1>4 DEF WaitTimeout, TypeInv, CountersOK, Waits
  <2>2. CountersOK'
    BY <1>4, <2>1 DEF WaitTimeout, TypeInv, CountersOK
  <2> QED BY <1>4, <2>2, Unchanged DEF WaitTimeout, TypeInv
<1> QED BY <1>1, <1>2, <1>3, <1>4

LEMMA RecoverOK ==
  ASSUME TypeInv, CrashAndRecover
  PROVE  TypeInv'
<1>1. /\ disk' \in [Ids -> Dirs]
      /\ vms' \in [Ids -> Entries]
      /\ \A id \in Ids : vms'[id].state # "Absent" => vms'[id].config \in Configs
      /\ client' \in [Clients -> Requests]
      /\ \A c \in Clients : client'[c].pc = "Idle"
      /\ run' \in [Runs -> RunRecords]
      /\ \A r \in Runs : run'[r] = run[r] \/ run'[r].pc = "dead"
  BY RecoverEffect DEF TypeInv, DiskOK, RunOK
<1>2. VmsOK' /\ DiskOK'
  BY <1>1 DEF VmsOK, DiskOK
<1>3. ClientOK' /\ RunOK'
  BY <1>1 DEF TypeInv, ClientOK, RunOK
<1>4. CountersOK'
  <2>1. completions' = 0 /\ waiter' = NotShutDown /\ crashes < MaxCrashes /\ crashes' = crashes + 1
    BY DEF CrashAndRecover
  <2>2. NotShutDown \in Waits
    BY DEF NotShutDown, Waits
  <2> QED BY <2>1, <2>2, ManagerAssumptions DEF TypeInv, CountersOK
<1> QED BY <1>2, <1>3, <1>4 DEF TypeInv

---------------------------------------------------------------------------
(* A start_vm owns its run until it spawns the task. *)

\* Request d does not enter the window of StartsOK, and keeps its locals in it.
StartKept(d) ==
  client'[d].pc \in {"SaveRunning", "Spawn"} =>
    /\ client[d].pc \in {"SaveRunning", "Spawn"}
    /\ client'[d].run = client[d].run
    /\ client'[d].id = client[d].id

LEMMA StartsKept ==
  ASSUME ClientOK, StartsOK, \A d \in Clients : StartKept(d),
         \A r \in Runs : run[r].pc = "starting" => /\ run'[r].pc = "starting"
                                                   /\ run'[r].id = run[r].id
  PROVE  StartsOK'
  BY DEF ClientOK, StartsOK, StartKept

LEMMA ReplyKept == ASSUME ClientOK, NEW c \in Clients, Reply(c) PROVE \A d \in Clients : StartKept(d)
  BY ReplyEffect DEF ClientOK, StartKept

LEMMA GoToKept ==
  ASSUME ClientOK, NEW c \in Clients, NEW pc \in ClientPcs, GoTo(c, pc),
         pc = "Spawn" => client[c].pc = "SaveRunning", pc # "SaveRunning"
  PROVE  \A d \in Clients : StartKept(d)
  BY GoToEffect DEF ClientOK, StartKept

LEMMA BeginKept ==
  ASSUME ClientOK, NEW c \in Clients, NEW pc \in ClientPcs, NEW id \in Ids,
         NEW k \in Configs \cup {None}, NEW r \in Runs \cup {None}, Begin(c, pc, id, k, r),
         pc \notin {"SaveRunning", "Spawn"}
  PROVE  \A d \in Clients : StartKept(d)
  BY BeginEffect DEF ClientOK, StartKept

LEMMA InsertEntryStarts ==
  ASSUME TypeInv, StartsOK, NEW c \in Clients, NEW id \in Ids, NEW k \in Configs,
         InsertEntry(c, id, k)
  PROVE  StartsOK'
<1>1. "SaveConfig" \in ClientPcs /\ None \in Runs \cup {None} /\ k \in Configs \cup {None}
  BY DEF ClientPcs
<1>2. Begin(c, "SaveConfig", id, k, None) /\ UNCHANGED run
  BY DEF InsertEntry
<1>3. \A d \in Clients : StartKept(d)
  BY <1>1, <1>2, BeginKept DEF TypeInv
<1> QED BY <1>2, <1>3, StartsKept DEF TypeInv

LEMMA MarkRunningStarts ==
  ASSUME TypeInv, StartsOK, NEW c \in Clients, NEW id \in Ids, MarkRunning(c, id)
  PROVE  StartsOK'
<1>1. PICK r \in Runs :
         /\ run[r].pc = "unused"
         /\ run'[r].pc = "starting" /\ run'[r].id = id
         /\ \A s \in Runs : s # r => run'[s] = run[s]
         /\ client'[c].pc = "SaveRunning" /\ client'[c].id = id /\ client'[c].run = r
         /\ \A d \in Clients : d # c => client'[d] = client[d]
  BY MarkRunningEffect DEF TypeInv, VmsOK, ClientOK, RunOK
<1>2. \A d \in Clients : client[d].pc \in {"SaveRunning", "Spawn"} => client[d].run # r
  BY <1>1 DEF StartsOK
<1>3. \A d \in Clients : client[d].pc \in {"SaveRunning", "Spawn"} => client[d].run \in Runs
  BY DEF TypeInv, ClientOK
<1> QED BY <1>1, <1>2, <1>3 DEF StartsOK

LEMMA ClientStarts ==
  ASSUME TypeInv, StartsOK, NEW c \in Clients, ClientRequest(c) \/ ClientStep(c)
  PROVE  StartsOK'
<1>a. {"CloneInsert", "Poll", "DeleteDir", "SaveCreated", "Rollback", "Spawn", "RestartStart"}
         \subseteq ClientPcs
  BY DEF ClientPcs
<1>b. None \in Configs \cup {None} /\ None \in Runs \cup {None}
  OBVIOUS
<1>c. /\ client[c].pc # "Idle" => client[c].id \in Ids
      /\ client[c].pc \in {"CloneInsert", "SaveConfig"} => client[c].config \in Configs
      /\ client[c].pc \in {"SaveRunning", "Spawn"} => client[c].run \in Runs
  BY DEF TypeInv, ClientOK
<1>1. CASE \E id \in Ids, k \in Configs : CreateVm(c, id, k)
  BY <1>1, InsertEntryStarts DEF CreateVm
<1>2. CASE \E id \in Ids, dest \in Ids : CloneRead(c, id, dest)
  <2>1. PICK id \in Ids, dest \in Ids : CloneRead(c, id, dest)
    BY <1>2
  <2>2. vms[id].config \in Configs \cup {None}
    BY DEF TypeInv, VmsOK, Entries
  <2>3. Begin(c, "CloneInsert", dest, vms[id].config, None) /\ UNCHANGED run
    BY <2>1 DEF CloneRead
  <2>4. \A d \in Clients : StartKept(d)
    BY <1>a, <1>b, <2>2, <2>3, BeginKept DEF TypeInv
  <2> QED BY <2>3, <2>4, StartsKept DEF TypeInv
<1>3. CASE \E id \in Ids : StartVm(c, id)
  BY <1>3, MarkRunningStarts DEF StartVm
<1>4. CASE \E id \in Ids : StopVm(c, id)
  <2>1. /\ \A d \in Clients : StartKept(d)
        /\ \E S : SetFlags(S)
    BY <1>4 DEF StopVm, StartKept
  <2> QED BY <2>1, SetFlagsEffect, StartsKept DEF TypeInv, RunOK
<1>5. CASE \E id \in Ids : RestartVm(c, id)
  <2>1. PICK id \in Ids : SetFlags({id}) /\ Begin(c, "Poll", id, None, None)
    BY <1>5 DEF RestartVm
  <2>2. \A d \in Clients : StartKept(d)
    BY <1>a, <1>b, <2>1, BeginKept DEF TypeInv
  <2> QED BY <2>1, <2>2, SetFlagsEffect, StartsKept DEF TypeInv, RunOK
<1>6. CASE \E id \in Ids : DeleteVm(c, id)
  <2>1. PICK id \in Ids : Begin(c, "DeleteDir", id, None, None) /\ UNCHANGED run
    BY <1>6 DEF DeleteVm
  <2>2. \A d \in Clients : StartKept(d)
    BY <1>a, <1>b, <2>1, BeginKept DEF TypeInv
  <2> QED BY <2>1, <2>2, StartsKept DEF TypeInv
<1>7. CASE CloneInsert(c) \/ RestartStart(c)
  <2>1. CASE InsertEntry(c, client[c].id, client[c].config) /\ client[c].pc = "CloneInsert"
    BY <1>c, <2>1, InsertEntryStarts
  <2>2. CASE MarkRunning(c, client[c].id) /\ client[c].pc = "RestartStart"
    BY <1>c, <2>2, MarkRunningStarts
  <2>3. CASE Reply(c) /\ UNCHANGED run
    BY <2>3, ReplyKept, StartsKept DEF TypeInv
  <2> QED BY <1>7, <2>1, <2>2, <2>3 DEF CloneInsert, RestartStart
<1>8. CASE SaveConfig(c) \/ SaveCreated(c) \/ Rollback(c) \/ SaveRunning(c) \/ DeleteDir(c)
  <2>1. /\ UNCHANGED run
        /\ \/ Reply(c)
           \/ GoTo(c, "SaveCreated")
           \/ GoTo(c, "Rollback")
           \/ GoTo(c, "Spawn") /\ client[c].pc = "SaveRunning"
    BY <1>8 DEF SaveConfig, SaveCreated, Rollback, SaveRunning, DeleteDir
  <2>2. \A d \in Clients : StartKept(d)
    BY <1>a, <2>1, ReplyKept, GoToKept DEF TypeInv
  <2> QED BY <2>1, <2>2, StartsKept DEF TypeInv
<1>9. CASE Spawn(c)
  <2> DEFINE r == client[c].run
  <2>1. /\ client[c].pc = "Spawn" /\ Reply(c) /\ run' = [run EXCEPT ![r].pc = "running"]
    BY <1>9 DEF Spawn
  <2>2. r \in Runs
    BY <1>c, <2>1
  <2>3. \A s \in Runs : s # r => run'[s] = run[s]
    BY <2>1, <2>2, RunPcEffect DEF TypeInv, RunOK, RunPcs
  <2>4. client'[c].pc = "Idle" /\ \A d \in Clients : d # c => client'[d] = client[d]
    BY <2>1, ReplyEffect DEF TypeInv, ClientOK
  <2>5. \A d \in Clients \ {c} :
          client[d].pc \in {"SaveRunning", "Spawn"} => client[d].run # r /\ client[d].run \in Runs
    BY <2>1 DEF StartsOK, TypeInv, ClientOK
  <2> HIDE DEF r
  <2> QED BY <2>3, <2>4, <2>5 DEF StartsOK
<1>10. CASE Poll(c)
  <2>0. UNCHANGED run /\ client[c].pc = "Poll"
    BY <1>10 DEF Poll
  <2>3. \A d \in Clients : StartKept(d)
    <3>1. CASE Reply(c) \/ GoTo(c, "RestartStart")
      BY <1>a, <3>1, ReplyKept, GoToKept DEF TypeInv
    <3>2. CASE client' = [client EXCEPT ![c].polls = client[c].polls + 1]
      BY <2>0, <3>2 DEF TypeInv, ClientOK, Requests, StartKept
    <3> QED BY <1>10, <3>1, <3>2 DEF Poll
  <2> QED BY <2>0, <2>3, StartsKept DEF TypeInv
<1> QED BY <1>1, <1>2, <1>3, <1>4, <1>5, <1>6, <1>7, <1>8, <1>9, <1>10
        DEF ClientRequest, ClientStep

LEMMA TaskStarts ==
  ASSUME TypeInv, StartsOK, NEW r \in Runs, Returns(r) \/ TaskStep(r)
  PROVE  StartsOK'
<1>0. /\ run[r].id \in Ids /\ run[r].pc # "starting" /\ UNCHANGED client
      /\ RecordExit(r) => run[r].result \in {"Stopped", "Failed"}
  BY DEF Returns, BootAndRunReturns, TaskStep, RecordExit, SaveExit, SendCompletion, TypeInv, RunOK
<1>1. ASSUME NEW s \in Runs, run[s].pc = "starting"
      PROVE  run'[s].pc = "starting" /\ run'[s].id = run[s].id
  <2>1. s # r
    BY <1>0, <1>1
  <2>2. CASE Returns(r) \/ SaveExit(r) \/ SendCompletion(r)
    BY <1>1, <2>1, <2>2 DEF Returns, BootAndRunReturns, SaveExit, SendCompletion, TypeInv, RunOK
  <2>3. CASE RecordExit(r)
    BY <1>0, <1>1, <2>1, <2>3, RecordExitEffect DEF TypeInv, VmsOK, RunOK
  <2> QED BY <2>2, <2>3 DEF TaskStep
<1>2. \A d \in Clients : StartKept(d)
  BY <1>0 DEF StartKept
<1> QED BY <1>1, <1>2, StartsKept DEF TypeInv

LEMMA TypingStep ==
  ASSUME TypeInv, StartsOK, [Next]_vars
  PROVE  TypeInv' /\ StartsOK'
<1>1. CASE \E c \in Clients : ClientRequest(c) \/ ClientStep(c)
  BY <1>1, ClientRequestOK, ClientStepOK, ClientStarts
<1>2. CASE \E r \in Runs : Returns(r) \/ TaskStep(r)
  BY <1>2, TaskOK, TaskStarts
<1>3. CASE StopAll \/ StopAllAndWait \/ WaitReceive \/ WaitTimeout
  <2>1. TypeInv'
    BY <1>3, ShutdownOK
  <2>2. \A d \in Clients : StartKept(d)
    BY <1>3 DEF StopAll, StopAllAndWait, WaitReceive, WaitTimeout, StartKept
  <2>3. UNCHANGED run \/ \E S : SetFlags(S)
    BY <1>3 DEF StopAll, StopAllAndWait, WaitReceive, WaitTimeout
  <2>4. StartsOK'
    BY <2>2, <2>3, SetFlagsEffect, StartsKept DEF TypeInv, RunOK
  <2> QED BY <2>1, <2>4
<1>4. CASE CrashAndRecover
  <2>1. \A c \in Clients : client'[c].pc = "Idle"
    BY <1>4, RecoverEffect DEF TypeInv, DiskOK
  <2> QED BY <1>4, <2>1, RecoverOK DEF StartsOK
<1>5. CASE UNCHANGED vars
  BY <1>5, Unchanged DEF vars, TypeInv, StartsOK
<1> QED BY <1>1, <1>2, <1>3, <1>4, <1>5 DEF Next

LEMMA TypingInit == Init => TypeInv /\ StartsOK
<1> SUFFICES ASSUME Init PROVE TypeInv /\ StartsOK
  OBVIOUS
<1>1. VmsOK
  BY NoEntryFields DEF Init, VmsOK
<1>2. DiskOK
  BY DEF Init, DiskOK, NoDir, Dirs
<1>3. Idle \in Requests /\ Idle.pc = "Idle"
  BY ManagerAssumptions DEF Idle, Requests, ClientPcs
<1>4. ClientOK /\ StartsOK
  BY <1>3 DEF Init, ClientOK, StartsOK
<1>5. RunOK
  <2>1. "unused" \in RunPcs /\ None \in Ids \cup {None}
    BY DEF RunPcs
  <2> QED BY <2>1, NewRunFields DEF Init, RunOK
<1>6. CountersOK
  BY ManagerAssumptions DEF Init, CountersOK, NotShutDown, Waits
<1> QED BY <1>1, <1>2, <1>4, <1>5, <1>6 DEF TypeInv

\* Every reachable state is well typed, and the optional locals are set where
\* the code unwraps them.
THEOREM Typing == Spec => [](TypeInv /\ StartsOK)
  BY TypingInit, TypingStep, PTL DEF Spec

\* The type invariant, for every value of the constants.
THEOREM TypeCorrect == Spec => []TypeOK
<1>1. TypeInv => TypeOK
  BY DEF TypeInv, TypeOK, VmsOK, DiskOK, ClientOK, RunOK, CountersOK
<1> QED BY <1>1, Typing, PTL

---------------------------------------------------------------------------
(* NoOrphan and SerialTracksRun, when the saves of create_vm succeed or    *)
(* requests come one by one.  Neither is inductive: a run must own its     *)
(* entry from the moment start_vm marks it Running until its exit is       *)
(* recorded, by both of the entry's handles, and a create_vm that is about *)
(* to remove an entry must find the one it made.                           *)

Owning == {"starting", "running", "exited"}

Ended == {"saving", "notify", "done"}

RunOwns ==
  \A r \in Runs : run[r].pc \in Owning =>
    /\ vms[run[r].id].state = "Running"
    /\ vms[run[r].id].stop_flag = r
    /\ vms[run[r].id].serial_buf = r

RollbackOwn ==
  \A c \in Clients : client[c].pc = "Rollback" => vms[client[c].id].state = "Created"

OwnInv == RunOwns /\ SerialTracksRun /\ RollbackOwn

RunKept(r) ==
  /\ run'[r].id = run[r].id
  /\ run'[r].closed = run[r].closed
  /\ run'[r].pc \in Owning => run[r].pc \in Owning
  /\ run'[r].pc \in Ended <=> run[r].pc \in Ended

EntryKept(id) == vms[id].state = "Running" => vms'[id] = vms[id]

LEMMA OwnKept ==
  ASSUME TypeInv, OwnInv, \A r \in Runs : RunKept(r), \A id \in Ids : EntryKept(id)
  PROVE  RunOwns' /\ SerialTracksRun'
<1>1. \A r \in Runs : run[r].pc \in Owning => run[r].id \in Ids
  BY DEF TypeInv, RunOK, Owning
<1>2. RunOwns'
  BY <1>1 DEF OwnInv, RunOwns, RunKept, EntryKept
<1>3. SerialTracksRun'
  BY DEF OwnInv, SerialTracksRun, RunKept, Ended
<1> QED BY <1>2, <1>3

LEMMA RunsUnchanged == UNCHANGED run => \A r \in Runs : RunKept(r)
  BY DEF RunKept

LEMMA EntriesUnchanged == UNCHANGED vms => \A id \in Ids : EntryKept(id)
  BY DEF EntryKept

LEMMA SetFlagsKept == ASSUME TypeInv, NEW S, SetFlags(S) PROVE \A r \in Runs : RunKept(r)
  BY SetFlagsEffect DEF TypeInv, RunOK, RunKept

LEMMA MarkRunningOwns ==
  ASSUME TypeInv, OwnInv, NEW c \in Clients, NEW id \in Ids, MarkRunning(c, id)
  PROVE  RunOwns' /\ SerialTracksRun'
<1>1. PICK r \in Runs :
         /\ run[r].pc = "unused"
         /\ vms[id].state = "Created"
         /\ vms'[id].state = "Running" /\ vms'[id].stop_flag = r /\ vms'[id].serial_buf = r
         /\ \A j \in Ids : j # id => vms'[j] = vms[j]
         /\ run'[r].pc = "starting" /\ run'[r].id = id /\ ~run'[r].closed
         /\ \A s \in Runs : s # r => run'[s] = run[s]
  BY MarkRunningEffect DEF TypeInv, VmsOK, ClientOK, RunOK
<1>3. RunOwns'
  <2> SUFFICES ASSUME NEW s \in Runs, run'[s].pc \in Owning
               PROVE  /\ vms'[run'[s].id].state = "Running"
                      /\ vms'[run'[s].id].stop_flag = s
                      /\ vms'[run'[s].id].serial_buf = s
    BY DEF RunOwns
  <2>1. CASE s = r
    BY <1>1, <2>1
  <2>2. CASE s # r
    <3>1. run'[s] = run[s] /\ run[s].id \in Ids
      BY <1>1, <2>2 DEF TypeInv, RunOK, Owning
    <3>2. run[s].id # id
      BY <1>1, <3>1 DEF OwnInv, RunOwns
    <3> QED BY <1>1, <3>1, <3>2 DEF OwnInv, RunOwns
  <2> QED BY <2>1, <2>2
<1>4. SerialTracksRun'
  BY <1>1 DEF OwnInv, SerialTracksRun
<1> QED BY <1>3, <1>4

LEMMA RecordExitOwns ==
  ASSUME TypeInv, OwnInv, NEW r \in Runs, RecordExit(r)
  PROVE  RunOwns' /\ SerialTracksRun'
<1> DEFINE id == run[r].id
<1>1. run[r].pc = "exited" /\ id \in Ids /\ run[r].result \in {"Stopped", "Failed"}
  BY DEF RecordExit, TypeInv, RunOK
<1>2. vms[id].state = "Running" /\ vms[id].stop_flag = r /\ vms[id].serial_buf = r
  BY <1>1 DEF OwnInv, RunOwns, Owning
<1>3. /\ \A s \in Runs : run'[s].id = run[s].id /\ (s # r => run'[s].pc = run[s].pc)
      /\ run'[r].pc = "saving"
      /\ \A s \in Runs : run'[s].closed <=> (run[s].closed \/ vms[id].serial_buf = s)
      /\ \A j \in Ids : j # id => vms'[j] = vms[j]
  BY <1>1, <1>2, RecordExitEffect DEF TypeInv, VmsOK, RunOK
<1>5. RunOwns'
  <2> SUFFICES ASSUME NEW s \in Runs, run'[s].pc \in Owning
               PROVE  /\ vms'[run'[s].id].state = "Running"
                      /\ vms'[run'[s].id].stop_flag = s
                      /\ vms'[run'[s].id].serial_buf = s
    BY DEF RunOwns
  <2>1. s # r /\ run[s].pc \in Owning
    BY <1>3 DEF Owning
  <2>2. run[s].id \in Ids /\ run[s].id # id
    BY <1>2, <2>1 DEF TypeInv, RunOK, OwnInv, RunOwns, Owning
  <2> QED BY <1>3, <2>1, <2>2 DEF OwnInv, RunOwns
<1>6. SerialTracksRun'
  BY <1>2, <1>3 DEF OwnInv, SerialTracksRun
<1> QED BY <1>5, <1>6

LEMMA OwnClient ==
  ASSUME TypeInv, StartsOK, OwnInv, NEW c \in Clients, ClientRequest(c) \/ ClientStep(c)
  PROVE  RunOwns' /\ SerialTracksRun'
<1>c. /\ client[c].pc # "Idle" => client[c].id \in Ids
      /\ client[c].pc = "CloneInsert" => client[c].config \in Configs
      /\ client[c].pc = "Spawn" => client[c].run \in Runs
  BY DEF TypeInv, ClientOK
<1>f. ASSUME NEW id \in Ids, NEW k \in Configs, InsertEntry(c, id, k)
      PROVE  RunOwns' /\ SerialTracksRun'
  <2>2. \A j \in Ids : EntryKept(j)
    BY <1>f DEF InsertEntry, EntryKept, TypeInv, VmsOK
  <2>3. \A r \in Runs : RunKept(r)
    BY <1>f, RunsUnchanged DEF InsertEntry
  <2> QED BY <2>2, <2>3, OwnKept
<1>g. ASSUME NEW id \in Ids, vms[id].state # "Running", vms' = [vms EXCEPT ![id] = NoEntry],
             UNCHANGED run
      PROVE  RunOwns' /\ SerialTracksRun'
  <2>1. \A j \in Ids : EntryKept(j)
    BY <1>g DEF EntryKept, TypeInv, VmsOK
  <2> QED BY <1>g, <2>1, RunsUnchanged, OwnKept
<1>1. CASE \E id \in Ids, k \in Configs : CreateVm(c, id, k)
  BY <1>1, <1>f DEF CreateVm
<1>2. CASE \E id \in Ids, dest \in Ids : CloneRead(c, id, dest)
  <2>1. UNCHANGED run /\ UNCHANGED vms
    BY <1>2 DEF CloneRead
  <2> QED BY <2>1, OwnKept, RunsUnchanged, EntriesUnchanged
<1>3. CASE \E id \in Ids : StartVm(c, id)
  BY <1>3, MarkRunningOwns DEF StartVm
<1>4. CASE \E id \in Ids : StopVm(c, id) \/ RestartVm(c, id)
  <2>1. UNCHANGED vms /\ \E S : SetFlags(S)
    BY <1>4 DEF StopVm, RestartVm
  <2> QED BY <2>1, SetFlagsKept, EntriesUnchanged, OwnKept
<1>6. CASE \E id \in Ids : DeleteVm(c, id)
  BY <1>6, <1>g DEF DeleteVm, Deletable
<1>7. CASE CloneInsert(c) \/ RestartStart(c)
  <2>1. CASE InsertEntry(c, client[c].id, client[c].config) /\ client[c].pc = "CloneInsert"
    BY <1>c, <1>f, <2>1
  <2>2. CASE MarkRunning(c, client[c].id) /\ client[c].pc = "RestartStart"
    BY <1>c, <2>2, MarkRunningOwns
  <2>3. CASE UNCHANGED run /\ UNCHANGED vms
    BY <2>3, OwnKept, RunsUnchanged, EntriesUnchanged
  <2> QED BY <1>7, <2>1, <2>2, <2>3 DEF CloneInsert, RestartStart
<1>8. CASE SaveConfig(c) \/ SaveCreated(c) \/ SaveRunning(c) \/ DeleteDir(c) \/ Poll(c)
  <2>1. UNCHANGED run /\ UNCHANGED vms
    BY <1>8 DEF SaveConfig, SaveCreated, SaveRunning, DeleteDir, Poll
  <2> QED BY <2>1, OwnKept, RunsUnchanged, EntriesUnchanged
<1>9. CASE Spawn(c)
  <2> DEFINE r == client[c].run
  <2>1. /\ client[c].pc = "Spawn" /\ run' = [run EXCEPT ![r].pc = "running"]
        /\ UNCHANGED vms
    BY <1>9 DEF Spawn
  <2>2. r \in Runs /\ run[r].pc = "starting"
    BY <1>c, <2>1 DEF StartsOK
  <2>3. /\ run'[r].pc = "running" /\ run'[r].id = run[r].id /\ run'[r].closed = run[r].closed
        /\ \A s \in Runs : s # r => run'[s] = run[s]
    <3>1. "running" \in RunPcs /\ run \in [Runs -> RunRecords]
      BY DEF RunPcs, TypeInv, RunOK
    <3> HIDE DEF r
    <3> QED BY <2>1, <2>2, <3>1, RunPcEffect
  <2>4. \A s \in Runs : RunKept(s)
    BY <2>2, <2>3 DEF RunKept, Owning, Ended
  <2> QED BY <2>1, <2>4, OwnKept, EntriesUnchanged
<1>10. CASE Rollback(c)
  <2>1. /\ client[c].pc = "Rollback" /\ client[c].id \in Ids
        /\ vms' = [vms EXCEPT ![client[c].id] = NoEntry] /\ UNCHANGED run
    BY <1>c, <1>10 DEF Rollback
  <2>2. vms[client[c].id].state # "Running"
    BY <2>1 DEF OwnInv, RollbackOwn
  <2> QED BY <1>g, <2>1, <2>2
<1> QED BY <1>1, <1>2, <1>3, <1>4, <1>6, <1>7, <1>8, <1>9, <1>10
        DEF ClientRequest, ClientStep

LEMMA OwnTask ==
  ASSUME TypeInv, OwnInv, NEW r \in Runs, Returns(r) \/ TaskStep(r)
  PROVE  RunOwns' /\ SerialTracksRun'
<1>1. CASE RecordExit(r)
  BY <1>1, RecordExitOwns
<1>2. CASE Returns(r) \/ SaveExit(r) \/ SendCompletion(r)
  <2>1. UNCHANGED vms
    BY <1>2 DEF Returns, BootAndRunReturns, SaveExit, SendCompletion
  <2>2. \A s \in Runs : RunKept(s)
    <3>1. CASE Returns(r)
      BY <3>1, ReturnEffect
         DEF Returns, BootAndRunReturns, TypeInv, RunOK, RunKept, Owning, Ended
    <3>2. CASE SaveExit(r) \/ SendCompletion(r)
      BY <3>2, RunPcEffect
         DEF SaveExit, SendCompletion, TypeInv, RunOK, RunPcs, RunKept, Owning, Ended
    <3> QED BY <1>2, <3>1, <3>2
  <2> QED BY <2>1, <2>2, EntriesUnchanged, OwnKept
<1> QED BY <1>1, <1>2 DEF TaskStep

LEMMA OwnStep ==
  ASSUME TypeInv, StartsOK, OwnInv, [Next]_vars
  PROVE  RunOwns' /\ SerialTracksRun'
<1>1. CASE \E c \in Clients : ClientRequest(c) \/ ClientStep(c)
  BY <1>1, OwnClient
<1>2. CASE \E r \in Runs : Returns(r) \/ TaskStep(r)
  BY <1>2, OwnTask
<1>3. CASE StopAll \/ StopAllAndWait \/ WaitReceive \/ WaitTimeout
  <2>1. /\ UNCHANGED vms
        /\ UNCHANGED run \/ \E S : SetFlags(S)
    BY <1>3 DEF StopAll, StopAllAndWait, WaitReceive, WaitTimeout
  <2> QED BY <2>1, RunsUnchanged, SetFlagsKept, EntriesUnchanged, OwnKept
<1>4. CASE CrashAndRecover
  <2>1. \A r \in Runs : \/ run'[r] = run[r] /\ run[r].pc = "unused"
                        \/ run'[r].pc = "dead" /\ ~run'[r].closed
    BY <1>4, RecoverEffect DEF TypeInv, DiskOK
  <2> QED BY <2>1 DEF OwnInv, RunOwns, SerialTracksRun, Owning
<1>5. CASE UNCHANGED vars
  BY <1>5 DEF vars, OwnInv, RunOwns, SerialTracksRun
<1> QED BY <1>1, <1>2, <1>3, <1>4, <1>5 DEF Next

LEMMA OwnInit == Init => RunOwns /\ SerialTracksRun
<1> SUFFICES ASSUME Init PROVE RunOwns /\ SerialTracksRun
  OBVIOUS
<1>1. /\ NewRun("unused", None).pc = "unused"
      /\ ~NewRun("unused", None).closed
  BY NewRunFields DEF RunPcs
<1> QED BY <1>1 DEF Init, RunOwns, SerialTracksRun, Owning

---------------------------------------------------------------------------
(* The first way to know of RollbackOwn: the saves of create_vm succeed.   *)

NoRollback == \A c \in Clients : client[c].pc # "Rollback"

LEMMA NoRollbackStep ==
  ASSUME "create" \notin Failing, TypeInv, NoRollback, [Next]_vars
  PROVE  NoRollback'
<1>t. client \in [Clients -> Requests]
  BY DEF TypeInv, ClientOK
<1>1. ASSUME NEW c \in Clients, ClientRequest(c) \/ ClientStep(c)
      PROVE  NoRollback'
  <2>a. {"SaveConfig", "CloneInsert", "Poll", "DeleteDir", "SaveCreated", "Spawn",
         "RestartStart", "SaveRunning"} \subseteq ClientPcs \ {"Rollback"}
    BY DEF ClientPcs
  <2>b. None \in Configs \cup {None} /\ None \in Runs \cup {None}
    OBVIOUS
  <2>d. ASSUME NEW pc \in ClientPcs \ {"Rollback"}, Reply(c) \/ GoTo(c, pc)
        PROVE  NoRollback'
    BY <1>t, <2>d, ReplyEffect, GoToEffect DEF NoRollback
  <2>e. ASSUME NEW pc \in ClientPcs \ {"Rollback"}, NEW id \in Ids,
               NEW k \in Configs \cup {None}, NEW r \in Runs \cup {None}, Begin(c, pc, id, k, r)
        PROVE  NoRollback'
    BY <1>t, <2>e, BeginEffect DEF NoRollback
  <2>c. /\ client[c].pc # "Idle" => client[c].id \in Ids
        /\ client[c].pc = "CloneInsert" => client[c].config \in Configs \cup {None}
        /\ client[c].pc # "Rollback"
        /\ \A id \in Ids : vms[id].config \in Configs \cup {None}
    BY DEF TypeInv, ClientOK, NoRollback, VmsOK, Entries
  <2>1. CASE \/ \E id \in Ids, k \in Configs : CreateVm(c, id, k)
             \/ \E id \in Ids, dest \in Ids : CloneRead(c, id, dest)
             \/ \E id \in Ids : StartVm(c, id) \/ RestartVm(c, id) \/ DeleteVm(c, id)
    <3>1. \E pc \in ClientPcs \ {"Rollback"}, id \in Ids, k \in Configs \cup {None},
             r \in Runs \cup {None} : Begin(c, pc, id, k, r)
      BY <2>1, <2>a, <2>b, <2>c
         DEF CreateVm, InsertEntry, CloneRead, StartVm, MarkRunning, RestartVm, DeleteVm
    <3> QED BY <2>e, <3>1
  <2>2. CASE \E id \in Ids : StopVm(c, id)
    BY <2>2 DEF StopVm, NoRollback
  <2>3. CASE CloneInsert(c) \/ RestartStart(c)
    <3>1. \/ \E pc \in ClientPcs \ {"Rollback"}, id \in Ids, k \in Configs \cup {None},
                r \in Runs \cup {None} : Begin(c, pc, id, k, r)
          \/ Reply(c)
      BY <2>3, <2>a, <2>b, <2>c DEF CloneInsert, RestartStart, InsertEntry, MarkRunning
    <3> QED BY <2>a, <2>d, <2>e, <3>1
  <2>4. CASE SaveConfig(c) \/ SaveCreated(c) \/ SaveRunning(c) \/ DeleteDir(c) \/ Spawn(c)
    <3>1. Reply(c) \/ GoTo(c, "SaveCreated") \/ GoTo(c, "Spawn")
      BY <2>4 DEF SaveConfig, SaveCreated, SaveRunning, DeleteDir, Spawn, ConfigWriteFails,
                  StateWriteFails
    <3> QED BY <2>a, <2>d, <3>1
  <2>5. CASE Poll(c)
    <3>1. CASE Reply(c) \/ GoTo(c, "RestartStart")
      BY <2>a, <2>d, <3>1
    <3>2. CASE client' = [client EXCEPT ![c].polls = client[c].polls + 1]
      BY <1>t, <2>c, <3>2 DEF Requests, NoRollback
    <3> QED BY <2>5, <3>1, <3>2 DEF Poll
  <2> QED BY <1>1, <2>c, <2>1, <2>2, <2>3, <2>4, <2>5 DEF ClientRequest, ClientStep, Rollback
<1>2. ASSUME NEW r \in Runs, Returns(r) \/ TaskStep(r) PROVE NoRollback'
  BY <1>2 DEF Returns, BootAndRunReturns, TaskStep, RecordExit, SaveExit, SendCompletion, NoRollback
<1>3. CASE StopAll \/ StopAllAndWait \/ WaitReceive \/ WaitTimeout
  BY <1>3 DEF StopAll, StopAllAndWait, WaitReceive, WaitTimeout, NoRollback
<1>4. CASE CrashAndRecover
  BY <1>4, RecoverEffect DEF TypeInv, DiskOK, NoRollback
<1>5. CASE UNCHANGED vars
  BY <1>5 DEF vars, NoRollback
<1> QED BY <1>1, <1>2, <1>3, <1>4, <1>5 DEF Next

---------------------------------------------------------------------------
(* The second way: requests come one by one.  Then an entry that a request *)
(* has made or removed is still what it has made of it when the request    *)
(* goes on.                                                                *)

OneByOne == \A c, d \in Clients : c = d

Places ==
  \A c \in Clients :
    /\ client[c].pc \in {"SaveConfig", "SaveCreated", "Rollback"} =>
         vms[client[c].id].state = "Created"
    /\ client[c].pc = "SaveConfig" => vms[client[c].id].config = client[c].config
    /\ client[c].pc = "DeleteDir" => vms[client[c].id].state = "Absent"

\* Steps that keep the request and the entries that do not run.
LEMMA PlacesKept ==
  ASSUME TypeInv, Places, UNCHANGED client,
         \A id \in Ids : vms[id].state # "Running" => vms'[id] = vms[id]
  PROVE  Places'
  BY DEF TypeInv, ClientOK, Places

\* Requests that move to a place of which Places says nothing.
LEMMA PlacesFree ==
  ASSUME OneByOne, NEW c \in Clients,
         client'[c].pc \notin {"SaveConfig", "SaveCreated", "Rollback", "DeleteDir"}
  PROVE  Places'
  BY DEF OneByOne, Places

LEMMA PlacesClient ==
  ASSUME OneByOne, TypeInv, Places, NEW c \in Clients, ClientRequest(c) \/ ClientStep(c)
  PROVE  Places'
<1>t. client \in [Clients -> Requests] /\ vms \in [Ids -> Entries]
  BY DEF TypeInv, ClientOK, VmsOK
<1>a. {"SaveConfig", "CloneInsert", "Poll", "DeleteDir", "SaveCreated", "Spawn", "Rollback",
       "RestartStart", "SaveRunning"} \subseteq ClientPcs
  BY DEF ClientPcs
<1>b. None \in Configs \cup {None} /\ None \in Runs \cup {None}
  OBVIOUS
<1>c. /\ client[c].pc # "Idle" => client[c].id \in Ids
      /\ client[c].pc = "CloneInsert" => client[c].config \in Configs
      /\ \A id \in Ids : vms[id].config \in Configs \cup {None}
  BY DEF TypeInv, ClientOK, VmsOK, Entries
<1>d. ASSUME Reply(c) PROVE Places'
  BY <1>t, <1>d, ReplyEffect, PlacesFree
<1>f. ASSUME NEW id \in Ids, NEW k \in Configs, InsertEntry(c, id, k)
      PROVE  Places'
  <2>1. /\ client'[c].pc = "SaveConfig" /\ client'[c].id = id /\ client'[c].config = k
    BY <1>t, <1>a, <1>b, <1>f, BeginEffect DEF InsertEntry
  <2>2. vms'[id].state = "Created" /\ vms'[id].config = k
    BY <1>t, <1>f, StoredEntryFields DEF InsertEntry, VmStates
  <2> QED BY <2>1, <2>2 DEF OneByOne, Places
<1>g. ASSUME NEW id \in Ids, MarkRunning(c, id) PROVE Places'
  <2>1. client'[c].pc = "SaveRunning"
    BY <1>t, <1>g, MarkRunningEffect DEF TypeInv, RunOK
  <2> QED BY <2>1, PlacesFree
<1>1. CASE \E id \in Ids, k \in Configs : CreateVm(c, id, k)
  BY <1>1, <1>f DEF CreateVm
<1>2. CASE \E id \in Ids, dest \in Ids : CloneRead(c, id, dest)
  <2>1. PICK id \in Ids, dest \in Ids : Begin(c, "CloneInsert", dest, vms[id].config, None)
    BY <1>2 DEF CloneRead
  <2>2. client'[c].pc = "CloneInsert"
    BY <1>t, <1>a, <1>b, <1>c, <2>1, BeginEffect
  <2> QED BY <2>2, PlacesFree
<1>3. CASE \E id \in Ids : StartVm(c, id)
  BY <1>3, <1>g DEF StartVm
<1>4. CASE \E id \in Ids : StopVm(c, id)
  BY <1>4, PlacesKept DEF StopVm
<1>5. CASE \E id \in Ids : RestartVm(c, id)
  <2>1. PICK id \in Ids : Begin(c, "Poll", id, None, None)
    BY <1>5 DEF RestartVm
  <2>2. client'[c].pc = "Poll"
    BY <1>t, <1>a, <1>b, <2>1, BeginEffect
  <2> QED BY <2>2, PlacesFree
<1>6. CASE \E id \in Ids : DeleteVm(c, id)
  <2>1. PICK id \in Ids : /\ vms' = [vms EXCEPT ![id] = NoEntry]
                          /\ Begin(c, "DeleteDir", id, None, None)
    BY <1>6 DEF DeleteVm
  <2>2. client'[c].pc = "DeleteDir" /\ client'[c].id = id
    BY <1>t, <1>a, <1>b, <2>1, BeginEffect
  <2>3. vms'[id].state = "Absent"
    BY <1>t, <2>1, NoEntryFields
  <2> QED BY <2>2, <2>3 DEF OneByOne, Places
<1>7. CASE CloneInsert(c) \/ RestartStart(c)
  <2>1. CASE InsertEntry(c, client[c].id, client[c].config) /\ client[c].pc = "CloneInsert"
    BY <1>c, <1>f, <2>1
  <2>2. CASE MarkRunning(c, client[c].id) /\ client[c].pc = "RestartStart"
    BY <1>c, <1>g, <2>2
  <2> QED BY <1>7, <1>d, <2>1, <2>2 DEF CloneInsert, RestartStart
<1>8. CASE SaveConfig(c) \/ SaveCreated(c)
  <2>1. /\ client[c].pc \in {"SaveConfig", "SaveCreated"} /\ UNCHANGED vms
        /\ Reply(c) \/ GoTo(c, "SaveCreated") \/ GoTo(c, "Rollback")
    BY <1>8 DEF SaveConfig, SaveCreated
  <2>2. ASSUME NEW pc \in {"SaveCreated", "Rollback"}, GoTo(c, pc) PROVE Places'
    <3>1. client'[c].pc = pc /\ client'[c].id = client[c].id
      BY <1>t, <1>a, <2>2, GoToEffect
    <3>2. vms[client[c].id].state = "Created"
      BY <2>1 DEF Places
    <3> QED BY <2>1, <3>1, <3>2 DEF OneByOne, Places
  <2> QED BY <1>d, <2>1, <2>2
<1>9. CASE SaveRunning(c) \/ DeleteDir(c) \/ Spawn(c) \/ Rollback(c)
  <2>1. Reply(c) \/ GoTo(c, "Spawn")
    BY <1>9 DEF SaveRunning, DeleteDir, Spawn, Rollback
  <2>2. CASE GoTo(c, "Spawn")
    <3>1. client'[c].pc = "Spawn"
      BY <1>t, <1>a, <2>2, GoToEffect
    <3> QED BY <3>1, PlacesFree
  <2> QED BY <1>d, <2>1, <2>2
<1>10. CASE Poll(c)
  <2>1. CASE GoTo(c, "RestartStart")
    <3>1. client'[c].pc = "RestartStart"
      BY <1>t, <1>a, <2>1, GoToEffect
    <3> QED BY <3>1, PlacesFree
  <2>2. CASE client' = [client EXCEPT ![c].polls = client[c].polls + 1] /\ client[c].pc = "Poll"
    <3>1. client'[c].pc = "Poll"
      BY <1>t, <2>2 DEF Requests
    <3> QED BY <3>1, PlacesFree
  <2> QED BY <1>d, <1>10, <2>1, <2>2 DEF Poll
<1> QED BY <1>1, <1>2, <1>3, <1>4, <1>5, <1>6, <1>7, <1>8, <1>9, <1>10
        DEF ClientRequest, ClientStep

LEMMA PlacesStep ==
  ASSUME OneByOne, TypeInv, RunOwns, Places, [Next]_vars
  PROVE  Places'
<1>1. CASE \E c \in Clients : ClientRequest(c) \/ ClientStep(c)
  BY <1>1, PlacesClient
<1>2. ASSUME NEW r \in Runs, RecordExit(r) PROVE Places'
  <2>1. run[r].pc = "exited" /\ run[r].id \in Ids /\ run[r].result \in {"Stopped", "Failed"}
    BY <1>2 DEF RecordExit, TypeInv, RunOK
  <2>2. vms[run[r].id].state = "Running"
    BY <2>1 DEF RunOwns, Owning
  <2>3. UNCHANGED client /\ \A j \in Ids : j # run[r].id => vms'[j] = vms[j]
    BY <1>2, <2>1, <2>2, RecordExitEffect DEF TypeInv, VmsOK, RunOK
  <2> QED BY <2>2, <2>3, PlacesKept
<1>3. ASSUME NEW r \in Runs, Returns(r) \/ SaveExit(r) \/ SendCompletion(r) PROVE Places'
  BY <1>3, PlacesKept DEF Returns, BootAndRunReturns, SaveExit, SendCompletion
<1>4. CASE StopAll \/ StopAllAndWait \/ WaitReceive \/ WaitTimeout
  BY <1>4, PlacesKept DEF StopAll, StopAllAndWait, WaitReceive, WaitTimeout
<1>5. CASE CrashAndRecover
  BY <1>5, RecoverEffect DEF TypeInv, DiskOK, Places
<1>6. CASE UNCHANGED vars
  BY <1>6, PlacesKept DEF vars
<1> QED BY <1>1, <1>2, <1>3, <1>4, <1>5, <1>6 DEF Next, TaskStep

LEMMA RollbackInit == Init => NoRollback /\ Places
<1>1. Idle.pc = "Idle"
  BY DEF Idle
<1> QED BY <1>1 DEF Init, NoRollback, Places

\* When create_vm's saves do not fail, every run owns its entry, through any
\* interleaving of requests, tasks, failing starts, exits and deletes, and
\* daemon restarts.
THEOREM OwnershipSaved ==
  ASSUME "create" \notin Failing
  PROVE  Spec => [](NoRollback /\ OwnInv)
<1>1. Init => NoRollback /\ RunOwns /\ SerialTracksRun
  BY OwnInit, RollbackInit
<1>2. NoRollback => RollbackOwn
  BY DEF NoRollback, RollbackOwn
<1>3. TypeInv /\ StartsOK /\ NoRollback /\ OwnInv /\ [Next]_vars
        => NoRollback' /\ RunOwns' /\ SerialTracksRun'
  BY OwnStep, NoRollbackStep
<1>4. NoRollback /\ RunOwns /\ SerialTracksRun => OwnInv
  BY <1>2 DEF OwnInv
<1> QED BY <1>1, <1>3, <1>4, Typing, PTL DEF Spec

\* So it does when requests come one by one, whatever fails.
THEOREM OwnershipInTurn ==
  ASSUME OneByOne
  PROVE  Spec => [](Places /\ OwnInv)
<1>1. Init => Places /\ RunOwns /\ SerialTracksRun
  BY OwnInit, RollbackInit
<1>2. Places => RollbackOwn
  BY DEF Places, RollbackOwn
<1>3. TypeInv /\ StartsOK /\ Places /\ OwnInv /\ [Next]_vars
        => Places' /\ RunOwns' /\ SerialTracksRun'
  BY OwnStep, PlacesStep DEF OwnInv
<1>4. Places /\ RunOwns /\ SerialTracksRun => OwnInv
  BY <1>2 DEF OwnInv
<1> QED BY <1>1, <1>3, <1>4, Typing, PTL DEF Spec

\* Every run owns its entry, from start_vm's locked section until the task
\* records the exit, in either case (vm_manager.rs, create_vm's error path is
\* the one place that removes an entry without looking at it).
THEOREM Ownership ==
  ASSUME "create" \notin Failing \/ OneByOne
  PROVE  Spec => []OwnInv
<1>1. CASE "create" \notin Failing
  BY <1>1, OwnershipSaved, PTL
<1>2. CASE OneByOne
  BY <1>2, OwnershipInTurn, PTL
<1> QED BY <1>1, <1>2

\* No VM executes without its Running entry: stop_vm can reach every guest
\* and delete_vm refuses to orphan one.
THEOREM NeverOrphaned ==
  ASSUME "create" \notin Failing \/ OneByOne
  PROVE  Spec => []NoOrphan
<1>1. OwnInv => NoOrphan
  BY DEF OwnInv, RunOwns, NoOrphan, Live, Owning
<1> QED BY <1>1, Ownership, PTL

\* A serial stream is closed when, and only when, the exit of its own run is
\* recorded.
THEOREM SerialClosedOnce ==
  ASSUME "create" \notin Failing \/ OneByOne
  PROVE  Spec => []SerialTracksRun
<1>1. OwnInv => SerialTracksRun
  BY DEF OwnInv
<1> QED BY <1>1, Ownership, PTL

---------------------------------------------------------------------------
(* RunningHasTask, when the save of start_vm succeeds.  It is inductive    *)
(* relative to StartsOK, which keeps one start from taking another's run.  *)

\* The run that keeps entry id from being Running for ever.
Drives(r, id) ==
  /\ vms[id].stop_flag = r
  /\ run[r].id = id
  /\ \/ Live(r)
     \/ \E c \in Clients : client[c].pc \in {"SaveRunning", "Spawn"} /\ client[c].run = r

\* A driving run keeps driving if the step changes neither its entry's flag
\* nor, except from a start to its spawned task, its own progress.
LEMMA DriveKept ==
  ASSUME TypeInv, StartsOK, RunningHasTask,
         \A id \in Ids : vms'[id].state = "Running" =>
            vms[id].state = "Running" /\ vms'[id].stop_flag = vms[id].stop_flag,
         \A r \in Runs : run[r].pc \in Owning =>
            /\ run'[r].id = run[r].id
            /\ \/ run'[r].pc \in {"running", "exited"}
               \/ run'[r].pc = run[r].pc
               \/ \A id \in Ids : run[r].id = id => vms'[id].state # "Running",
         \A d \in Clients : client[d].pc \in {"SaveRunning", "Spawn"} =>
            \/ client'[d].pc \in {"SaveRunning", "Spawn"} /\ client'[d].run = client[d].run
            \/ run'[client[d].run].pc \in {"running", "exited"}
  PROVE  RunningHasTask'
<1> SUFFICES ASSUME NEW id \in Ids, vms'[id].state = "Running"
             PROVE  \E r \in Runs : Drives(r, id)'
  BY DEF RunningHasTask, Drives, Live
<1>1. PICK r \in Runs : Drives(r, id)
  BY DEF RunningHasTask, Drives, Live
<1>2. run[r].pc \in Owning
  BY <1>1 DEF Drives, Live, StartsOK, Owning
<1>3. vms'[id].stop_flag = r /\ run'[r].id = id
  BY <1>1, <1>2 DEF Drives
<1>4. run'[r].pc \in {"running", "exited"} \/ run'[r].pc = run[r].pc
  BY <1>1, <1>2 DEF Drives
<1>5. CASE run[r].pc \in {"running", "exited"}
  BY <1>3, <1>4, <1>5 DEF Drives, Live
<1>6. CASE \E c \in Clients : client[c].pc \in {"SaveRunning", "Spawn"} /\ client[c].run = r
  BY <1>3, <1>6 DEF Drives, Live
<1> QED BY <1>1, <1>5, <1>6 DEF Drives, Live

\* What a request that neither starts nor spawns contributes to DriveKept.
StartHeld(d) ==
  client[d].pc \in {"SaveRunning", "Spawn"} =>
    client'[d].pc \in {"SaveRunning", "Spawn"} /\ client'[d].run = client[d].run

LEMMA DriveUndisturbed ==
  ASSUME TypeInv, StartsOK, RunningHasTask, \A d \in Clients : StartHeld(d),
         UNCHANGED run \/ (\E S : SetFlags(S)),
         \A id \in Ids : vms'[id] = vms[id] \/ vms'[id].state # "Running"
  PROVE  RunningHasTask'
<1>1. \A r \in Runs : run'[r].pc = run[r].pc /\ run'[r].id = run[r].id
  BY SetFlagsEffect DEF TypeInv, RunOK
<1>2. \A id \in Ids : vms'[id].state = "Running" =>
            vms[id].state = "Running" /\ vms'[id].stop_flag = vms[id].stop_flag
  OBVIOUS
<1>3. \A d \in Clients : client[d].pc \in {"SaveRunning", "Spawn"} =>
            client'[d].pc \in {"SaveRunning", "Spawn"} /\ client'[d].run = client[d].run
  BY DEF StartHeld
<1> QED BY <1>1, <1>2, <1>3, DriveKept

LEMMA MarkRunningDrives ==
  ASSUME TypeInv, StartsOK, RunningHasTask, NEW c \in Clients,
         client[c].pc \notin {"SaveRunning", "Spawn"}, NEW id \in Ids, MarkRunning(c, id)
  PROVE  RunningHasTask'
<1>1. PICK r \in Runs :
         /\ run[r].pc = "unused"
         /\ vms'[id].stop_flag = r
         /\ \A j \in Ids : j # id => vms'[j] = vms[j]
         /\ run'[r].id = id
         /\ \A s \in Runs : s # r => run'[s] = run[s]
         /\ client'[c].pc = "SaveRunning" /\ client'[c].run = r
         /\ \A d \in Clients : d # c => client'[d] = client[d]
  BY MarkRunningEffect DEF TypeInv, VmsOK, ClientOK, RunOK
<1> SUFFICES ASSUME NEW j \in Ids, vms'[j].state = "Running"
             PROVE  \E s \in Runs : Drives(s, j)'
  BY DEF RunningHasTask, Drives, Live
<1>2. CASE j = id
  BY <1>1, <1>2 DEF Drives
<1>3. CASE j # id
  <2>1. PICK s \in Runs : Drives(s, j)
    BY <1>1, <1>3 DEF RunningHasTask, Drives, Live
  <2>2. run[s].pc \in Owning
    BY <2>1 DEF Drives, Live, StartsOK, Owning
  <2>3. s # r /\ run'[s] = run[s]
    BY <1>1, <2>2 DEF Owning
  <2> QED BY <1>1, <1>3, <2>1, <2>3 DEF Drives, Live
<1> QED BY <1>2, <1>3

LEMMA TaskClient ==
  ASSUME "start" \notin Failing, TypeInv, StartsOK, RunningHasTask, NEW c \in Clients,
         ClientRequest(c) \/ ClientStep(c)
  PROVE  RunningHasTask'
<1>a. {"SaveConfig", "CloneInsert", "Poll", "DeleteDir", "SaveCreated", "Rollback", "Spawn",
       "RestartStart"} \subseteq ClientPcs
  BY DEF ClientPcs
<1>b. None \in Configs \cup {None} /\ None \in Runs \cup {None}
  OBVIOUS
<1>c. /\ client[c].pc # "Idle" => client[c].id \in Ids
      /\ client[c].pc = "CloneInsert" => client[c].config \in Configs
      /\ client[c].pc = "Spawn" => client[c].run \in Runs
      /\ client \in [Clients -> Requests]
  BY DEF TypeInv, ClientOK
<1>d. ASSUME client[c].pc \notin {"SaveRunning", "Spawn"},
             NEW pc \in ClientPcs, Reply(c) \/ GoTo(c, pc)
      PROVE  \A d \in Clients : StartHeld(d)
  BY <1>c, <1>d, ReplyEffect, GoToEffect DEF StartHeld
<1>e. ASSUME client[c].pc \notin {"SaveRunning", "Spawn"},
             NEW pc \in ClientPcs, NEW id \in Ids, NEW k \in Configs \cup {None},
             Begin(c, pc, id, k, None)
      PROVE  \A d \in Clients : StartHeld(d)
  BY <1>b, <1>c, <1>e, BeginEffect DEF StartHeld
<1>f. ASSUME client[c].pc \notin {"SaveRunning", "Spawn"}, NEW id \in Ids, NEW k \in Configs,
             InsertEntry(c, id, k)
      PROVE  RunningHasTask'
  <2>1. \A d \in Clients : StartHeld(d)
    BY <1>a, <1>e, <1>f DEF InsertEntry
  <2>2. StoredEntry("Created", k).state # "Running"
    BY StoredEntryFields DEF VmStates
  <2>3. \A j \in Ids : vms'[j] = vms[j] \/ vms'[j].state # "Running"
    BY <1>f, <2>2 DEF InsertEntry, TypeInv, VmsOK
  <2> QED BY <1>f, <2>1, <2>3, DriveUndisturbed DEF InsertEntry
<1>g. ASSUME NEW id \in Ids, vms' = [vms EXCEPT ![id] = NoEntry]
      PROVE  \A j \in Ids : vms'[j] = vms[j] \/ vms'[j].state # "Running"
  BY <1>g, NoEntryFields DEF TypeInv, VmsOK
<1>1. CASE \E id \in Ids, k \in Configs : CreateVm(c, id, k)
  BY <1>1, <1>f DEF CreateVm
<1>2. CASE \E id \in Ids, dest \in Ids : CloneRead(c, id, dest)
  <2>1. PICK id \in Ids, dest \in Ids : CloneRead(c, id, dest)
    BY <1>2
  <2>2. vms[id].config \in Configs \cup {None}
    BY DEF TypeInv, VmsOK, Entries
  <2>3. \A d \in Clients : StartHeld(d)
    BY <1>a, <1>e, <2>1, <2>2 DEF CloneRead
  <2> QED BY <2>1, <2>3, DriveUndisturbed DEF CloneRead
<1>3. CASE \E id \in Ids : StartVm(c, id)
  BY <1>3, MarkRunningDrives DEF StartVm
<1>4. CASE \E id \in Ids : StopVm(c, id)
  <2>1. UNCHANGED client /\ UNCHANGED vms /\ \E S : SetFlags(S)
    BY <1>4 DEF StopVm
  <2> QED BY <2>1, DriveUndisturbed DEF StartHeld
<1>5. CASE \E id \in Ids : RestartVm(c, id)
  <2>1. PICK id \in Ids : /\ SetFlags({id}) /\ Begin(c, "Poll", id, None, None)
                          /\ UNCHANGED vms /\ client[c].pc = "Idle"
    BY <1>5 DEF RestartVm
  <2>2. \A d \in Clients : StartHeld(d)
    BY <1>a, <1>b, <1>e, <2>1
  <2> QED BY <2>1, <2>2, DriveUndisturbed
<1>6. CASE \E id \in Ids : DeleteVm(c, id)
  <2>1. PICK id \in Ids : /\ vms' = [vms EXCEPT ![id] = NoEntry] /\ client[c].pc = "Idle"
                          /\ Begin(c, "DeleteDir", id, None, None) /\ UNCHANGED run
    BY <1>6 DEF DeleteVm
  <2>2. \A d \in Clients : StartHeld(d)
    BY <1>a, <1>b, <1>e, <2>1
  <2> QED BY <1>g, <2>1, <2>2, DriveUndisturbed
<1>7. CASE CloneInsert(c) \/ RestartStart(c)
  <2>0. client[c].pc \in {"CloneInsert", "RestartStart"}
    BY <1>7 DEF CloneInsert, RestartStart
  <2>1. CASE InsertEntry(c, client[c].id, client[c].config) /\ client[c].pc = "CloneInsert"
    BY <1>c, <1>f, <2>1
  <2>2. CASE MarkRunning(c, client[c].id)
    BY <1>c, <2>0, <2>2, MarkRunningDrives
  <2>3. CASE Reply(c) /\ UNCHANGED run /\ UNCHANGED vms
    BY <1>a, <1>d, <2>0, <2>3, DriveUndisturbed
  <2> QED BY <1>7, <2>1, <2>2, <2>3 DEF CloneInsert, RestartStart
<1>8. CASE SaveConfig(c) \/ SaveCreated(c) \/ DeleteDir(c) \/ Rollback(c)
  <2>1. /\ UNCHANGED run
        /\ client[c].pc \in {"SaveConfig", "SaveCreated", "DeleteDir", "Rollback"}
        /\ Reply(c) \/ GoTo(c, "SaveCreated") \/ GoTo(c, "Rollback")
        /\ UNCHANGED vms \/ vms' = [vms EXCEPT ![client[c].id] = NoEntry]
    BY <1>8 DEF SaveConfig, SaveCreated, DeleteDir, Rollback
  <2>2. \A d \in Clients : StartHeld(d)
    BY <1>a, <1>d, <2>1
  <2> QED BY <1>c, <1>g, <2>1, <2>2, DriveUndisturbed
<1>9. CASE SaveRunning(c)
  <2>1. UNCHANGED run /\ UNCHANGED vms /\ GoTo(c, "Spawn")
    BY <1>9 DEF SaveRunning, StateWriteFails
  <2>2. \A d \in Clients : StartHeld(d)
    BY <1>a, <1>c, <2>1, GoToEffect DEF StartHeld
  <2> QED BY <2>1, <2>2, DriveUndisturbed
<1>10. CASE Spawn(c)
  <2> DEFINE r == client[c].run
  <2>1. /\ client[c].pc = "Spawn" /\ Reply(c) /\ run' = [run EXCEPT ![r].pc = "running"]
        /\ UNCHANGED vms
    BY <1>10 DEF Spawn
  <2>2. r \in Runs
    BY <1>c, <2>1
  <2>3. /\ run'[r].pc = "running"
        /\ \A s \in Runs : run'[s].id = run[s].id /\ (s # r => run'[s] = run[s])
    BY <2>1, <2>2, RunPcEffect DEF TypeInv, RunOK, RunPcs
  <2>4. \A d \in Clients : d # c => client'[d] = client[d]
    BY <1>c, <2>1, ReplyEffect
  <2>5. \A d \in Clients : client[d].pc \in {"SaveRunning", "Spawn"} =>
            \/ client'[d].pc \in {"SaveRunning", "Spawn"} /\ client'[d].run = client[d].run
            \/ run'[client[d].run].pc \in {"running", "exited"}
    BY <2>3, <2>4
  <2>6. \A s \in Runs : run'[s].pc \in {"running", "exited"} \/ run'[s].pc = run[s].pc
    BY <2>3
  <2> HIDE DEF r
  <2> QED BY <2>1, <2>3, <2>5, <2>6, DriveKept
<1>11. CASE Poll(c)
  <2>0. UNCHANGED run /\ UNCHANGED vms /\ client[c].pc = "Poll"
    BY <1>11 DEF Poll
  <2>1. \A d \in Clients : StartHeld(d)
    <3>1. CASE Reply(c) \/ GoTo(c, "RestartStart")
      BY <1>a, <1>d, <2>0, <3>1
    <3>2. CASE client' = [client EXCEPT ![c].polls = client[c].polls + 1]
      BY <1>c, <2>0, <3>2 DEF Requests, StartHeld
    <3> QED BY <1>11, <3>1, <3>2 DEF Poll
  <2> QED BY <2>0, <2>1, DriveUndisturbed
<1> QED BY <1>1, <1>2, <1>3, <1>4, <1>5, <1>6, <1>7, <1>8, <1>9, <1>10, <1>11
        DEF ClientRequest, ClientStep

LEMMA TaskTask ==
  ASSUME TypeInv, StartsOK, RunningHasTask, NEW r \in Runs, Returns(r) \/ TaskStep(r)
  PROVE  RunningHasTask'
<1>0. UNCHANGED client
  BY DEF Returns, BootAndRunReturns, TaskStep, RecordExit, SaveExit, SendCompletion
<1>1. CASE Returns(r)
  <2>1. /\ UNCHANGED vms
        /\ \A s \in Runs : /\ run'[s].id = run[s].id
                           /\ run'[s].pc = "exited" \/ run'[s].pc = run[s].pc
    BY <1>1, ReturnEffect DEF Returns, BootAndRunReturns, TypeInv, RunOK
  <2> QED BY <1>0, <2>1, DriveKept
<1>2. CASE RecordExit(r)
  <2>0. run[r].id \in Ids /\ run[r].result \in {"Stopped", "Failed"}
    BY <1>2 DEF RecordExit, TypeInv, RunOK
  <2>1. /\ \A s \in Runs : /\ run'[s].id = run[s].id
                           /\ s # r => run'[s].pc = run[s].pc
        /\ vms'[run[r].id].state # "Running"
        /\ \A j \in Ids : j # run[r].id => vms'[j] = vms[j]
    BY <1>2, <2>0, RecordExitEffect DEF TypeInv, VmsOK, RunOK
  <2>2. \A id \in Ids : vms'[id].state = "Running" =>
            vms[id].state = "Running" /\ vms'[id].stop_flag = vms[id].stop_flag
    BY <2>1
  <2>3. \A s \in Runs : run[s].pc \in Owning =>
            /\ run'[s].id = run[s].id
            /\ \/ run'[s].pc \in {"running", "exited"}
               \/ run'[s].pc = run[s].pc
               \/ \A id \in Ids : run[s].id = id => vms'[id].state # "Running"
    BY <2>1
  <2> QED BY <1>0, <2>2, <2>3, DriveKept
<1>3. CASE SaveExit(r) \/ SendCompletion(r)
  <2>1. /\ UNCHANGED vms /\ run[r].pc \in {"saving", "notify"}
        /\ \A s \in Runs : /\ run'[s].id = run[s].id
                           /\ s # r => run'[s].pc = run[s].pc
    BY <1>3, RunPcEffect DEF SaveExit, SendCompletion, TypeInv, RunOK, RunPcs
  <2>2. \A s \in Runs : run[s].pc \in Owning => run'[s].id = run[s].id /\ run'[s].pc = run[s].pc
    BY <2>1 DEF Owning
  <2> QED BY <1>0, <2>1, <2>2, DriveKept
<1> QED BY <1>1, <1>2, <1>3 DEF TaskStep

\* When start_vm's save does not fail, a Running entry always has a task or a
\* start that is about to spawn it.
THEOREM RunningIsDriven ==
  ASSUME "start" \notin Failing
  PROVE  Spec => []RunningHasTask
<1>1. Init => RunningHasTask
  BY NoEntryFields DEF Init, RunningHasTask
<1>2. TypeInv /\ StartsOK /\ RunningHasTask /\ [Next]_vars => RunningHasTask'
  <2> SUFFICES ASSUME TypeInv, StartsOK, RunningHasTask, [Next]_vars PROVE RunningHasTask'
    OBVIOUS
  <2>1. CASE \E c \in Clients : ClientRequest(c) \/ ClientStep(c)
    BY <2>1, TaskClient
  <2>2. CASE \E r \in Runs : Returns(r) \/ TaskStep(r)
    BY <2>2, TaskTask
  <2>3. CASE StopAll \/ StopAllAndWait \/ WaitReceive \/ WaitTimeout
    <3>1. /\ UNCHANGED client /\ UNCHANGED vms
          /\ UNCHANGED run \/ \E S : SetFlags(S)
      BY <2>3 DEF StopAll, StopAllAndWait, WaitReceive, WaitTimeout
    <3> QED BY <3>1, DriveUndisturbed DEF StartHeld
  <2>4. CASE CrashAndRecover
    BY <2>4, RecoverEffect DEF TypeInv, DiskOK, RunningHasTask
  <2>5. CASE UNCHANGED vars
    BY <2>5 DEF vars, RunningHasTask, Live
  <2> QED BY <2>1, <2>2, <2>3, <2>4, <2>5 DEF Next
<1> QED BY <1>1, <1>2, Typing, PTL DEF Spec

---------------------------------------------------------------------------
(* Refinement: every step is a step of VmLifecycle or changes nothing that *)
(* it speaks of, when the saves of create_vm succeed or requests come one  *)
(* by one.                                                                 *)

LifeOf == [id \in Ids |-> vms[id].state]

LiveSet == {run[r].id : r \in {s \in Runs : Live(s)}}

LEMMA LifeChange ==
  ASSUME NEW id \in Ids, NEW new, vms'[id].state = new,
         \A j \in Ids : j # id => vms'[j].state = vms[j].state
  PROVE  LifeOf' = [LifeOf EXCEPT ![id] = new]
  BY DEF LifeOf

LEMMA LiveSame ==
  ASSUME \A r \in Runs : Live(r)' <=> Live(r), \A r \in Runs : Live(r) => run'[r].id = run[r].id
  PROVE  LiveSet' = LiveSet
  BY DEF LiveSet

LEMMA LifeStutter ==
  ASSUME LifeOf' = LifeOf, LiveSet' = LiveSet
  PROVE  UNCHANGED Lifecycle!lifeVars
  BY DEF Lifecycle!lifeVars, LifeOf, LiveSet

LEMMA AbstractCreate ==
  ASSUME NEW id \in Ids, vms[id].state = "Absent", LifeOf' = [LifeOf EXCEPT ![id] = "Created"],
         LiveSet' = LiveSet
  PROVE  Lifecycle!Next
<1>1. Lifecycle!Create(id)
  BY DEF Lifecycle!Create, LifeOf, LiveSet
<1> QED BY <1>1 DEF Lifecycle!Next

LEMMA AbstractStart ==
  ASSUME NEW id \in Ids, vms[id].state = "Created", LifeOf' = [LifeOf EXCEPT ![id] = "Running"],
         LiveSet' = LiveSet
  PROVE  Lifecycle!Next
<1>1. Lifecycle!Start(id)
  BY DEF Lifecycle!Start, LifeOf, LiveSet
<1> QED BY <1>1 DEF Lifecycle!Next

LEMMA AbstractBoot ==
  ASSUME NEW id \in Ids, vms[id].state = "Running", id \notin LiveSet, LifeOf' = LifeOf,
         LiveSet' = LiveSet \cup {id}
  PROVE  Lifecycle!Next
<1>1. Lifecycle!Boot(id)
  BY DEF Lifecycle!Boot, LifeOf, LiveSet
<1> QED BY <1>1 DEF Lifecycle!Next

LEMMA AbstractExit ==
  ASSUME NEW id \in Ids, id \in LiveSet, NEW s \in {"Stopped", "Failed"},
         LifeOf' = [LifeOf EXCEPT ![id] = s], LiveSet' = LiveSet \ {id}
  PROVE  Lifecycle!Next
<1>1. Lifecycle!Exit(id)
  BY DEF Lifecycle!Exit, LifeOf, LiveSet
<1> QED BY <1>1 DEF Lifecycle!Next

LEMMA AbstractDelete ==
  ASSUME NEW id \in Ids, vms[id].state \in {"Created", "Stopped", "Failed"},
         LifeOf' = [LifeOf EXCEPT ![id] = "Absent"], LiveSet' = LiveSet
  PROVE  Lifecycle!Next
<1>1. Lifecycle!Delete(id)
  BY DEF Lifecycle!Delete, LifeOf, LiveSet
<1> QED BY <1>1 DEF Lifecycle!Next

LEMMA AbstractRecover ==
  ASSUME LifeOf' \in [Ids -> {"Absent", "Created", "Stopped", "Failed"}], LiveSet' = {}
  PROVE  Lifecycle!Next
<1>1. Lifecycle!Recover
  BY DEF Lifecycle!Recover, LifeOf, LiveSet
<1> QED BY <1>1 DEF Lifecycle!Next

\* The abstract step, or stutter, of each kind of concrete step.
Abstracted == Lifecycle!Next \/ UNCHANGED Lifecycle!lifeVars

LEMMA RefineQuiet ==
  ASSUME TypeInv, UNCHANGED vms, UNCHANGED run \/ (\E S : SetFlags(S))
  PROVE  Abstracted
<1>1. \A r \in Runs : run'[r].pc = run[r].pc /\ run'[r].id = run[r].id
  BY SetFlagsEffect DEF TypeInv, RunOK
<1>2. LiveSet' = LiveSet
  BY <1>1, LiveSame DEF Live
<1> QED BY <1>2, LifeStutter DEF LifeOf, Abstracted

LEMMA RefineInsert ==
  ASSUME TypeInv, NEW c, NEW id \in Ids, NEW k \in Configs, InsertEntry(c, id, k)
  PROVE  Abstracted
<1>1. /\ vms[id].state = "Absent" /\ UNCHANGED run
      /\ vms' = [vms EXCEPT ![id] = StoredEntry("Created", k)]
  BY DEF InsertEntry
<1>2. StoredEntry("Created", k).state = "Created"
  BY StoredEntryFields DEF VmStates
<1>3. vms'[id].state = "Created" /\ \A j \in Ids : j # id => vms'[j].state = vms[j].state
  BY <1>1, <1>2 DEF TypeInv, VmsOK
<1>4. LiveSet' = LiveSet
  BY <1>1 DEF LiveSet, Live
<1>5. LifeOf' = [LifeOf EXCEPT ![id] = "Created"]
  BY <1>3, LifeChange
<1> QED BY <1>1, <1>4, <1>5, AbstractCreate DEF Abstracted

LEMMA RefineMarkRunning ==
  ASSUME TypeInv, NEW c \in Clients, NEW id \in Ids, MarkRunning(c, id)
  PROVE  Abstracted
<1>1. PICK r \in Runs :
         /\ run[r].pc = "unused"
         /\ vms[id].state = "Created"
         /\ vms'[id].state = "Running"
         /\ \A j \in Ids : j # id => vms'[j] = vms[j]
         /\ run'[r].pc = "starting"
         /\ \A s \in Runs : s # r => run'[s] = run[s]
  BY MarkRunningEffect DEF TypeInv, VmsOK, ClientOK, RunOK
<1>2. LiveSet' = LiveSet
  BY <1>1, LiveSame DEF Live
<1>3. LifeOf' = [LifeOf EXCEPT ![id] = "Running"]
  BY <1>1, LifeChange
<1> QED BY <1>1, <1>2, <1>3, AbstractStart DEF Abstracted

LEMMA RefineClient ==
  ASSUME TypeInv, StartsOK, OwnInv, NEW c \in Clients,
         ClientRequest(c) \/ ClientStep(c)
  PROVE  Abstracted
<1>c. /\ client[c].pc # "Idle" => client[c].id \in Ids
      /\ client[c].pc = "CloneInsert" => client[c].config \in Configs
      /\ client[c].pc = "Spawn" => client[c].run \in Runs
  BY DEF TypeInv, ClientOK
<1>1. CASE \E id \in Ids, k \in Configs : CreateVm(c, id, k)
  BY <1>1, RefineInsert DEF CreateVm
<1>2. CASE \E id \in Ids : StartVm(c, id)
  BY <1>2, RefineMarkRunning DEF StartVm
<1>3. CASE \E id \in Ids : \/ \E dest \in Ids : CloneRead(c, id, dest)
                           \/ StopVm(c, id) \/ RestartVm(c, id)
  <2>1. UNCHANGED vms /\ (UNCHANGED run \/ \E S : SetFlags(S))
    BY <1>3 DEF CloneRead, StopVm, RestartVm
  <2> QED BY <2>1, RefineQuiet
<1>4. CASE (\E id \in Ids : DeleteVm(c, id)) \/ Rollback(c)
  <2>1. PICK id \in Ids : /\ Deletable(id) \/ vms[id].state = "Created"
                          /\ vms' = [vms EXCEPT ![id] = NoEntry]
                          /\ UNCHANGED run
    BY <1>c, <1>4 DEF DeleteVm, Rollback, OwnInv, RollbackOwn
  <2>2. vms'[id].state = "Absent" /\ \A j \in Ids : j # id => vms'[j].state = vms[j].state
    BY <2>1, NoEntryFields DEF TypeInv, VmsOK
  <2>3. vms[id].state \in {"Created", "Stopped", "Failed"}
    BY <2>1 DEF Deletable, TypeInv, VmsOK, Entries, VmStates
  <2>4. LiveSet' = LiveSet
    BY <2>1 DEF LiveSet, Live
  <2>5. LifeOf' = [LifeOf EXCEPT ![id] = "Absent"]
    BY <2>2, LifeChange
  <2> QED BY <2>3, <2>4, <2>5, AbstractDelete DEF Abstracted
<1>5. CASE CloneInsert(c) \/ RestartStart(c)
  <2>1. CASE InsertEntry(c, client[c].id, client[c].config) /\ client[c].pc = "CloneInsert"
    BY <1>c, <2>1, RefineInsert
  <2>2. CASE MarkRunning(c, client[c].id) /\ client[c].pc = "RestartStart"
    BY <1>c, <2>2, RefineMarkRunning
  <2>3. CASE UNCHANGED run /\ UNCHANGED vms
    BY <2>3, RefineQuiet
  <2> QED BY <1>5, <2>1, <2>2, <2>3 DEF CloneInsert, RestartStart
<1>6. CASE SaveConfig(c) \/ SaveCreated(c) \/ SaveRunning(c) \/ DeleteDir(c) \/ Poll(c)
  BY <1>6, RefineQuiet DEF SaveConfig, SaveCreated, SaveRunning, DeleteDir, Poll
<1>7. CASE Spawn(c)
  <2> DEFINE r == client[c].run
             id == run[r].id
  <2>1. client[c].pc = "Spawn" /\ run' = [run EXCEPT ![r].pc = "running"] /\ UNCHANGED vms
    BY <1>7 DEF Spawn
  <2>2. r \in Runs /\ run[r].pc = "starting" /\ id \in Ids
    BY <1>c, <2>1 DEF StartsOK, TypeInv, RunOK
  <2>3. /\ run'[r].pc = "running" /\ run'[r].id = id
        /\ \A s \in Runs : s # r => run'[s] = run[s]
    BY <2>1, <2>2, RunPcEffect DEF TypeInv, RunOK, RunPcs
  <2>4. vms[id].state = "Running" /\ vms[id].stop_flag = r
    BY <2>2 DEF OwnInv, RunOwns, Owning
  <2>5. id \notin LiveSet
    <3>1. ASSUME NEW s \in Runs, Live(s), run[s].id = id PROVE FALSE
      BY <2>2, <2>4, <3>1 DEF OwnInv, RunOwns, Owning, Live
    <3> QED BY <3>1 DEF LiveSet
  <2> HIDE DEF r, id
  <2>6. LiveSet' = LiveSet \cup {id}
    <3>1. \A s \in Runs : Live(s)' <=> (Live(s) \/ s = r)
      BY <2>3 DEF Live
    <3>2. \A s \in Runs : Live(s)' => run'[s].id = IF s = r THEN id ELSE run[s].id
      BY <2>3
    <3>3. ~Live(r)
      BY <2>2 DEF Live
    <3> QED BY <2>2, <2>3, <3>1, <3>2, <3>3 DEF LiveSet
  <2>7. LifeOf' = LifeOf
    BY <2>1 DEF LifeOf
  <2> QED BY <2>2, <2>4, <2>5, <2>6, <2>7, AbstractBoot DEF Abstracted
<1> QED BY <1>1, <1>2, <1>3, <1>4, <1>5, <1>6, <1>7 DEF ClientRequest, ClientStep

LEMMA RefineTask ==
  ASSUME TypeInv, OwnInv, NEW r \in Runs, Returns(r) \/ TaskStep(r)
  PROVE  Abstracted
<1>1. CASE RecordExit(r)
  <2> DEFINE id == run[r].id
  <2>1. run[r].pc = "exited" /\ id \in Ids /\ run[r].result \in {"Stopped", "Failed"}
    BY <1>1 DEF RecordExit, TypeInv, RunOK
  <2>2. vms[id].state = "Running" /\ vms[id].stop_flag = r
    BY <2>1 DEF OwnInv, RunOwns, Owning
  <2>3. /\ \A s \in Runs : run'[s].id = run[s].id /\ (s # r => run'[s].pc = run[s].pc)
        /\ run'[r].pc = "saving"
        /\ vms'[id].state = run[r].result
        /\ \A j \in Ids : j # id => vms'[j] = vms[j]
    BY <1>1, <2>1, <2>2, RecordExitEffect DEF TypeInv, VmsOK, RunOK
  <2>4. LifeOf' = [LifeOf EXCEPT ![id] = run[r].result]
    BY <2>1, <2>3, LifeChange
  <2>5. id \in LiveSet
    BY <2>1 DEF LiveSet, Live
  <2>6. \A s \in Runs : Live(s) /\ run[s].id = id => s = r
    BY <2>2 DEF OwnInv, RunOwns, Owning, Live
  <2> HIDE DEF id
  <2>7. LiveSet' = LiveSet \ {id}
    <3>1. \A s \in Runs : Live(s)' <=> (Live(s) /\ s # r)
      BY <2>3 DEF Live
    <3>2. LiveSet' = {run[s].id : s \in {t \in Runs : Live(t) /\ t # r}}
      BY <2>3, <3>1 DEF LiveSet
    <3>3. run[r].id = id
      BY DEF id
    <3> QED BY <2>6, <3>2, <3>3 DEF LiveSet
  <2> QED BY <2>1, <2>4, <2>5, <2>7, AbstractExit DEF Abstracted
<1>2. CASE Returns(r) \/ SaveExit(r) \/ SendCompletion(r)
  <2>1. UNCHANGED vms
    BY <1>2 DEF Returns, BootAndRunReturns, SaveExit, SendCompletion
  <2>2. \A s \in Runs : run'[s].id = run[s].id /\ (Live(s)' <=> Live(s))
    <3>1. CASE Returns(r)
      BY <3>1, ReturnEffect DEF Returns, BootAndRunReturns, TypeInv, RunOK, Live
    <3>2. CASE SaveExit(r) \/ SendCompletion(r)
      BY <3>2, RunPcEffect DEF SaveExit, SendCompletion, TypeInv, RunOK, RunPcs, Live
    <3> QED BY <1>2, <3>1, <3>2
  <2>3. LiveSet' = LiveSet
    BY <2>2, LiveSame
  <2> QED BY <2>1, <2>3, LifeStutter DEF LifeOf, Abstracted
<1> QED BY <1>1, <1>2 DEF TaskStep

LEMMA RefineRecover ==
  ASSUME TypeInv, CrashAndRecover
  PROVE  Abstracted
<1>1. /\ vms' \in [Ids -> Entries]
      /\ \A id \in Ids : vms'[id].state # "Running"
      /\ \A r \in Runs : \/ run'[r] = run[r] /\ run[r].pc = "unused"
                         \/ run'[r].pc = "dead"
  BY RecoverEffect DEF TypeInv, DiskOK
<1>2. \A id \in Ids : vms'[id].state \in {"Absent", "Created", "Stopped", "Failed"}
  BY <1>1 DEF Entries, VmStates
<1>3. LifeOf' \in [Ids -> {"Absent", "Created", "Stopped", "Failed"}]
  BY <1>2 DEF LifeOf
<1>4. LiveSet' = {}
  BY <1>1 DEF LiveSet, Live
<1> QED BY <1>3, <1>4, AbstractRecover DEF Abstracted

\* The manager implements the abstract life cycle whenever create_vm's saves
\* do not fail, and whatever fails when requests come one by one.
THEOREM Refinement ==
  ASSUME "create" \notin Failing \/ OneByOne
  PROVE  Spec => ImplementsLifecycle
<1>1. Init => Lifecycle!Init
  <2> SUFFICES ASSUME Init PROVE Lifecycle!Init
    OBVIOUS
  <2>1. LifeOf = [id \in Ids |-> "Absent"]
    BY NoEntryFields DEF Init, LifeOf
  <2>2. NewRun("unused", None).pc = "unused"
    BY NewRunFields DEF RunPcs
  <2>3. LiveSet = {}
    BY <2>2 DEF Init, LiveSet, Live
  <2> QED BY <2>1, <2>3 DEF Lifecycle!Init, LifeOf, LiveSet
<1>2. TypeInv /\ StartsOK /\ OwnInv /\ [Next]_vars => [Lifecycle!Next]_(Lifecycle!lifeVars)
  <2> SUFFICES ASSUME TypeInv, StartsOK, OwnInv, [Next]_vars PROVE Abstracted
    BY DEF Abstracted
  <2>1. CASE \E c \in Clients : ClientRequest(c) \/ ClientStep(c)
    BY <2>1, RefineClient
  <2>2. CASE \E r \in Runs : Returns(r) \/ TaskStep(r)
    BY <2>2, RefineTask
  <2>3. CASE StopAll \/ StopAllAndWait \/ WaitReceive \/ WaitTimeout
    <3>1. UNCHANGED vms /\ (UNCHANGED run \/ \E S : SetFlags(S))
      BY <2>3 DEF StopAll, StopAllAndWait, WaitReceive, WaitTimeout
    <3> QED BY <3>1, RefineQuiet
  <2>4. CASE CrashAndRecover
    BY <2>4, RefineRecover
  <2>5. CASE UNCHANGED vars
    BY <2>5, RefineQuiet DEF vars
  <2> QED BY <2>1, <2>2, <2>3, <2>4, <2>5 DEF Next
<1> QED BY <1>1, <1>2, Typing, Ownership, PTL DEF Spec, ImplementsLifecycle, Lifecycle!Spec

---------------------------------------------------------------------------
(* The files, when requests come one by one.  ConfigDurable speaks of a    *)
(* manager without requests; while there is one, the directory it is       *)
(* about to write or to remove is the only one that may disagree with the  *)
(* map.                                                                    *)

At(id, pcs) == \E c \in Clients : client[c].id = id /\ client[c].pc \in pcs

Agrees(id) ==
  IF vms[id].state = "Absent" THEN disk[id].config \notin Configs
                              ELSE disk[id].config = vms[id].config

Durable == \A id \in Ids : At(id, {"SaveConfig", "DeleteDir"}) \/ Agrees(id)

\* A directory whose config is the same, and an entry that has the same config.
SameName(id) ==
  /\ disk'[id].config = disk[id].config
  /\ vms'[id].config = vms[id].config
  /\ vms'[id].state = "Absent" <=> vms[id].state = "Absent"

LEMMA AgreesNow ==
  ASSUME NEW CONSTANT id,
         IF vms'[id].state = "Absent" THEN disk'[id].config \notin Configs
                                      ELSE disk'[id].config = vms'[id].config
  PROVE  Agrees(id)'
  BY DEF Agrees

LEMMA AgreesKept == ASSUME NEW CONSTANT id, Agrees(id), SameName(id) PROVE Agrees(id)'
  BY DEF Agrees, SameName

\* What the writes of state.json leave alone.
LEMMA StateWritten ==
  ASSUME DiskOK, NEW id \in Ids, NEW s, WriteState(id, s)
  PROVE  /\ \A j \in Ids : disk'[j].config = disk[j].config
         /\ disk'[id].state = s
         /\ \A j \in Ids : j # id => disk'[j] = disk[j]
<1>1. disk' = [disk EXCEPT ![id] = [disk[id] EXCEPT !.state = s]]
  BY DEF WriteState
<1>2. disk[id] \in Dirs /\ DOMAIN disk = Ids
  BY DEF DiskOK
<1>3. [disk[id] EXCEPT !.state = s].config = disk[id].config /\ [disk[id] EXCEPT !.state = s].state = s
  BY <1>2 DEF Dirs
<1> QED BY <1>1, <1>2, <1>3

LEMMA ConfigWritten ==
  ASSUME DiskOK, NEW id \in Ids, NEW k, WriteConfig(id, k)
  PROVE  /\ disk'[id].config = k
         /\ disk'[id].state = disk[id].state
         /\ \A j \in Ids : j # id => disk'[j] = disk[j]
<1>1. disk' = [disk EXCEPT ![id] = [disk[id] EXCEPT !.config = k]]
  BY DEF WriteConfig
<1>2. disk[id] \in Dirs /\ DOMAIN disk = Ids
  BY DEF DiskOK
<1>3. [disk[id] EXCEPT !.config = k].config = k /\ [disk[id] EXCEPT !.config = k].state = disk[id].state
  BY <1>2 DEF Dirs
<1> QED BY <1>1, <1>2, <1>3

\* A restart loads what the files say.
LEMMA RecoverAgrees ==
  ASSUME DiskOK, CrashAndRecover, NEW CONSTANT id \in Ids
  PROVE  /\ Agrees(id)'
         /\ disk'[id].config \in Configs => vms'[id].state = LoadState(disk'[id].state)
         /\ disk'[id].config \notin Configs => vms'[id].state = "Absent"
         /\ ~TornIo => disk'[id] = disk[id]
<1>1. PICK W \in SUBSET PendingWrites, D \in SUBSET PendingRemovals :
             /\ W \cup D # {} => TornIo
             /\ disk' = Torn(W, D) /\ vms' = LoadAll(Torn(W, D))
  BY DEF CrashAndRecover
<1>2. disk' \in [Ids -> Dirs]
  BY RecoverEffect DEF DiskOK
<1>3. vms'[id] = IF disk'[id].config \in {None, "corrupt"} THEN NoEntry
                   ELSE StoredEntry(LoadState(disk'[id].state), disk'[id].config)
  BY <1>1 DEF LoadAll
<1>4. LoadState(disk'[id].state) \in VmStates /\ disk'[id].config \in Configs \cup {None, "corrupt"}
  BY <1>2 DEF LoadState, VmStates, Dirs
<1>5. None \notin Configs /\ "corrupt" \notin Configs
  BY ManagerAssumptions
<1>6. ASSUME ~TornIo PROVE disk'[id] = disk[id]
  <2>1. W = {} /\ D = {}
    BY <1>1, <1>6
  <2>2. disk'[id] = [config |-> disk[id].config, state |-> disk[id].state]
    BY <1>1, <2>1 DEF Torn, TornFile
  <2>3. disk[id] \in Dirs
    BY DEF DiskOK
  <2> QED BY <2>2, <2>3 DEF Dirs
<1>7. CASE disk'[id].config \in Configs
  <2>1. vms'[id] = StoredEntry(LoadState(disk'[id].state), disk'[id].config)
    BY <1>3, <1>5, <1>7
  <2>2. /\ vms'[id].state = LoadState(disk'[id].state) /\ vms'[id].config = disk'[id].config
        /\ vms'[id].state # "Absent"
    BY <1>4, <1>7, <2>1, StoredEntryFields DEF VmStates
  <2>3. Agrees(id)'
    BY <2>2, AgreesNow
  <2> QED BY <1>6, <1>7, <2>2, <2>3
<1>8. CASE disk'[id].config \notin Configs
  <2>1. vms'[id].state = "Absent"
    BY <1>3, <1>4, <1>8, NoEntryFields
  <2>2. Agrees(id)'
    BY <1>8, <2>1, AgreesNow
  <2> QED BY <1>6, <1>8, <2>1, <2>2
<1> QED BY <1>7, <1>8

\* Steps of the others keep every name as it is.
LEMMA TaskNames ==
  ASSUME TypeInv, RunOwns, NEW r \in Runs, Returns(r) \/ TaskStep(r)
  PROVE  UNCHANGED client /\ \A id \in Ids : SameName(id)
<1>1. CASE RecordExit(r)
  <2>1. run[r].pc = "exited" /\ run[r].id \in Ids /\ run[r].result \in {"Stopped", "Failed"}
    BY <1>1 DEF RecordExit, TypeInv, RunOK
  <2>2. vms[run[r].id].state = "Running"
    BY <2>1 DEF RunOwns, Owning
  <2>3. /\ UNCHANGED client /\ UNCHANGED disk
        /\ vms'[run[r].id].state = run[r].result
        /\ vms'[run[r].id].config = vms[run[r].id].config
        /\ \A j \in Ids : j # run[r].id => vms'[j] = vms[j]
    BY <1>1, <2>1, <2>2, RecordExitEffect DEF TypeInv, VmsOK, RunOK
  <2> QED BY <2>1, <2>2, <2>3 DEF SameName
<1>2. CASE SaveExit(r)
  <2>1. run[r].id \in Ids /\ UNCHANGED client /\ UNCHANGED vms /\ \E s : WriteState(run[r].id, s)
    BY <1>2 DEF SaveExit, StateWriteFails, TypeInv, RunOK
  <2> QED BY <2>1, StateWritten DEF TypeInv, SameName
<1>3. CASE Returns(r) \/ SendCompletion(r)
  BY <1>3 DEF Returns, BootAndRunReturns, SendCompletion, SameName
<1> QED BY <1>1, <1>2, <1>3 DEF TaskStep

LEMMA DurableKept ==
  ASSUME Durable, UNCHANGED client, \A id \in Ids : SameName(id)
  PROVE  Durable'
<1>1. \A id \in Ids : At(id, {"SaveConfig", "DeleteDir"}) => At(id, {"SaveConfig", "DeleteDir"})'
  BY DEF At
<1>2. \A id \in Ids : Agrees(id) => Agrees(id)'
  BY AgreesKept
<1> QED BY <1>1, <1>2 DEF Durable

LEMMA DurableClient ==
  ASSUME OneByOne, "create" \notin Failing, "delete" \notin Failing, TypeInv, StartsOK, NoRollback,
         Places, Durable, NEW c \in Clients, ClientRequest(c) \/ ClientStep(c)
  PROVE  Durable'
<1> DEFINE Writing == {"SaveConfig", "DeleteDir"}
<1>t. client \in [Clients -> Requests] /\ vms \in [Ids -> Entries] /\ DiskOK
  BY DEF TypeInv, ClientOK, VmsOK
<1>a. {"SaveConfig", "CloneInsert", "Poll", "DeleteDir", "SaveCreated", "Spawn", "Rollback",
       "RestartStart", "SaveRunning"} \subseteq ClientPcs
  BY DEF ClientPcs
<1>b. None \in Configs \cup {None} /\ None \in Runs \cup {None}
  OBVIOUS
<1>c. /\ client[c].pc # "Idle" => client[c].id \in Ids
      /\ client[c].pc \in {"CloneInsert", "SaveConfig"} => client[c].config \in Configs
      /\ client[c].pc # "Rollback"
  BY DEF TypeInv, ClientOK, NoRollback
\* All names agree unless this request is about to write one.
<1>d. \A id \in Ids : Agrees(id) \/ (client[c].id = id /\ client[c].pc \in Writing)
  BY DEF Durable, At, OneByOne
<1>e. ASSUME client[c].pc \notin Writing, \A id \in Ids : SameName(id) PROVE Durable'
  <2>1. \A id \in Ids : Agrees(id)'
    BY <1>d, <1>e, AgreesKept
  <2> QED BY <2>1 DEF Durable
\* A request that has changed a name, and is about to write that one.
<1>f. ASSUME NEW id \in Ids, client[c].pc \notin Writing,
             client'[c].id = id, client'[c].pc \in Writing,
             \A j \in Ids : j # id => SameName(j)
      PROVE  Durable'
  <2>1. \A j \in Ids : j # id => Agrees(j)'
    BY <1>d, <1>f, AgreesKept
  <2>2. At(id, Writing)'
    BY <1>f DEF At
  <2> QED BY <2>1, <2>2 DEF Durable
<1>g. ASSUME NEW id \in Ids, NEW k \in Configs, InsertEntry(c, id, k), client[c].pc \notin Writing
      PROVE  Durable'
  <2>1. client'[c].pc = "SaveConfig" /\ client'[c].id = id
    BY <1>t, <1>a, <1>b, <1>g, BeginEffect DEF InsertEntry
  <2>2. \A j \in Ids : j # id => SameName(j)
    BY <1>t, <1>g DEF InsertEntry, SameName
  <2> QED BY <1>f, <1>g, <2>1, <2>2
<1>h. ASSUME NEW id \in Ids, MarkRunning(c, id), client[c].pc \notin Writing PROVE Durable'
  <2>1. /\ UNCHANGED disk /\ vms[id].state = "Created"
        /\ vms'[id].state = "Running" /\ vms'[id].config = vms[id].config
        /\ \A j \in Ids : j # id => vms'[j] = vms[j]
    BY <1>t, <1>h, MarkRunningEffect DEF TypeInv, RunOK
  <2>2. \A j \in Ids : SameName(j)
    BY <2>1 DEF SameName
  <2> QED BY <1>e, <1>h, <2>2
<1>1. CASE \E id \in Ids, k \in Configs : CreateVm(c, id, k)
  BY <1>1, <1>g DEF CreateVm
<1>2. CASE \E id \in Ids : \/ \E dest \in Ids : CloneRead(c, id, dest)
                           \/ StopVm(c, id) \/ RestartVm(c, id)
  <2>1. client[c].pc \notin Writing /\ UNCHANGED <<vms, disk>>
    BY <1>2 DEF CloneRead, StopVm, RestartVm
  <2> QED BY <1>e, <2>1 DEF SameName
<1>3. CASE \E id \in Ids : StartVm(c, id)
  BY <1>3, <1>h DEF StartVm
<1>4. CASE \E id \in Ids : DeleteVm(c, id)
  <2>1. PICK id \in Ids : /\ vms' = [vms EXCEPT ![id] = NoEntry] /\ UNCHANGED disk
                          /\ Begin(c, "DeleteDir", id, None, None) /\ client[c].pc = "Idle"
    BY <1>4 DEF DeleteVm
  <2>2. client'[c].pc = "DeleteDir" /\ client'[c].id = id
    BY <1>t, <1>a, <1>b, <2>1, BeginEffect
  <2>3. \A j \in Ids : j # id => SameName(j)
    BY <1>t, <2>1 DEF SameName
  <2> QED BY <1>f, <2>1, <2>2, <2>3
<1>5. CASE CloneInsert(c) \/ RestartStart(c)
  <2>1. CASE InsertEntry(c, client[c].id, client[c].config) /\ client[c].pc = "CloneInsert"
    BY <1>c, <1>g, <2>1
  <2>2. CASE MarkRunning(c, client[c].id) /\ client[c].pc = "RestartStart"
    BY <1>c, <1>h, <2>2
  <2>3. CASE UNCHANGED <<vms, disk>>
    BY <1>5, <1>e, <2>3 DEF SameName, CloneInsert, RestartStart
  <2> QED BY <1>5, <2>1, <2>2, <2>3 DEF CloneInsert, RestartStart
<1>6. CASE SaveConfig(c)
  <2>0. PICK id \in Ids : id = client[c].id
    BY <1>c, <1>6 DEF SaveConfig
  <2>1. /\ client[c].pc = "SaveConfig" /\ client[c].id = id /\ WriteConfig(id, client[c].config)
        /\ UNCHANGED vms
    BY <2>0, <1>6 DEF SaveConfig, ConfigWriteFails
  <2>2. vms[id].state = "Created" /\ vms[id].config = client[c].config
    BY <2>1 DEF Places
  <2>3. disk'[id].config = client[c].config /\ \A j \in Ids : j # id => disk'[j] = disk[j]
    BY <1>t, <2>1, ConfigWritten
  <2>4. Agrees(id)'
    BY <2>1, <2>2, <2>3, AgreesNow
  <2>5. \A j \in Ids : j # id => Agrees(j)'
    BY <1>d, <2>1, <2>3, AgreesKept DEF SameName
  <2> QED BY <2>4, <2>5 DEF Durable
<1>7. CASE SaveCreated(c) \/ SaveRunning(c)
  <2>1. /\ client[c].pc \notin Writing /\ client[c].id \in Ids /\ UNCHANGED vms
        /\ \E s : WriteState(client[c].id, s)
    BY <1>c, <1>7 DEF SaveCreated, SaveRunning, StateWriteFails
  <2>2. \A j \in Ids : SameName(j)
    BY <1>t, <2>1, StateWritten DEF SameName
  <2> QED BY <1>e, <2>1, <2>2
<1>8. CASE Spawn(c) \/ Poll(c)
  <2>1. client[c].pc \notin Writing /\ UNCHANGED <<vms, disk>>
    BY <1>8 DEF Spawn, Poll
  <2> QED BY <1>e, <2>1 DEF SameName
<1>9. CASE DeleteDir(c)
  <2>0. PICK id \in Ids : id = client[c].id
    BY <1>c, <1>9 DEF DeleteDir
  <2>1. /\ client[c].pc = "DeleteDir" /\ client[c].id = id /\ disk' = [disk EXCEPT ![id] = NoDir]
        /\ UNCHANGED vms
    BY <2>0, <1>9 DEF DeleteDir, RemovedDir
  <2>2. vms[id].state = "Absent"
    BY <2>1 DEF Places
  <2>3. disk'[id].config = None /\ \A j \in Ids : j # id => disk'[j] = disk[j]
    BY <1>t, <2>1 DEF DiskOK, NoDir
  <2>4. Agrees(id)'
    BY <2>1, <2>2, <2>3, ManagerAssumptions, AgreesNow
  <2>5. \A j \in Ids : j # id => Agrees(j)'
    BY <1>d, <2>1, <2>3, AgreesKept DEF SameName
  <2> QED BY <2>4, <2>5 DEF Durable
<1> QED BY <1>c, <1>1, <1>2, <1>3, <1>4, <1>5, <1>6, <1>7, <1>8, <1>9
        DEF ClientRequest, ClientStep, Rollback

LEMMA DurableStep ==
  ASSUME OneByOne, "create" \notin Failing, "delete" \notin Failing, TypeInv, StartsOK, NoRollback,
         Places, OwnInv, Durable, [Next]_vars
  PROVE  Durable'
<1>1. CASE \E c \in Clients : ClientRequest(c) \/ ClientStep(c)
  BY <1>1, DurableClient
<1>2. CASE \E r \in Runs : Returns(r) \/ TaskStep(r)
  BY <1>2, TaskNames, DurableKept DEF OwnInv
<1>3. CASE StopAll \/ StopAllAndWait \/ WaitReceive \/ WaitTimeout \/ UNCHANGED vars
  <2>1. UNCHANGED <<client, vms, disk>>
    BY <1>3 DEF StopAll, StopAllAndWait, WaitReceive, WaitTimeout, vars
  <2> QED BY <2>1, DurableKept DEF SameName
<1>4. CASE CrashAndRecover
  BY <1>4, RecoverAgrees DEF TypeInv, Durable
<1> QED BY <1>1, <1>2, <1>3, <1>4 DEF Next

\* When requests come one by one and neither creating nor removing a directory
\* fails, the directories of the VMs hold what the manager knows, whatever
\* happens to the state files and wherever a crash falls (vm_manager.rs,
\* create_vm and delete_vm; state_store.rs, load_all).
THEOREM ConfigsSurvive ==
  ASSUME OneByOne, "create" \notin Failing, "delete" \notin Failing
  PROVE  Spec => []ConfigDurable
<1>1. Init => Durable
  <2>1. NoDir.config \notin Configs /\ NoEntry.state = "Absent"
    BY ManagerAssumptions, NoEntryFields DEF NoDir
  <2> QED BY <2>1 DEF Init, Durable, Agrees
<1>2. TypeInv /\ StartsOK /\ NoRollback /\ OwnInv /\ Places /\ Durable /\ [Next]_vars => Durable'
  BY DurableStep
<1>3. Durable => ConfigDurable
  BY DEF Durable, ConfigDurable, Agrees, At
<1> QED BY <1>1, <1>2, <1>3, Typing, OwnershipSaved, OwnershipInTurn, PTL DEF Spec


---------------------------------------------------------------------------
(* What a daemon that dies has told the disk about the VMs it runs, when   *)
(* requests come one by one.                                               *)

\* A VM of the map has a config on disk, unless create_vm has yet to write it
\* or could not.
Known ==
  \A id \in Ids : vms[id].state # "Absent" =>
    At(id, {"SaveConfig", "Rollback"}) \/ disk[id].config \in Configs

\* A run whose boot_and_run is spawned, or about to be.
Launched(r) ==
  \/ run[r].pc \in {"running", "exited"}
  \/ \E c \in Clients : client[c].pc = "Spawn" /\ client[c].run = r

HasRun == {"Running", "Stopped", "Failed"}

\* The state file of a launched run says that its VM has run.
Saved == \A r \in Runs : Launched(r) => disk[run[r].id].state \in HasRun

\* A step that takes no config away and adds no entry.
NoneAdded(id) ==
  /\ disk'[id].config = disk[id].config
  /\ vms'[id].state # "Absent" => vms[id].state # "Absent"

LEMMA LaunchedOwns ==
  ASSUME TypeInv, StartsOK, RunOwns, NEW r \in Runs, Launched(r)
  PROVE  /\ run[r].id \in Ids
         /\ vms[run[r].id].state = "Running"
         /\ vms[run[r].id].stop_flag = r
  BY DEF TypeInv, RunOK, StartsOK, RunOwns, Launched, Owning

LEMMA SavedKept ==
  ASSUME TypeInv, StartsOK, RunOwns, Saved,
         \A r \in Runs : Launched(r)' => Launched(r) /\ run'[r].id = run[r].id,
         \A id \in Ids : vms[id].state = "Running" /\ disk[id].state \in HasRun
                           => disk'[id].state \in HasRun
  PROVE  Saved'
<1> SUFFICES ASSUME NEW r \in Runs, Launched(r)' PROVE disk'[run'[r].id].state \in HasRun
  BY DEF Saved
<1>1. Launched(r) /\ run'[r].id = run[r].id
  OBVIOUS
<1>2. run[r].id \in Ids /\ vms[run[r].id].state = "Running"
  BY <1>1, LaunchedOwns
<1>3. disk[run[r].id].state \in HasRun
  BY <1>1 DEF Saved
<1> QED BY <1>1, <1>2, <1>3

\* A request that launches nothing.
LEMMA LaunchedClient ==
  ASSUME OneByOne, NEW c \in Clients, client'[c].pc # "Spawn",
         \A r \in Runs : run'[r].id = run[r].id /\ run'[r].pc = run[r].pc
  PROVE  \A r \in Runs : Launched(r)' => Launched(r) /\ run'[r].id = run[r].id
  BY DEF OneByOne, Launched

LEMMA KnownClient ==
  ASSUME OneByOne, TypeInv, Places, Known, NEW c \in Clients, ClientRequest(c) \/ ClientStep(c)
  PROVE  Known'
<1> DEFINE Unwritten == {"SaveConfig", "Rollback"}
<1>t. client \in [Clients -> Requests] /\ vms \in [Ids -> Entries] /\ DiskOK
  BY DEF TypeInv, ClientOK, VmsOK
<1>a. {"SaveConfig", "CloneInsert", "Poll", "DeleteDir", "SaveCreated", "Spawn", "Rollback",
       "RestartStart", "SaveRunning"} \subseteq ClientPcs
  BY DEF ClientPcs
<1>b. None \in Configs \cup {None} /\ None \in Runs \cup {None}
  OBVIOUS
<1>c. /\ client[c].pc # "Idle" => client[c].id \in Ids
      /\ client[c].pc \in {"CloneInsert", "SaveConfig"} => client[c].config \in Configs
  BY DEF TypeInv, ClientOK
<1>d. \A id \in Ids : vms[id].state # "Absent" =>
        disk[id].config \in Configs \/ (client[c].id = id /\ client[c].pc \in Unwritten)
  BY DEF Known, At, OneByOne
\* The request leaves one name to be written, or none.
<1>e. ASSUME NEW id \in Ids, client'[c].id = id, client'[c].pc \in Unwritten,
             client[c].pc \in Unwritten => client[c].id = id,
             \A j \in Ids : j # id => NoneAdded(j)
      PROVE  Known'
  <2>1. At(id, Unwritten)'
    BY <1>e DEF At
  <2>2. \A j \in Ids : j # id /\ vms'[j].state # "Absent" => disk'[j].config \in Configs
    BY <1>d, <1>e DEF NoneAdded
  <2> QED BY <2>1, <2>2 DEF Known
<1>f. ASSUME client[c].pc \notin Unwritten, \A j \in Ids : NoneAdded(j) PROVE Known'
  <2>1. \A j \in Ids : vms'[j].state # "Absent" => disk'[j].config \in Configs
    BY <1>d, <1>f DEF NoneAdded
  <2> QED BY <2>1 DEF Known
<1>g. ASSUME NEW id \in Ids, NEW k \in Configs, InsertEntry(c, id, k), client[c].pc \notin Unwritten
      PROVE  Known'
  <2>1. client'[c].pc = "SaveConfig" /\ client'[c].id = id
    BY <1>t, <1>a, <1>b, <1>g, BeginEffect DEF InsertEntry
  <2>2. \A j \in Ids : j # id => NoneAdded(j)
    BY <1>t, <1>g DEF InsertEntry, NoneAdded
  <2> QED BY <1>e, <1>g, <2>1, <2>2
<1>h. ASSUME NEW id \in Ids, MarkRunning(c, id), client[c].pc \notin Unwritten PROVE Known'
  <2>1. /\ UNCHANGED disk /\ vms[id].state = "Created"
        /\ \A j \in Ids : j # id => vms'[j] = vms[j]
    BY <1>t, <1>h, MarkRunningEffect DEF TypeInv, RunOK
  <2>2. \A j \in Ids : NoneAdded(j)
    BY <2>1 DEF NoneAdded
  <2> QED BY <1>f, <1>h, <2>2
<1>1. CASE \E id \in Ids, k \in Configs : CreateVm(c, id, k)
  BY <1>1, <1>g DEF CreateVm
<1>2. CASE \E id \in Ids : \/ \E dest \in Ids : CloneRead(c, id, dest)
                           \/ StopVm(c, id) \/ RestartVm(c, id)
  <2>1. client[c].pc \notin Unwritten /\ UNCHANGED <<vms, disk>>
    BY <1>2 DEF CloneRead, StopVm, RestartVm
  <2> QED BY <1>f, <2>1 DEF NoneAdded
<1>3. CASE \E id \in Ids : StartVm(c, id)
  BY <1>3, <1>h DEF StartVm
<1>4. CASE \E id \in Ids : DeleteVm(c, id)
  <2>1. PICK id \in Ids : /\ vms' = [vms EXCEPT ![id] = NoEntry] /\ UNCHANGED disk
                          /\ client[c].pc = "Idle"
    BY <1>4 DEF DeleteVm
  <2>2. \A j \in Ids : NoneAdded(j)
    BY <1>t, <2>1, NoEntryFields DEF NoneAdded
  <2> QED BY <1>f, <2>1, <2>2
<1>5. CASE CloneInsert(c) \/ RestartStart(c)
  <2>1. CASE InsertEntry(c, client[c].id, client[c].config) /\ client[c].pc = "CloneInsert"
    BY <1>c, <1>g, <2>1
  <2>2. CASE MarkRunning(c, client[c].id) /\ client[c].pc = "RestartStart"
    BY <1>c, <1>h, <2>2
  <2>3. CASE UNCHANGED <<vms, disk>>
    BY <1>5, <1>f, <2>3 DEF NoneAdded, CloneInsert, RestartStart
  <2> QED BY <1>5, <2>1, <2>2, <2>3 DEF CloneInsert, RestartStart
<1>6. CASE SaveConfig(c)
  <2>0. PICK id \in Ids : id = client[c].id
    BY <1>c, <1>6 DEF SaveConfig
  <2>1. client[c].pc = "SaveConfig" /\ UNCHANGED vms
    BY <1>6 DEF SaveConfig
  <2>2. PICK k : WriteConfig(id, k) /\ (GoTo(c, "Rollback") \/ k = client[c].config)
    BY <2>0, <1>6 DEF SaveConfig, ConfigWriteFails
  <2>3. disk'[id].config = k /\ \A j \in Ids : j # id => disk'[j] = disk[j]
    BY <1>t, <2>2, ConfigWritten
  <2>4. \A j \in Ids : j # id => NoneAdded(j)
    BY <2>1, <2>3 DEF NoneAdded
  <2>5. CASE GoTo(c, "Rollback")
    <3>1. client'[c].pc = "Rollback" /\ client'[c].id = id
      BY <1>t, <1>a, <2>0, <2>5, GoToEffect
    <3> QED BY <1>e, <2>0, <2>4, <3>1
  <2>6. CASE k = client[c].config
    <3>1. \A j \in Ids : vms'[j].state # "Absent" => disk'[j].config \in Configs
      BY <1>c, <1>d, <2>0, <2>1, <2>3, <2>4, <2>6 DEF NoneAdded
    <3> QED BY <3>1 DEF Known
  <2> QED BY <2>2, <2>5, <2>6
<1>7. CASE SaveCreated(c) \/ SaveRunning(c)
  <2>1. /\ client[c].pc \notin Unwritten /\ client[c].id \in Ids /\ UNCHANGED vms
        /\ \E s : WriteState(client[c].id, s)
    BY <1>c, <1>7 DEF SaveCreated, SaveRunning, StateWriteFails
  <2>2. \A j \in Ids : NoneAdded(j)
    BY <1>t, <2>1, StateWritten DEF NoneAdded
  <2> QED BY <1>f, <2>1, <2>2
<1>8. CASE Spawn(c) \/ Poll(c)
  <2>1. client[c].pc \notin Unwritten /\ UNCHANGED <<vms, disk>>
    BY <1>8 DEF Spawn, Poll
  <2> QED BY <1>f, <2>1 DEF NoneAdded
<1>9. CASE Rollback(c) \/ DeleteDir(c)
  <2>0. PICK id \in Ids : id = client[c].id
    BY <1>c, <1>9 DEF Rollback, DeleteDir
  <2>1. /\ vms'[id].state = "Absent"
        /\ \A j \in Ids : j # id => NoneAdded(j)
    <3>1. CASE Rollback(c)
      BY <1>t, <2>0, <3>1, NoEntryFields DEF Rollback, NoneAdded
    <3>2. CASE DeleteDir(c)
      <4>1. vms[id].state = "Absent" /\ UNCHANGED vms
        BY <2>0, <3>2 DEF DeleteDir, Places
      <4>2. \A j \in Ids : j # id => disk'[j] = disk[j]
        BY <1>t, <2>0, <3>2 DEF DeleteDir, DiskOK
      <4> QED BY <4>1, <4>2 DEF NoneAdded
    <3> QED BY <1>9, <3>1, <3>2
  <2>2. \A j \in Ids : vms'[j].state # "Absent" => disk'[j].config \in Configs
    BY <1>d, <2>0, <2>1 DEF NoneAdded
  <2> QED BY <2>2 DEF Known
<1> QED BY <1>1, <1>2, <1>3, <1>4, <1>5, <1>6, <1>7, <1>8, <1>9
        DEF ClientRequest, ClientStep

LEMMA KnownStep ==
  ASSUME OneByOne, TypeInv, Places, RunOwns, Known, [Next]_vars
  PROVE  Known'
<1>1. CASE \E c \in Clients : ClientRequest(c) \/ ClientStep(c)
  BY <1>1, KnownClient
<1>2. CASE \/ \E r \in Runs : Returns(r) \/ TaskStep(r)
           \/ StopAll \/ StopAllAndWait \/ WaitReceive \/ WaitTimeout \/ UNCHANGED vars
  <2>1. UNCHANGED client /\ \A id \in Ids : NoneAdded(id)
    <3>1. CASE \E r \in Runs : Returns(r) \/ TaskStep(r)
      BY <3>1, TaskNames DEF SameName, NoneAdded
    <3>2. CASE StopAll \/ StopAllAndWait \/ WaitReceive \/ WaitTimeout \/ UNCHANGED vars
      <4>1. UNCHANGED <<client, vms, disk>>
        BY <3>2 DEF StopAll, StopAllAndWait, WaitReceive, WaitTimeout, vars
      <4> QED BY <4>1 DEF NoneAdded
    <3> QED BY <1>2, <3>1, <3>2
  <2>2. \A id \in Ids : At(id, {"SaveConfig", "Rollback"}) => At(id, {"SaveConfig", "Rollback"})'
    BY <2>1 DEF At
  <2> QED BY <2>1, <2>2 DEF Known, NoneAdded
<1>3. CASE CrashAndRecover
  <2>1. \A id \in Ids : disk'[id].config \notin Configs => vms'[id].state = "Absent"
    BY <1>3, RecoverAgrees DEF TypeInv
  <2> QED BY <2>1 DEF Known
<1> QED BY <1>1, <1>2, <1>3 DEF Next

LEMMA SavedClient ==
  ASSUME OneByOne, TypeInv, StartsOK, Places, RunOwns, Saved,
         NEW c \in Clients, ClientRequest(c) \/ ClientStep(c)
  PROVE  Saved'
<1>t. client \in [Clients -> Requests] /\ vms \in [Ids -> Entries] /\ DiskOK /\ run \in [Runs -> RunRecords]
  BY DEF TypeInv, ClientOK, VmsOK, RunOK
<1>a. {"SaveConfig", "CloneInsert", "Poll", "DeleteDir", "SaveCreated", "Spawn", "Rollback",
       "RestartStart", "SaveRunning"} \subseteq ClientPcs
  BY DEF ClientPcs
<1>b. None \in Configs \cup {None} /\ None \in Runs \cup {None}
  OBVIOUS
<1>c. /\ client[c].pc # "Idle" => client[c].id \in Ids
      /\ client[c].pc \in {"CloneInsert", "SaveConfig"} => client[c].config \in Configs
      /\ client[c].pc \in {"SaveRunning", "Spawn"} =>
           client[c].run \in Runs /\ run[client[c].run].id = client[c].id
  BY DEF TypeInv, ClientOK, StartsOK
<1>d. ASSUME client'[c].pc # "Spawn", UNCHANGED run,
             \A id \in Ids : vms[id].state = "Running" /\ disk[id].state \in HasRun
                               => disk'[id].state \in HasRun
      PROVE  Saved'
  BY <1>d, LaunchedClient, SavedKept
<1>g. ASSUME NEW id \in Ids, NEW k \in Configs, InsertEntry(c, id, k)
      PROVE  Saved'
  <2>1. client'[c].pc = "SaveConfig" /\ UNCHANGED <<disk, run>>
    BY <1>t, <1>a, <1>b, <1>g, BeginEffect DEF InsertEntry
  <2> QED BY <1>d, <2>1
<1>h. ASSUME NEW id \in Ids, MarkRunning(c, id) PROVE Saved'
  <2>1. PICK r \in Runs : /\ run' = [run EXCEPT ![r] = NewRun("starting", id)]
                          /\ Begin(c, "SaveRunning", id, None, r)
    BY <1>h DEF MarkRunning
  <2>2. UNCHANGED disk
    BY <1>h DEF MarkRunning
  <2>3. client'[c].pc = "SaveRunning"
    BY <1>t, <1>a, <1>b, <2>1, BeginEffect
  <2>4. run'[r].pc = "starting" /\ \A q \in Runs : q # r => run'[q] = run[q]
    BY <1>t, <2>1, NewRunFields DEF RunPcs
  <2>5. \A q \in Runs : Launched(q)' => Launched(q) /\ run'[q].id = run[q].id
    BY <2>3, <2>4 DEF Launched, OneByOne
  <2> QED BY <2>2, <2>5, SavedKept
<1>1. CASE \E id \in Ids, k \in Configs : CreateVm(c, id, k)
  BY <1>1, <1>g DEF CreateVm
<1>2. CASE \E id, dest \in Ids : CloneRead(c, id, dest)
  <2>1. PICK id \in Ids, dest \in Ids : CloneRead(c, id, dest)
    BY <1>2
  <2>2. vms[id].config \in Configs \cup {None}
    BY <1>t DEF Entries
  <2>3. PICK k \in Configs \cup {None} : Begin(c, "CloneInsert", dest, k, None)
    BY <2>1, <2>2 DEF CloneRead
  <2>4. client'[c].pc = "CloneInsert"
    BY <1>t, <1>a, <1>b, <2>3, BeginEffect
  <2>5. UNCHANGED <<disk, run>>
    BY <2>1 DEF CloneRead
  <2> QED BY <1>d, <2>4, <2>5
<1>3. CASE \E id \in Ids : StartVm(c, id)
  BY <1>3, <1>h DEF StartVm
<1>4. CASE \E id \in Ids : DeleteVm(c, id)
  <2>1. client'[c].pc = "DeleteDir" /\ UNCHANGED <<disk, run>>
    BY <1>t, <1>a, <1>b, <1>4, BeginEffect DEF DeleteVm
  <2> QED BY <1>d, <2>1
<1>5. CASE \E id \in Ids : StopVm(c, id) \/ RestartVm(c, id)
  <2>1. client'[c].pc # "Spawn" /\ UNCHANGED disk
    <3>1. CASE \E id \in Ids : StopVm(c, id)
      BY <3>1 DEF StopVm
    <3>2. CASE \E id \in Ids : RestartVm(c, id)
      BY <1>t, <1>a, <1>b, <3>2, BeginEffect DEF RestartVm
    <3> QED BY <1>5, <3>1, <3>2
  <2>2. \A r \in Runs : run'[r].id = run[r].id /\ run'[r].pc = run[r].pc
    BY <1>t, <1>5, SetFlagsEffect DEF StopVm, RestartVm
  <2> QED BY <2>1, <2>2, LaunchedClient, SavedKept
<1>6. CASE CloneInsert(c) \/ RestartStart(c) \/ Poll(c) \/ Rollback(c)
  <2>1. CASE InsertEntry(c, client[c].id, client[c].config) /\ client[c].pc = "CloneInsert"
    BY <1>c, <1>g, <2>1
  <2>2. CASE MarkRunning(c, client[c].id) /\ client[c].pc = "RestartStart"
    BY <1>c, <1>h, <2>2
  <2>3. CASE Reply(c) /\ UNCHANGED <<disk, run>>
    BY <1>t, <1>d, <2>3, ReplyEffect
  <2>4. CASE Poll(c)
    <3>1. client[c].pc = "Poll" /\ UNCHANGED <<disk, run>>
      BY <2>4 DEF Poll
    <3>2. \/ Reply(c) \/ GoTo(c, "RestartStart")
          \/ client' = [client EXCEPT ![c].polls = @ + 1]
      BY <2>4 DEF Poll
    <3>3. client' = [client EXCEPT ![c].polls = @ + 1] => client'[c].pc = client[c].pc
      BY <1>t DEF Requests
    <3>4. client'[c].pc # "Spawn"
      BY <1>t, <1>a, <3>1, <3>2, <3>3, ReplyEffect, GoToEffect
    <3> QED BY <1>d, <3>1, <3>4
  <2> QED BY <1>6, <2>1, <2>2, <2>3, <2>4 DEF CloneInsert, RestartStart, Rollback
<1>7. CASE SaveConfig(c)
  <2>1. client[c].id \in Ids /\ UNCHANGED run /\ \E k : WriteConfig(client[c].id, k)
    BY <1>c, <1>7 DEF SaveConfig, ConfigWriteFails
  <2>2. \A j \in Ids : disk'[j].state = disk[j].state
    BY <1>t, <2>1, ConfigWritten
  <2>3. client'[c].pc # "Spawn"
    BY <1>t, <1>a, <1>7, GoToEffect DEF SaveConfig
  <2> QED BY <1>d, <2>1, <2>2, <2>3
\* Neither the directory of a VM just created nor that of one removed is of a
\* VM that runs.
<1>8. CASE SaveCreated(c) \/ DeleteDir(c)
  <2>1. client[c].id \in Ids /\ UNCHANGED run /\ vms[client[c].id].state # "Running"
    BY <1>c, <1>8 DEF SaveCreated, DeleteDir, Places
  <2>2. \A j \in Ids : j # client[c].id => disk'[j] = disk[j]
    <3>1. CASE SaveCreated(c)
      BY <1>t, <2>1, <3>1, StateWritten DEF SaveCreated, StateWriteFails
    <3>2. CASE DeleteDir(c)
      BY <1>t, <2>1, <3>2 DEF DeleteDir, DiskOK
    <3> QED BY <1>8, <3>1, <3>2
  <2>3. client'[c].pc # "Spawn"
    BY <1>t, <1>a, <1>8, ReplyEffect, GoToEffect DEF SaveCreated, DeleteDir
  <2> QED BY <1>d, <2>1, <2>2, <2>3
<1>9. CASE SaveRunning(c)
  <2>0. PICK id \in Ids, q \in Runs :
          id = client[c].id /\ q = client[c].run /\ run[q].id = id /\ run[q].pc = "starting"
    BY <1>c, <1>9 DEF SaveRunning, StartsOK
  <2>1. UNCHANGED run /\ client[c].pc = "SaveRunning"
    BY <1>9 DEF SaveRunning
  <2>2. PICK s : /\ WriteState(id, s)
                 /\ Reply(c) \/ (s = "Running" /\ GoTo(c, "Spawn"))
    BY <1>9, <2>0 DEF SaveRunning, StateWriteFails
  <2>3. disk'[id].state = s /\ \A j \in Ids : j # id => disk'[j] = disk[j]
    BY <1>t, <2>2, StateWritten
  <2>4. CASE s = "Running" /\ GoTo(c, "Spawn")
    <3>1. client'[c].pc = "Spawn" /\ client'[c].run = q
      BY <1>t, <1>a, <2>0, <2>4, GoToEffect
    <3>2. \A r \in Runs : Launched(r)' => r = q \/ Launched(r)
      BY <2>1, <3>1 DEF Launched, OneByOne
    <3>3. \A j \in Ids : disk[j].state \in HasRun \/ j = id => disk'[j].state \in HasRun
      BY <2>3, <2>4 DEF HasRun
    <3> SUFFICES ASSUME NEW r \in Runs, Launched(r)' PROVE disk'[run'[r].id].state \in HasRun
      BY DEF Saved
    <3>4. CASE r = q
      BY <2>0, <2>1, <3>3, <3>4
    <3>5. CASE Launched(r)
      BY <2>1, <3>3, <3>5, LaunchedOwns DEF Saved
    <3> QED BY <3>2, <3>4, <3>5
  <2>5. CASE Reply(c)
    <3>1. client'[c].pc = "Idle"
      BY <1>t, <2>5, ReplyEffect
    <3> SUFFICES ASSUME NEW r \in Runs, Launched(r)' PROVE disk'[run'[r].id].state \in HasRun
      BY DEF Saved
    <3>2. run[r].pc \in {"running", "exited"}
      BY <2>1, <3>1 DEF Launched, OneByOne
    <3>3. Launched(r) /\ r # q
      BY <2>0, <3>2 DEF Launched
    <3>4. run[r].id \in Ids /\ vms[run[r].id].stop_flag = r /\ vms[id].stop_flag = q
      BY <2>0, <3>3, LaunchedOwns DEF RunOwns, Owning
    <3>5. run[r].id # id
      BY <3>3, <3>4
    <3> QED BY <2>1, <2>3, <3>3, <3>4, <3>5 DEF Saved
  <2> QED BY <2>2, <2>4, <2>5
<1>10. CASE Spawn(c)
  <2>0. PICK q \in Runs : q = client[c].run /\ client[c].pc = "Spawn"
    BY <1>c, <1>10 DEF Spawn
  <2>1. run' = [run EXCEPT ![q].pc = "running"] /\ Reply(c) /\ UNCHANGED disk
    BY <1>10, <2>0 DEF Spawn
  <2>2. run'[q].id = run[q].id /\ \A r \in Runs : r # q => run'[r] = run[r]
    BY <1>t, <2>1, RunPcEffect DEF RunPcs
  <2>3. client'[c].pc = "Idle"
    BY <1>t, <2>1, ReplyEffect
  <2>4. \A r \in Runs : Launched(r)' => Launched(r) /\ run'[r].id = run[r].id
    BY <2>0, <2>2, <2>3 DEF Launched, OneByOne
  <2> QED BY <2>1, <2>4, SavedKept
<1> QED BY <1>1, <1>2, <1>3, <1>4, <1>5, <1>6, <1>7, <1>8, <1>9, <1>10
        DEF ClientRequest, ClientStep

LEMMA SavedStep ==
  ASSUME OneByOne, "exit" \notin Failing, TypeInv, StartsOK, Places, RunOwns, Saved, [Next]_vars
  PROVE  Saved'
<1>t. vms \in [Ids -> Entries] /\ DiskOK /\ run \in [Runs -> RunRecords]
  BY DEF TypeInv, VmsOK, RunOK
<1>1. CASE \E c \in Clients : ClientRequest(c) \/ ClientStep(c)
  BY <1>1, SavedClient
<1>2. ASSUME NEW r \in Runs, Returns(r) \/ TaskStep(r) PROVE Saved'
  <2>1. run[r].id \in Ids /\ UNCHANGED client /\ run[r].pc \in {"running", "exited", "saving", "notify"}
    BY <1>2 DEF Returns, BootAndRunReturns, TaskStep, RecordExit, SaveExit, SendCompletion, TypeInv, RunOK
  <2>2. /\ \A s \in Runs : run'[s].id = run[s].id /\ (s # r => run'[s].pc = run[s].pc)
        /\ run'[r].pc = "exited" => run[r].pc = "running"
        /\ run'[r].pc # "running"
    <3>1. CASE Returns(r)
      BY <1>t, <3>1, ReturnEffect DEF Returns, BootAndRunReturns
    <3>2. CASE RecordExit(r)
      <4>1. run[r].result \in {"Stopped", "Failed"}
        BY <3>2 DEF RecordExit, TypeInv, RunOK
      <4> QED BY <1>t, <2>1, <3>2, <4>1, RecordExitEffect
    <3>3. CASE SaveExit(r) \/ SendCompletion(r)
      BY <1>t, <3>3, RunPcEffect DEF SaveExit, SendCompletion, RunPcs
    <3> QED BY <1>2, <3>1, <3>2, <3>3 DEF TaskStep
  <2>3. \A s \in Runs : Launched(s)' => Launched(s) /\ run'[s].id = run[s].id
    BY <2>1, <2>2 DEF Launched
  <2>4. \A id \in Ids : disk[id].state \in HasRun => disk'[id].state \in HasRun
    <3>1. CASE SaveExit(r)
      <4>1. run[r].result \in HasRun /\ WriteState(run[r].id, run[r].result)
        BY <3>1 DEF SaveExit, StateWriteFails, TypeInv, RunOK, HasRun
      <4> QED BY <1>t, <2>1, <4>1, StateWritten
    <3>2. CASE Returns(r) \/ RecordExit(r) \/ SendCompletion(r)
      BY <3>2 DEF Returns, BootAndRunReturns, RecordExit, SendCompletion
    <3> QED BY <1>2, <3>1, <3>2 DEF TaskStep
  <2> QED BY <2>3, <2>4, SavedKept
<1>3. CASE StopAll \/ StopAllAndWait \/ WaitReceive \/ WaitTimeout \/ UNCHANGED vars
  <2>1. UNCHANGED <<client, disk>>
    BY <1>3 DEF StopAll, StopAllAndWait, WaitReceive, WaitTimeout, vars
  <2>2. \A r \in Runs : run'[r].id = run[r].id /\ run'[r].pc = run[r].pc
    BY <1>t, <1>3, SetFlagsEffect DEF StopAll, StopAllAndWait, WaitReceive, WaitTimeout, vars
  <2>3. \A r \in Runs : Launched(r)' => Launched(r) /\ run'[r].id = run[r].id
    BY <2>1, <2>2 DEF Launched
  <2> QED BY <2>1, <2>3, SavedKept
<1>4. CASE CrashAndRecover
  <2>1. \A r \in Runs : run'[r].pc \in {"unused", "dead"}
    BY <1>t, <1>4, RecoverEffect DEF DiskOK
  <2>2. \A c \in Clients : client'[c].pc = "Idle"
    BY <1>t, <1>4, RecoverEffect DEF DiskOK
  <2> QED BY <2>1, <2>2 DEF Saved, Launched
<1> QED BY <1>1, <1>2, <1>3, <1>4 DEF Next

\* The next daemon loads a VM that was executing as one that has run.
LEMMA RanRecovered ==
  ASSUME TypeInv, StartsOK, Places, RunOwns, Known, Saved, ~TornIo, CrashAndRecover,
         NEW r \in Runs, run[r].pc = "running"
  PROVE  vms'[run[r].id].state \in {"Stopped", "Failed"}
<1>1. Launched(r)
  BY DEF Launched
<1>2. PICK id \in Ids : id = run[r].id
  BY <1>1, LaunchedOwns
<1>3. vms[id].state = "Running"
  BY <1>1, <1>2, LaunchedOwns
<1>4. ~At(id, {"SaveConfig", "Rollback"})
  BY <1>3 DEF At, Places
<1>5. disk[id].config \in Configs
  BY <1>3, <1>4 DEF Known
<1>6. disk[id].state \in {"Running", "Stopped", "Failed"}
  BY <1>1, <1>2 DEF Saved, HasRun
<1>7. disk'[id] = disk[id]
  BY RecoverAgrees DEF TypeInv
<1>8. vms'[id].state = LoadState(disk[id].state)
  BY <1>5, <1>7, RecoverAgrees DEF TypeInv
<1>9. None # "Running" /\ None # "Stopped" /\ None # "Failed"
  BY ManagerAssumptions DEF VmStates
<1> QED BY <1>2, <1>6, <1>8, <1>9 DEF LoadState

\* When requests come one by one, a task's save of the exit state succeeds and
\* a crash falls between file system calls, a VM that was executing when the
\* daemon died is never offered as Created by the next one, even if creating,
\* starting and deleting VMs failed on the way (vm_manager.rs, start_vm, which
\* saves before it spawns; state_store.rs, load_all).
THEOREM NeverForgotten ==
  ASSUME OneByOne, "exit" \notin Failing, ~TornIo
  PROVE  Spec => RanStaysRan
<1>1. Init => Known /\ Saved
  <2>1. NoEntry.state = "Absent"
    BY NoEntryFields
  <2>2. \A r \in Runs : NewRun("unused", None).pc = "unused"
    BY NewRunFields DEF RunPcs
  <2>3. Idle.pc = "Idle"
    BY DEF Idle
  <2> QED BY <2>1, <2>2, <2>3 DEF Init, Known, Saved, Launched
<1>2. TypeInv /\ StartsOK /\ OwnInv /\ Places /\ Known /\ Saved /\ [Next]_vars => Known' /\ Saved'
  BY KnownStep, SavedStep DEF OwnInv
<1>3. TypeInv /\ StartsOK /\ OwnInv /\ Places /\ Known /\ Saved /\ [Next]_vars
        => [crashes' # crashes =>
              \A r \in Runs : run[r].pc = "running" =>
                vms'[run[r].id].state \in {"Stopped", "Failed"}]_vars
  <2> SUFFICES ASSUME TypeInv, StartsOK, OwnInv, Places, Known, Saved, [Next]_vars, crashes' # crashes
               PROVE  \A r \in Runs : run[r].pc = "running" =>
                        vms'[run[r].id].state \in {"Stopped", "Failed"}
    OBVIOUS
  <2>1. CrashAndRecover
    <3>1. ASSUME NEW c \in Clients, ClientRequest(c) \/ ClientStep(c) PROVE UNCHANGED crashes
      BY <3>1 DEF ClientRequest, ClientStep, CreateVm, CloneRead, StartVm, StopVm, RestartVm, DeleteVm,
         CloneInsert, InsertEntry, SaveConfig, SaveCreated, Rollback, MarkRunning, SaveRunning, Spawn,
         Poll, RestartStart, DeleteDir
    <3>2. ASSUME NEW r \in Runs, Returns(r) \/ TaskStep(r) PROVE UNCHANGED crashes
      BY <3>2 DEF Returns, BootAndRunReturns, TaskStep, RecordExit, SaveExit, SendCompletion
    <3> QED BY <3>1, <3>2 DEF Next, vars, StopAll, StopAllAndWait, WaitReceive, WaitTimeout
  <2> QED BY <2>1, RanRecovered DEF OwnInv
<1> QED BY <1>1, <1>2, <1>3, Typing, OwnershipInTurn, PTL DEF Spec, RanStaysRan
=============================================================================
