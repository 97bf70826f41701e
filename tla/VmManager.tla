----------------------------- MODULE VmManager -----------------------------
(***************************************************************************)
(* The VM manager of the hitz daemon and its state store                   *)
(* (hitz-daemon: vm_manager.rs, state_store.rs), driven by the requests    *)
(* that router.rs dispatches and by the shutdown sequence of hitz-cli.     *)
(*                                                                         *)
(* A request runs on a thread of the tokio runtime.  It takes the `vms`    *)
(* mutex for one short section and does its file system calls outside of   *)
(* it, so that one action is one locked section or one file operation.     *)
(* Requests that are refused (unknown id, wrong state, existing id) change *)
(* nothing and are left to stuttering, except where a refusal ends a       *)
(* request that is already under way.                                      *)
(***************************************************************************)
EXTENDS Naturals, FiniteSets

CONSTANTS
  Ids,         \* VM names
  Configs,     \* VM configurations that pass validate_config
  Clients,     \* request slots: each executes one API request at a time
  Runs,        \* one element per start_vm that gets past its state check:
               \*   its stop flag, its serial buffer and its spawned task
  None,        \* an Option that is None, a file that does not exist
  Failing,     \* the operations whose file system calls may fail
  TornIo,      \* whether a crash can fall inside a file system call
  MaxPolls,    \* how often restart_vm polls (50 in the code)
  MaxCrashes   \* bound on the number of daemon restarts

VmStates == {"Created", "Running", "Stopped", "Failed"}

ASSUME ManagerAssumptions ==
  /\ IsFiniteSet(Ids)
  /\ None \notin Ids \cup Configs \cup Runs \cup VmStates
  /\ "corrupt" \notin Configs
  /\ Failing \subseteq {"create", "start", "exit", "delete"}
  /\ TornIo \in BOOLEAN
  /\ MaxPolls \in Nat \ {0}
  /\ MaxCrashes \in Nat

VARIABLES
  vms,          \* the HashMap<String, VmEntry> behind the mutex
  disk,         \* <state dir>/<id>/{config.json, state.json}
  client,       \* where each request is, and its locals
  run,          \* what belongs to one start of a VM
  completions,  \* messages queued in the completion channel
  waiter,       \* the stop_all_and_wait of the daemon's shutdown
  crashes       \* daemon restarts so far

vars == <<vms, disk, client, run, completions, waiter, crashes>>

---------------------------------------------------------------------------
(* State.  A missing key of the map is an entry whose state is "Absent". *)

\* An entry that has no run: just created, or loaded from disk.
StoredEntry(s, k) == [state |-> s, config |-> k, stop_flag |-> None, serial_buf |-> None]

NoEntry == StoredEntry("Absent", None)

Entries ==
  [state : VmStates \cup {"Absent"}, config : Configs \cup {None},
   stop_flag : Runs \cup {None}, serial_buf : Runs \cup {None}]

\* A file is absent (None), unreadable ("corrupt") or holds a value.
NoDir == [config |-> None, state |-> None]

Dirs == [config : Configs \cup {None, "corrupt"},
         state  : VmStates \cup {None, "corrupt"}]

Idle == [pc |-> "Idle", id |-> None, config |-> None, run |-> None, polls |-> 0]

ClientPcs == {"Idle", "CloneInsert", "SaveConfig", "SaveCreated", "Rollback",
              "SaveRunning", "Spawn", "Poll", "RestartStart", "DeleteDir"}

Requests == [pc : ClientPcs, id : Ids \cup {None}, config : Configs \cup {None},
             run : Runs \cup {None}, polls : 0..(MaxPolls - 1)]

\* "unused": not started yet;  "starting": start_vm is before its spawn;
\* "running": the task is inside boot_and_run;  "exited": boot_and_run has
\* returned;  "saving", "notify": the rest of the task;  "dead": the daemon
\* process that owned it is gone.  `stop` is the stop flag as the manager sets
\* it; that boot_and_run stores into the same flag when a vCPU ends is part of
\* VcpuThreads, and nobody here reads the flag after that.
RunPcs == {"unused", "starting", "running", "exited", "saving", "notify",
           "done", "dead"}

NewRun(pc, id) ==
  [pc |-> pc, id |-> id, stop |-> FALSE, result |-> None, closed |-> FALSE]

RunRecords == [pc : RunPcs, id : Ids \cup {None}, stop : BOOLEAN,
               result : {"Stopped", "Failed", None}, closed : BOOLEAN]

NotShutDown == [pc |-> "idle", count |-> 0, stopped |-> 0, timed_out |-> FALSE,
                flagged |-> {}]

Waits == [pc : {"idle", "waiting", "returned"}, count : Nat, stopped : Nat,
          timed_out : BOOLEAN, flagged : SUBSET Runs]

Init ==
  /\ vms = [id \in Ids |-> NoEntry]
  /\ disk = [id \in Ids |-> NoDir]
  /\ client = [c \in Clients |-> Idle]
  /\ run = [r \in Runs |-> NewRun("unused", None)]
  /\ completions = 0
  /\ waiter = NotShutDown
  /\ crashes = 0

---------------------------------------------------------------------------
(* The request slots. *)

Reply(c) == client' = [client EXCEPT ![c] = Idle]

GoTo(c, pc) == client' = [client EXCEPT ![c].pc = pc]

Begin(c, pc, id, k, r) ==
  client' = [client EXCEPT
               ![c] = [pc |-> pc, id |-> id, config |-> k, run |-> r, polls |-> 0]]

---------------------------------------------------------------------------
(* The state store.  A write that reports an error leaves the old file or  *)
(* a truncated one.                                                        *)

WriteConfig(id, k) == disk' = [disk EXCEPT ![id].config = k]

ConfigWriteFails(id) ==
  /\ "create" \in Failing
  /\ \E f \in {disk[id].config, "corrupt"} : WriteConfig(id, f)

WriteState(id, s) == disk' = [disk EXCEPT ![id].state = s]

StateWriteFails(op, id) ==
  /\ op \in Failing
  /\ \E f \in {disk[id].state, "corrupt"} : WriteState(id, f)

---------------------------------------------------------------------------
(* create_vm and clone_vm. *)

InsertEntry(c, id, k) ==
  /\ vms[id].state = "Absent"
  /\ vms' = [vms EXCEPT ![id] = StoredEntry("Created", k)]
  /\ Begin(c, "SaveConfig", id, k, None)
  /\ UNCHANGED <<disk, run, completions, waiter, crashes>>

CreateVm(c, id, k) ==
  /\ client[c].pc = "Idle"
  /\ InsertEntry(c, id, k)

\* clone_vm copies the source's config under the lock and releases it ...
CloneRead(c, src, dest) ==
  /\ client[c].pc = "Idle"
  /\ vms[src].state # "Absent"
  /\ Begin(c, "CloneInsert", dest, vms[src].config, None)
  /\ UNCHANGED <<vms, disk, run, completions, waiter, crashes>>

\* ... and then calls create_vm for the destination.
CloneInsert(c) ==
  /\ client[c].pc = "CloneInsert"
  /\ \/ InsertEntry(c, client[c].id, client[c].config)
     \/ /\ vms[client[c].id].state # "Absent"
        /\ Reply(c)
        /\ UNCHANGED <<vms, disk, run, completions, waiter, crashes>>

SaveConfig(c) ==
  /\ client[c].pc = "SaveConfig"
  /\ \/ /\ WriteConfig(client[c].id, client[c].config)
        /\ GoTo(c, "SaveCreated")
     \/ /\ ConfigWriteFails(client[c].id)
        /\ GoTo(c, "Rollback")
  /\ UNCHANGED <<vms, run, completions, waiter, crashes>>

SaveCreated(c) ==
  /\ client[c].pc = "SaveCreated"
  /\ \/ /\ WriteState(client[c].id, "Created")
        /\ Reply(c)
     \/ /\ StateWriteFails("create", client[c].id)
        /\ GoTo(c, "Rollback")
  /\ UNCHANGED <<vms, run, completions, waiter, crashes>>

\* The error path of create_vm removes whatever the map holds for the id.
Rollback(c) ==
  /\ client[c].pc = "Rollback"
  /\ vms' = [vms EXCEPT ![client[c].id] = NoEntry]
  /\ Reply(c)
  /\ UNCHANGED <<disk, run, completions, waiter, crashes>>

---------------------------------------------------------------------------
(* start_vm. *)

\* Mutant: start_vm also accepts a VM that has run.
Startable_NotRunning(id) == vms[id].state \in {"Created", "Stopped", "Failed"}

Startable(id) == vms[id].state = "Created"

\* The locked section: a new stop flag and serial buffer, state Running.
MarkRunning(c, id) ==
  /\ Startable(id)
  /\ \E r \in Runs :
       /\ run[r].pc = "unused"
       /\ run' = [run EXCEPT ![r] = NewRun("starting", id)]
       /\ vms' = [vms EXCEPT ![id].state = "Running", ![id].stop_flag = r,
                             ![id].serial_buf = r]
       /\ Begin(c, "SaveRunning", id, None, r)
  /\ UNCHANGED <<disk, completions, waiter, crashes>>

StartVm(c, id) ==
  /\ client[c].pc = "Idle"
  /\ MarkRunning(c, id)

\* A failed save returns at once: the entry stays Running, nothing is spawned.
SaveRunning(c) ==
  /\ client[c].pc = "SaveRunning"
  /\ \/ /\ WriteState(client[c].id, "Running")
        /\ GoTo(c, "Spawn")
     \/ /\ StateWriteFails("start", client[c].id)
        /\ Reply(c)
  /\ UNCHANGED <<vms, run, completions, waiter, crashes>>

Spawn(c) ==
  /\ client[c].pc = "Spawn"
  /\ run' = [run EXCEPT ![client[c].run].pc = "running"]
  /\ Reply(c)
  /\ UNCHANGED <<vms, disk, completions, waiter, crashes>>

---------------------------------------------------------------------------
(* stop_vm, stop_all and restart_vm. *)

\* Set the stop flags that the entries of the ids in S hold.
SetFlags(S) ==
  run' = [r \in Runs |-> IF \E id \in S : vms[id].stop_flag = r
                           THEN [run[r] EXCEPT !.stop = TRUE] ELSE run[r]]

RunningIds == {id \in Ids : vms[id].state = "Running"}

StopVm(c, id) ==
  /\ client[c].pc = "Idle"
  /\ id \in RunningIds
  /\ SetFlags({id})
  /\ UNCHANGED <<vms, disk, client, completions, waiter, crashes>>

StopAll ==
  /\ SetFlags(RunningIds)
  /\ UNCHANGED <<vms, disk, client, completions, waiter, crashes>>

RestartVm(c, id) ==
  /\ client[c].pc = "Idle"
  /\ id \in RunningIds
  /\ SetFlags({id})
  /\ Begin(c, "Poll", id, None, None)
  /\ UNCHANGED <<vms, disk, completions, waiter, crashes>>

\* Mutant: the loop runs once too often.
LastPoll_OneMore(n) == n = MaxPolls

LastPoll(n) == n + 1 = MaxPolls

\* One round of the polling loop: sleep, get_vm, look at the state.
Poll(c) ==
  /\ client[c].pc = "Poll"
  /\ CASE vms[client[c].id].state = "Absent" -> Reply(c)
       [] vms[client[c].id].state \in {"Stopped", "Failed"} -> GoTo(c, "RestartStart")
       [] OTHER -> IF LastPoll(client[c].polls)
                     THEN Reply(c)
                     ELSE client' = [client EXCEPT ![c].polls = @ + 1]
  /\ UNCHANGED <<vms, disk, run, completions, waiter, crashes>>

\* restart_vm ends with start_vm, which answers as it does to anyone.
RestartStart(c) ==
  /\ client[c].pc = "RestartStart"
  /\ \/ MarkRunning(c, client[c].id)
     \/ /\ ~Startable(client[c].id)
        /\ Reply(c)
        /\ UNCHANGED <<vms, disk, run, completions, waiter, crashes>>

---------------------------------------------------------------------------
(* delete_vm. *)

\* Mutant: the check for Running is missing.
Deletable_EvenRunning(id) == vms[id].state # "Absent"

Deletable(id) == vms[id].state \notin {"Absent", "Running"}

DeleteVm(c, id) ==
  /\ client[c].pc = "Idle"
  /\ Deletable(id)
  /\ vms' = [vms EXCEPT ![id] = NoEntry]
  /\ Begin(c, "DeleteDir", id, None, None)
  /\ UNCHANGED <<disk, run, completions, waiter, crashes>>

\* Mutant: only state.json is removed.
RemovedDir_StateOnly(d) == [d EXCEPT !.state = None]

RemovedDir(d) == NoDir

\* remove_dir_all; when it fails it may have removed either file already.
DeleteDir(c) ==
  /\ client[c].pc = "DeleteDir"
  /\ \/ disk' = [disk EXCEPT ![client[c].id] = RemovedDir(@)]
     \/ /\ "delete" \in Failing
        /\ \E left \in SUBSET {"config", "state"} :
             disk' = [disk EXCEPT ![client[c].id] =
                        [config |-> IF "config" \in left THEN @.config ELSE None,
                         state  |-> IF "state" \in left THEN @.state ELSE None]]
  /\ Reply(c)
  /\ UNCHANGED <<vms, run, completions, waiter, crashes>>

---------------------------------------------------------------------------
(* The task that start_vm spawns. *)

\* boot_and_run returns: Halt, Shutdown and Canceled count as Stopped; an
\* unexpected exit, an error and a panic as Failed.
BootAndRunReturns(r, result) ==
  /\ run[r].pc = "running"
  /\ run' = [run EXCEPT ![r].pc = "exited", ![r].result = result]
  /\ UNCHANGED <<vms, disk, client, completions, waiter, crashes>>

\* Mutants: the stop flag is not cleared; errors leave the state alone.
ExitedEntry_KeepsFlag(e, result) == [e EXCEPT !.state = result]

ExitedEntry_IgnoresErrors(e, result) ==
  [e EXCEPT !.state = IF result = "Failed" THEN @ ELSE result, !.stop_flag = None]

ExitedEntry(e, result) == [e EXCEPT !.state = result, !.stop_flag = None]

\* Mutant: the serial buffer is not closed.
Closes_Nothing(e, r) == FALSE

Closes(e, r) == e.serial_buf = r

\* The locked section after it: the task looks the entry up by name.
RecordExit(r) ==
  /\ run[r].pc = "exited"
  /\ LET id == run[r].id IN
     \/ /\ vms[id].state = "Absent"
        /\ run' = [run EXCEPT ![r].pc = "notify"]
        /\ UNCHANGED vms
     \/ /\ vms[id].state # "Absent"
        /\ vms' = [vms EXCEPT ![id] = ExitedEntry(@, run[r].result)]
        /\ run' = [s \in Runs |->
                     [run[s] EXCEPT !.pc = IF s = r THEN "saving" ELSE @,
                                    !.closed = @ \/ Closes(vms[id], s)]]
  /\ UNCHANGED <<disk, client, completions, waiter, crashes>>

\* The exit state is saved outside the lock; an error is only logged.
SaveExit(r) ==
  /\ run[r].pc = "saving"
  /\ WriteState(run[r].id, run[r].result) \/ StateWriteFails("exit", run[r].id)
  /\ run' = [run EXCEPT ![r].pc = "notify"]
  /\ UNCHANGED <<vms, client, completions, waiter, crashes>>

SendCompletion(r) ==
  /\ run[r].pc = "notify"
  /\ run' = [run EXCEPT ![r].pc = "done"]
  /\ completions' = completions + 1
  /\ UNCHANGED <<vms, disk, client, waiter, crashes>>

---------------------------------------------------------------------------
(* stop_all_and_wait, called once when the daemon shuts down.  Connections *)
(* that are open keep being served meanwhile.  `flagged` is a history      *)
(* field: the runs the call means to wait for.                             *)

StopAllAndWait ==
  /\ waiter.pc = "idle"
  /\ SetFlags(RunningIds)
  /\ waiter' = [NotShutDown EXCEPT
                  !.pc = IF RunningIds = {} THEN "returned" ELSE "waiting",
                  !.count = Cardinality(RunningIds),
                  !.flagged = {r \in Runs : \E id \in RunningIds : vms[id].stop_flag = r}]
  /\ UNCHANGED <<vms, disk, client, completions, crashes>>

\* Mutant: the loop asks for one completion too many.
Drained_OneMore(stopped, count) == stopped > count

Drained(stopped, count) == stopped >= count

\* Any completion counts; the id it carries is not looked at.
WaitReceive ==
  /\ waiter.pc = "waiting"
  /\ completions > 0
  /\ completions' = completions - 1
  /\ waiter' = [waiter EXCEPT !.stopped = @ + 1,
                  !.pc = IF Drained(waiter.stopped + 1, waiter.count) THEN "returned" ELSE @]
  /\ UNCHANGED <<vms, disk, client, run, crashes>>

WaitTimeout ==
  /\ waiter.pc = "waiting"
  /\ waiter' = [waiter EXCEPT !.pc = "returned", !.timed_out = TRUE]
  /\ UNCHANGED <<vms, disk, client, run, completions, crashes>>

---------------------------------------------------------------------------
(* The end of the daemon process (a crash, a kill, or the return of main)  *)
(* and VmManager::new in the next one.                                     *)

\* The files that some thread may be in the middle of writing.
PendingWrites ==
     {<<client[c].id, "config">> : c \in {d \in Clients : client[d].pc = "SaveConfig"}}
  \cup {<<client[c].id, "state">> :
          c \in {d \in Clients : client[d].pc \in {"SaveCreated", "SaveRunning"}}}
  \cup {<<run[r].id, "state">> : r \in {s \in Runs : run[s].pc = "saving"}}

\* The files that some thread may be in the middle of removing.
PendingRemovals ==
  {client[c].id : c \in {d \in Clients : client[d].pc = "DeleteDir"}}
    \X {"config", "state"}

\* A file when the process dies: truncated by a write, removed, or as it was.
TornFile(old, truncated, removed) ==
  IF truncated THEN "corrupt" ELSE IF removed THEN None ELSE old

Torn(W, D) ==
  [id \in Ids |->
     [config |-> TornFile(disk[id].config, <<id, "config">> \in W, <<id, "config">> \in D),
      state  |-> TornFile(disk[id].state, <<id, "state">> \in W, <<id, "state">> \in D)]]

\* Mutant: Running is taken over as it was saved.
LoadState_NoClamp(s) == IF s \in {None, "corrupt"} THEN "Created" ELSE s

\* load_all's reading of state.json: missing and unreadable mean Created.
LoadState(s) ==
  CASE s \in {None, "corrupt"} -> "Created"
    [] s = "Running" -> "Stopped"
    [] OTHER -> s

LoadAll(d) ==
  [id \in Ids |->
     IF d[id].config \in {None, "corrupt"}
       THEN NoEntry
       ELSE StoredEntry(LoadState(d[id].state), d[id].config)]

CrashAndRecover ==
  /\ crashes < MaxCrashes
  /\ \E W \in SUBSET PendingWrites, D \in SUBSET PendingRemovals :
       /\ W \cup D # {} => TornIo
       /\ disk' = Torn(W, D)
       /\ vms' = LoadAll(Torn(W, D))
  /\ client' = [c \in Clients |-> Idle]
  /\ run' = [r \in Runs |-> IF run[r].pc = "unused" THEN run[r]
                              ELSE NewRun("dead", None)]
  /\ completions' = 0
  /\ waiter' = NotShutDown
  /\ crashes' = crashes + 1

---------------------------------------------------------------------------
ClientStep(c) ==
  \/ CloneInsert(c) \/ SaveConfig(c) \/ SaveCreated(c) \/ Rollback(c)
  \/ SaveRunning(c) \/ Spawn(c) \/ Poll(c) \/ RestartStart(c) \/ DeleteDir(c)

ClientRequest(c) ==
  \E id \in Ids :
    \/ \E k \in Configs : CreateVm(c, id, k)
    \/ \E dest \in Ids : CloneRead(c, id, dest)
    \/ StartVm(c, id) \/ StopVm(c, id) \/ RestartVm(c, id) \/ DeleteVm(c, id)

TaskStep(r) == RecordExit(r) \/ SaveExit(r) \/ SendCompletion(r)

Returns(r) == \E result \in {"Stopped", "Failed"} : BootAndRunReturns(r, result)

Next ==
  \/ \E c \in Clients : ClientRequest(c) \/ ClientStep(c)
  \/ \E r \in Runs : Returns(r) \/ TaskStep(r)
  \/ StopAll
  \/ StopAllAndWait \/ WaitReceive \/ WaitTimeout
  \/ CrashAndRecover

Spec == Init /\ [][Next]_vars

\* Threads and tasks that can run do run.  A guest need not exit by itself,
\* but boot_and_run returns once its stop flag is set.  Nothing is assumed
\* of clients' wishes, crashes and the timeout.
FairSpec ==
  /\ Spec
  /\ \A c \in Clients : WF_vars(ClientStep(c))
  /\ \A r \in Runs : WF_vars(TaskStep(r)) /\ WF_vars(run[r].stop /\ Returns(r))
  /\ WF_vars(WaitReceive)

---------------------------------------------------------------------------
(* Properties. *)

\* Type invariant.
TypeOK ==
  /\ vms \in [Ids -> Entries]
  /\ disk \in [Ids -> Dirs]
  /\ client \in [Clients -> Requests]
  /\ run \in [Runs -> RunRecords]
  /\ completions \in Nat
  /\ waiter \in Waits
  /\ crashes \in 0..MaxCrashes

\* The run's task, and with it the hypervisor partition, exists and its end
\* has not been recorded yet.
Live(r) == run[r].pc \in {"running", "exited"}

\* Every VM that executes is the one its name stands for: the entry is
\* Running and holds this run's stop flag, so stop_vm reaches it and
\* delete_vm refuses to orphan it (vm_manager.rs:673-675).
NoOrphan ==
  \A r \in Runs : Live(r) =>
    /\ vms[run[r].id].state = "Running"
    /\ vms[run[r].id].stop_flag = r

\* A Running entry has a task, or a start_vm that is about to spawn one:
\* nobody waits for a VM that was never booted (vm_manager.rs:324-327).
RunningHasTask ==
  \A id \in Ids : vms[id].state = "Running" =>
    \E r \in Runs :
      /\ vms[id].stop_flag = r
      /\ run[r].id = id
      /\ \/ Live(r)
         \/ \E c \in Clients : client[c].pc \in {"SaveRunning", "Spawn"} /\ client[c].run = r

\* The serial stream of a run is closed exactly when its exit is recorded:
\* readers are neither cut off while the VM runs nor left waiting after it.
SerialTracksRun ==
  \A r \in Runs :
    /\ run[r].closed => run[r].pc \in {"saving", "notify", "done"}
    /\ run[r].pc \in {"saving", "notify", "done"} => run[r].closed

\* With no request in progress, the directory of a VM holds its config, and
\* a VM the daemon does not know has no config that a restart would load.
ConfigDurable ==
  (\A c \in Clients : client[c].pc = "Idle") =>
    \A id \in Ids :
      IF vms[id].state = "Absent" THEN disk[id].config \notin Configs
                                  ELSE disk[id].config = vms[id].config

\* A VM that was executing when the daemon died is known to the next daemon,
\* and as one that has run: never as Created (load_all, state_store.rs:75-127).
RanStaysRan ==
  [][crashes' # crashes =>
       \A r \in Runs : run[r].pc = "running" =>
         vms'[run[r].id].state \in {"Stopped", "Failed"}]_vars

\* stop_all_and_wait returns before its timeout only when the VMs it flagged
\* have finished (vm_manager.rs:748-752).
WaitsForAll ==
  waiter.pc = "returned" /\ ~waiter.timed_out =>
    \A r \in waiter.flagged : run[r].pc \in {"saving", "notify", "done"}

\* Once the stop flag of an entry is set, the entry does not stay Running on
\* that flag, whatever start_vm, the task and other requests do meanwhile.
StopTakesEffect ==
  \A r \in Runs :
    LET Held == \E id \in Ids : vms[id].stop_flag = r
    IN (run[r].stop /\ Held) ~> ~Held

\* The shutdown wait ends by the completions alone, without its timeout.
ShutdownDrains == (waiter.pc = "waiting") ~> (waiter.pc # "waiting")

---------------------------------------------------------------------------
(* Refinement: what clients may rely on. *)

Lifecycle == INSTANCE VmLifecycle WITH
  life <- [id \in Ids |-> vms[id].state],
  live <- {run[r].id : r \in {s \in Runs : Live(s)}}

\* Through all of its interleavings the manager follows the life cycle and
\* executes guests only under names that are Running, one partition each.
ImplementsLifecycle == Lifecycle!Spec
=============================================================================
