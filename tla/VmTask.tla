------------------------------- MODULE VmTask -------------------------------
(***************************************************************************)
(* The task that start_vm spawns and the blocking thread in which it calls *)
(* boot_and_run (hitz-daemon: vm_manager.rs; hitz-vmm: vm.rs), for one VM. *)
(* The steps here are combined with those of the daemon in Daemon and with *)
(* those of the services of the VM in VmServices.                          *)
(***************************************************************************)
CONSTANTS
  VmConfigs    \* what a VM may have: networking, forwards, an agent

VARIABLES
  vm,      \* the task: its pc, the VM's configuration and stop flag, and
           \* whether stop_all_and_wait waits for it
  thread   \* boot_and_run: "none", "setup", "guest", "drop_net", "ended"

vmVars == <<vm, thread>>

NoConfig == [net |-> FALSE, ports |-> FALSE, agent |-> "none"]

VmInit ==
  /\ vm = [pc |-> "none", config |-> NoConfig, flag |-> FALSE, waited |-> FALSE]
  /\ thread = "none"

\* The entry of the VM is Running.
IsRunning == vm.pc \in {"forward", "binding", "run"}

StartVm(k) ==
  /\ vm.pc = "none"
  /\ vm' = [vm EXCEPT !.pc = "forward", !.config = k]
  /\ UNCHANGED thread

StopVm ==
  /\ IsRunning /\ ~vm.flag
  /\ vm' = [vm EXCEPT !.flag = TRUE]
  /\ UNCHANGED thread

---------------------------------------------------------------------------
(* The task. *)

\* start_port_forwarding begins ...
TaskForwards ==
  /\ vm.pc = "forward"
  /\ vm' = [vm EXCEPT !.pc = "binding"]
  /\ UNCHANGED thread

\* ... and has returned; the blocking thread is spawned.
TaskBoots ==
  /\ vm.pc = "binding"
  /\ vm' = [vm EXCEPT !.pc = "run"]
  /\ thread' = "setup"

\* boot_and_run has returned: the exit is recorded under the lock and saved.
TaskRecords ==
  /\ vm.pc = "run" /\ thread = "ended"
  /\ vm' = [vm EXCEPT !.pc = "recorded"]
  /\ UNCHANGED thread

TaskNotifies ==
  /\ vm.pc = "recorded"
  /\ vm' = [vm EXCEPT !.pc = "notified"]
  /\ UNCHANGED thread

\* The end of the async block, where `_port_fwd` is dropped.
TaskEnds ==
  /\ vm.pc = "notified"
  /\ vm' = [vm EXCEPT !.pc = "done"]
  /\ UNCHANGED thread

\* The runtime drops the task where it awaits: not between the recording and
\* the end, which have no await between them.
CancelTask ==
  /\ vm.pc \notin {"recorded", "notified"}
  /\ vm' = IF vm.pc \in {"none", "done"} THEN vm ELSE [vm EXCEPT !.pc = "cancelled"]
  /\ UNCHANGED thread

---------------------------------------------------------------------------
(* boot_and_run, as far as it concerns the host. *)

\* The devices are set up, or booting fails.
BootGuest ==
  /\ thread = "setup"
  /\ thread' = "guest"
  /\ UNCHANGED vm

BootFails ==
  /\ thread = "setup"
  /\ thread' = "ended"
  /\ UNCHANGED vm

\* The guest stops by itself, or because its flag is set (VcpuThreads); then
\* the handle of the network thread is dropped.
GuestExits ==
  /\ thread = "guest"
  /\ thread' = "drop_net"
  /\ UNCHANGED vm

\* The drop has joined that thread.
BootReturns ==
  /\ thread = "drop_net"
  /\ thread' = "ended"
  /\ UNCHANGED vm
=============================================================================
