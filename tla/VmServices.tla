----------------------------- MODULE VmServices -----------------------------
(***************************************************************************)
(* What a VM brings with it on the host: the port forwarder, the network   *)
(* I/O thread and the metrics task, from the start of its task to their    *)
(* ends (hitz-daemon: vm_manager.rs; hitz-vmm: vm.rs).  The runtime may go *)
(* away at any time, which is what the end of the daemon does; the         *)
(* blocking thread and the network thread are not tasks of it.             *)
(***************************************************************************)
EXTENDS VmTask, PortForward, NetIo, MetricsTask

CONSTANTS
  GuestFrames,  \* frames a guest may send
  HostPackets,  \* packets the host's stack may send
  MaxFrames(_), \* bound on the frames that the guest of a VM sends
  MaxPackets(_) \* bound on the packets that the host sends to a VM

\* Frames have lengths, and an IP frame carries a packet.
ASSUME FramesAssumption ==
  \A f \in GuestFrames :
    /\ f.len \in Nat
    /\ f.type \in {"ipv4", "ipv6"} => f.body \in [version : 0..15, len : Nat]

VARIABLE rt     \* the runtime: "up" or "down"

vars == <<fwdVars, netVars, metVars, vmVars, rt>>

Init == VmInit /\ FwdInit /\ NetInit /\ MetInit /\ rt = "up"

Fwd(A) == rt = "up" /\ A /\ UNCHANGED <<netVars, metVars, vmVars, rt>>
Net(A) == A /\ UNCHANGED <<fwdVars, metVars, vmVars, rt>>
Met(A) == rt = "up" /\ A /\ UNCHANGED <<fwdVars, netVars, vmVars, rt>>
Agent(A) == thread = "guest" /\ A /\ UNCHANGED <<fwdVars, netVars, vmVars, rt>>
Task(A) == rt = "up" /\ A /\ UNCHANGED <<netVars, metVars, rt>>
Thread(A) == A /\ UNCHANGED <<fwdVars, metVars, rt>>

---------------------------------------------------------------------------

\* start_vm: with an agent, the channels and the metrics task come first.
Start(k) ==
  /\ rt = "up" /\ StartVm(k)
  /\ IF k.agent = "none" THEN UNCHANGED metVars ELSE StartMetrics
  /\ UNCHANGED <<fwdVars, netVars, rt>>

Forward == Task(TaskForwards /\ StartForwarding(IF vm.config.net /\ vm.config.ports THEN Rules ELSE {}))

TaskStep ==
  \/ Forward
  \/ Task(fwd # "binding" /\ TaskBoots /\ UNCHANGED fwdVars)
  \/ Task((TaskRecords \/ TaskNotifies) /\ UNCHANGED fwdVars)
  \/ Task(TaskEnds /\ DropForwarding)

\* setup_devices starts the network thread if the VM has networking.
Boot ==
  \/ Thread(BootGuest /\ IF vm.config.net THEN StartNetIo ELSE UNCHANGED netVars)
  \/ Thread(BootFails /\ UNCHANGED netVars)

\* The drop of the handle sets the stop flag and joins the thread.
Exit == Thread(GuestExits /\ StopNetIo)

Return == Thread(BootReturns /\ Joined /\ UNCHANGED netVars)

\* Runtime::shutdown_timeout: tasks are dropped where they await.
RtShutdown ==
  /\ rt = "up" /\ rt' = "down"
  /\ \A r \in Rules : listener[r].pc \notin {"hold", "push"}
  /\ CancelTask /\ CancelForwarding /\ CancelMetrics
  /\ UNCHANGED netVars

---------------------------------------------------------------------------

Traffic ==
  \/ /\ thread = "guest" /\ net.pc # "none" /\ Len(sent) < MaxFrames(vm.config)
     /\ \E f \in GuestFrames : Net(GuestSends(f))
  \/ /\ net.pc # "none" /\ Len(arrived) < MaxPackets(vm.config)
     /\ \E p \in HostPackets : Net(HostSends(p))
  \/ Net(ReceiveFails)
  \/ \E r \in Rules, c \in Conns : Fwd(Accept(r, c))
  \/ \E c \in Conns : Fwd(RelayEnds(c))
  \/ Agent(PushConnects \/ SendSnapshot \/ PushTimesOut \/ OthersSend)
  \/ Agent(vm.config.agent # "none" /\ AgentStarts(vm.config.agent = "custom"))

ForwardTasks ==
  \/ \E r \in Rules : Fwd(ListenerStep(r))
  \/ \E c \in Conns : Fwd(RelayCancelled(c))

\* The channel closes when the devices are dropped, before the network handle.
DevicesDropped == thread \in {"drop_net", "ended"}
ShutdownSignal == \E what \in {"sent", "gone"} : Met(Signal(what))
MetricsSteps == Met(TaskSteps(~DevicesDropped))
MetricsReader == ReaderStep(~DevicesDropped) /\ UNCHANGED <<fwdVars, netVars, vmVars, rt>>

Next ==
  \/ \E k \in VmConfigs : Start(k)
  \/ TaskStep \/ Boot \/ Exit \/ Return \/ RtShutdown
  \/ Traffic \/ ForwardTasks \/ Net(NetThread)
  \/ MetricsSteps \/ MetricsReader \/ ShutdownSignal

Spec == Init /\ [][Next]_vars

\* Threads and tasks that can go on do.  Nothing makes a guest exit.
FairSpec ==
  /\ Spec
  /\ WF_vars(TaskStep) /\ WF_vars(Boot \/ Return) /\ WF_vars(Net(NetThread))
  /\ WF_vars(ForwardTasks) /\ WF_vars(MetricsSteps) /\ WF_vars(MetricsReader)

---------------------------------------------------------------------------
(* Properties. *)

\* When a guest has exited, all that its VM brought along ends: the join of
\* the network thread returns, the metrics task sees its channel close and so
\* does a blocking thread that it left behind, the listeners close
\* (wintun_io.rs:28-30, vsock_server.rs:14 and 41, vm_manager.rs:452).
ExitDrains ==
  (thread = "drop_net") ~>
    /\ thread = "ended"
    /\ net.pc \in {"none", "ended"}
    /\ task \in {"none", "closed", "stopped"} /\ reader # "recv"
    /\ \A r \in Rules : listener[r].pc \in {"none", "unbound", "closed"}
=============================================================================
