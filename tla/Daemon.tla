------------------------------- MODULE Daemon -------------------------------
(***************************************************************************)
(* The daemon process with a VM: requests of open connections, and the way *)
(* down through stop_all_and_wait (hitz-daemon: vm_manager.rs) and the end *)
(* of the runtime (hitz-cli: main.rs).                                     *)
(***************************************************************************)
EXTENDS DaemonService, VmTask

VARIABLES
  early       \* the VM was started before stop_all_and_wait looked for VMs

vars == <<svcVars, vmVars, early>>

Init == SvcInit /\ VmInit /\ early = FALSE

\* The process exists, and the runtime executes tasks.
Alive == svc.pc # "end"
Async == svc.pc \in {"serving", "stop_all", "wait", "join", "rt_shutdown"}

Svc(A) == A /\ UNCHANGED <<vmVars, early>>
Request(A) == Async /\ conns > 0 /\ A /\ UNCHANGED svcVars
Task(A) == Async /\ A /\ UNCHANGED <<svcVars, early>>
Thread(A) == Alive /\ A /\ UNCHANGED <<svcVars, early>>

\* Connections are served until the runtime is shut down.
Start(k) == StartVm(k) /\ early' = (svc.pc \in {"serving", "stop_all"})
Stop == StopVm /\ UNCHANGED early

Await(pc, next) ==
  /\ svc.pc = pc
  /\ GoTo(next)
  /\ UNCHANGED <<installed, scm, stop, shut, pipe, tcp, conns, accepted>>

---------------------------------------------------------------------------
(* stop_all_and_wait. *)

\* Running VMs are flagged, and waited for.
StopAll ==
  /\ Await("stop_all", IF IsRunning THEN "wait" ELSE "join")
  /\ vm' = IF IsRunning THEN [vm EXCEPT !.flag = TRUE, !.waited = TRUE] ELSE vm
  /\ UNCHANGED <<thread, early>>

\* A bug to be caught: the wait ends when the guest has.
Completed_AtExit == thread = "ended"

\* The completion of the VM is in the channel.
Completed == vm.pc \in {"notified", "done"}

WaitVms == Completed /\ Svc(Await("wait", "join"))

TimesOut(pc, next) ==
  /\ svc.pc = pc
  /\ svc' = [svc EXCEPT !.pc = next, !.timed_out = TRUE]
  /\ UNCHANGED <<installed, scm, stop, shut, pipe, tcp, conns, accepted, vmVars, early>>

WaitTimesOut == TimesOut("wait", "join")

---------------------------------------------------------------------------
(* Runtime::shutdown_timeout. *)

RtShutdown == CancelServer /\ CancelTask /\ UNCHANGED early

BlockingDone == thread \in {"none", "ended"}

RtJoined == BlockingDone /\ Svc(Await("rt_wait", "flush"))

RtTimesOut == ~BlockingDone /\ TimesOut("rt_wait", "flush")

---------------------------------------------------------------------------

Environment ==
  \/ \E tcp_listen \in BOOLEAN : Svc(StartForeground(tcp_listen))
  \/ Svc(InstallService) \/ Svc(RemoveService) \/ Svc(StartService)
  \/ Svc(StopControl) \/ Svc(CtrlC)
  \/ Async /\ Svc(PipeConnects \/ TcpConnects \/ Disconnect)
  \/ \E k \in VmConfigs : Request(Start(k))
  \/ Request(Stop)
  \/ Thread(GuestExits)

ServiceThread == Svc(MainStep) \/ StopAll \/ WaitVms \/ RtShutdown \/ RtJoined
Timers == WaitTimesOut \/ RtTimesOut
VmSteps == Task(TaskForwards \/ TaskBoots \/ TaskRecords \/ TaskNotifies \/ TaskEnds)
BootSteps == Thread(BootGuest \/ BootFails \/ BootReturns)

Next ==
  \/ Environment \/ ServiceThread \/ Timers \/ VmSteps \/ BootSteps
  \/ Async /\ Svc(Listening \/ PipeShutsDown \/ TcpShutsDown)

Spec == Init /\ [][Next]_vars

\* Threads and tasks that can go on do, timers fire.  A select! that finds
\* both a client and the shutdown ready picks at random, so that it cannot
\* miss the shutdown for ever.  Nothing makes a guest exit.
FairSpec ==
  /\ Spec
  /\ WF_vars(ServiceThread) /\ WF_vars(Timers) /\ WF_vars(VmSteps)
  /\ WF_vars(Async /\ Svc(Listening))
  /\ SF_vars(Async /\ Svc(PipeShutsDown)) /\ SF_vars(Async /\ Svc(TcpShutsDown))

---------------------------------------------------------------------------
(* Properties. *)

\* A stop that reaches a daemon ends the process, whatever its guest, its
\* clients and its listeners do, unless run_service had failed before it was
\* ready to wait for the stop (main.rs:652-681).
StopEnds == stop ~> svc.pc \in {"end", "abandoned"}

\* Once the daemon is down: no listener and no connection is left, and unless
\* a timeout has cut it short no guest executes, and the exit of a VM that was
\* started before stop_all_and_wait looked has been recorded, wherever its task
\* and its thread were at that moment (main.rs:920-927, 699-705).
QuietWhenStopped ==
  svc.pc \in {"flush", "end"} =>
    /\ pipe \in {"none", "ended"} /\ tcp \in {"none", "ended"} /\ conns = 0
    /\ ~svc.timed_out => BlockingDone
    /\ early /\ ~svc.timed_out => vm.pc = "done"
=============================================================================
