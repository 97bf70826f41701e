---------------------------- MODULE DaemonProofs ----------------------------
(***************************************************************************)
(* Proofs about Daemon for every set of VM configurations and every number *)
(* of connections.                                                         *)
(***************************************************************************)
EXTENDS Daemon, TLAPS

\* Where the process has not built its runtime's server yet, and where the
\* runtime has dropped it.
Before == {"off", "parse", "runtime", "inner", "abandoned"}
After == {"rt_wait", "flush", "end"}

SvcRecords ==
  [pc : Before \cup After \cup {"serving", "stop_all", "wait", "join", "rt_shutdown"},
   service : BOOLEAN, tcp : BOOLEAN,
   result : {"ok", "error"}, timed_out : BOOLEAN]

VmRecords ==
  [pc : {"none", "forward", "binding", "run", "recorded", "notified", "done", "cancelled"},
   config : VmConfigs \cup {NoConfig}, flag : BOOLEAN, waited : BOOLEAN]

TypeInv ==
  /\ installed \in BOOLEAN /\ early \in BOOLEAN
  /\ svc \in SvcRecords
  /\ scm \in {"Stopped", "StartPending", "Running"}
  /\ stop \in BOOLEAN /\ shut \in BOOLEAN
  /\ pipe \in {"none", "create", "wait", "ended"}
  /\ tcp \in {"none", "bind", "wait", "ended"}
  /\ conns \in Nat /\ accepted \in Nat
  /\ vm \in VmRecords
  /\ thread \in {"none", "setup", "guest", "drop_net", "ended"}

\* No server and no VM before run_daemon_inner.
NotYet ==
  svc.pc \in Before =>
    /\ pipe = "none" /\ tcp = "none" /\ conns = 0
    /\ vm.pc = "none" /\ thread = "none" /\ ~early

\* Nothing of the server is left once the runtime is shut down.
ServerGone ==
  svc.pc \in After => pipe \in {"none", "ended"} /\ tcp \in {"none", "ended"} /\ conns = 0

\* stop_all_and_wait is the first to wait for a VM; when it goes on without a
\* timeout the VM has reported, and the runtime cannot cancel a task that has
\* recorded its exit and not ended.
WaitedFor ==
  /\ vm.waited => svc.pc \in {"wait", "join", "rt_shutdown"} \cup After /\ vm.pc # "none"
  /\ vm.waited /\ ~svc.timed_out =>
       /\ svc.pc \in {"join", "rt_shutdown"} => vm.pc \in {"notified", "done"}
       /\ svc.pc \in After => vm.pc = "done"

\* stop_all_and_wait misses no VM that was started before it looked: it waits
\* for it unless its exit is recorded already, and no step takes that back.
Missed ==
  early =>
    /\ svc.pc \in {"serving", "stop_all"} => vm.pc # "cancelled"
    /\ svc.pc \in {"wait", "join", "rt_shutdown"} =>
         vm.waited \/ vm.pc \in {"recorded", "notified", "done"}
    /\ svc.pc \in After => vm.waited \/ vm.pc = "done"
    /\ vm.pc # "none"

\* The runtime has waited for the blocking thread.
ThreadGone == svc.pc \in {"flush", "end"} /\ ~svc.timed_out => BlockingDone

Inv == TypeInv /\ NotYet /\ ServerGone /\ WaitedFor /\ Missed /\ ThreadGone

---------------------------------------------------------------------------

LEMMA InitInv == Init => Inv
<1> SUFFICES ASSUME Init PROVE Inv
  OBVIOUS
<1>1. svc \in SvcRecords /\ svc.pc = "off"
  BY DEF Init, SvcInit, SvcRecords, Before
<1>2. vm \in VmRecords /\ vm.pc = "none" /\ ~vm.waited
  BY DEF Init, VmInit, VmRecords
<1>3. TypeInv
  BY <1>1, <1>2 DEF Init, SvcInit, VmInit, TypeInv
<1> QED
  BY <1>1, <1>2, <1>3 DEF Init, SvcInit, VmInit, Inv, NotYet, ServerGone,
                          WaitedFor, Missed, ThreadGone, After

\* What an assignment to the pc alone leaves of the record.
LEMMA GoToEffect ==
  ASSUME TypeInv, NEW pc \in Before \cup After \cup {"serving", "stop_all", "wait", "join", "rt_shutdown"},
         GoTo(pc)
  PROVE  /\ svc' \in SvcRecords
         /\ svc'.pc = pc
         /\ svc'.tcp = svc.tcp
         /\ svc'.timed_out = svc.timed_out
  BY DEF TypeInv, SvcRecords, GoTo

\* The same with an error, and with a timeout.
LEMMA FailEffect ==
  ASSUME TypeInv, NEW pc \in Before \cup After \cup {"rt_shutdown"},
         svc' = [svc EXCEPT !.pc = pc, !.result = "error"]
  PROVE  /\ svc' \in SvcRecords
         /\ svc'.pc = pc
         /\ svc'.tcp = svc.tcp
         /\ svc'.timed_out = svc.timed_out
  BY DEF TypeInv, SvcRecords

LEMMA TimesOutEffect ==
  ASSUME TypeInv, NEW pc \in {"wait", "rt_wait"}, NEW next \in {"join", "flush"},
         TimesOut(pc, next)
  PROVE  /\ svc' \in SvcRecords
         /\ svc.pc = pc /\ svc'.pc = next /\ svc'.timed_out
        
  BY DEF TypeInv, SvcRecords, TimesOut, After

\* An assignment to the pc of the task.
LEMMA VmEffect ==
  ASSUME TypeInv,
         NEW pc \in {"forward", "binding", "run", "recorded", "notified", "done", "cancelled"},
         vm' = [vm EXCEPT !.pc = pc]
  PROVE  vm' \in VmRecords /\ vm'.pc = pc /\ vm'.waited = vm.waited
  BY DEF TypeInv, VmRecords

LEMMA ConfigInv ==
  ASSUME Inv,
         \/ \E tcp_listen \in BOOLEAN : Svc(StartForeground(tcp_listen))
         \/ Svc(InstallService) \/ Svc(RemoveService) \/ Svc(StartService)
         \/ Svc(StopControl) \/ Svc(CtrlC)
  PROVE  Inv'
<1> USE DEF Inv, TypeInv, SvcRecords, VmRecords, NotYet,
        ServerGone, WaitedFor, Missed, ThreadGone, BlockingDone, Before, After,
        Svc, svcVars, vmVars, GoTo
<1>1. CASE Svc(InstallService)
  BY <1>1 DEF InstallService
<1>2. ASSUME NEW tcp_listen \in BOOLEAN, Svc(StartForeground(tcp_listen)) PROVE Inv'
  BY <1>2 DEF StartForeground
<1>3. CASE Svc(RemoveService)
  <2>1. installed' \in BOOLEAN /\ stop' \in BOOLEAN
    BY <1>3 DEF RemoveService
  <2>2. UNCHANGED <<svc, scm, shut, pipe, tcp, conns, accepted, vm, thread, early>>
    BY <1>3 DEF RemoveService
  <2> QED BY <2>1, <2>2
<1>4. CASE Svc(StartService)
  BY <1>4 DEF StartService
<1>5. CASE Svc(StopControl)
  BY <1>5 DEF StopControl
<1>6. CASE Svc(CtrlC)
  <2>1. CASE svc.pc \in {"runtime", "inner"}
    <3>1. GoTo("end")
      BY <1>6, <2>1 DEF CtrlC
    <3>2. /\ svc' \in SvcRecords /\ svc'.pc = "end"
          /\ svc'.timed_out = svc.timed_out
      BY <3>1, GoToEffect
    <3> QED BY <1>6, <2>1, <3>2 DEF CtrlC
  <2>2. CASE svc.pc \notin {"runtime", "inner"}
    BY <1>6, <2>2 DEF CtrlC
  <2> QED BY <2>1, <2>2
<1> QED BY <1>1, <1>2, <1>3, <1>4, <1>5, <1>6

LEMMA MainStepInv ==
  ASSUME Inv, Svc(MainStep)
  PROVE  Inv'
<1> USE DEF Inv, TypeInv, SvcRecords, VmRecords, NotYet,
        ServerGone, WaitedFor, Missed, ThreadGone, BlockingDone, Before, After,
        Svc, svcVars, vmVars, GoTo
<1>1. CASE ParseServiceArgs
  <2>1. CASE /\ scm' = "Running"
             /\ \E tcp_listen \in BOOLEAN : svc' = [svc EXCEPT !.pc = "runtime", !.tcp = tcp_listen]
    <3>1. svc' \in SvcRecords /\ svc'.pc = "runtime" /\ svc'.timed_out = svc.timed_out
      BY <2>1
    <3> QED BY <1>1, <2>1, <3>1 DEF ParseServiceArgs
  <2>2. CASE GoTo("abandoned") /\ scm' = scm
    BY <1>1, <2>2, GoToEffect DEF ParseServiceArgs
  <2> QED BY <1>1, <2>1, <2>2 DEF ParseServiceArgs
<1>2. CASE NewRuntime
  <2>1. CASE GoTo("inner") \/ GoTo("abandoned")
    BY <1>2, <2>1, GoToEffect DEF NewRuntime
  <2>2. CASE svc' = [svc EXCEPT !.pc = "end", !.result = "error"]
    <3>1. /\ svc' \in SvcRecords /\ svc'.pc = "end"
          /\ svc'.timed_out = svc.timed_out
      BY <2>2, FailEffect
    <3> QED BY <1>2, <3>1 DEF NewRuntime
  <2> QED BY <1>2, <2>1, <2>2 DEF NewRuntime
<1>3. CASE EnterInner
  <2>1. CASE GoTo("serving") /\ pipe' = "create" /\ tcp' = IF svc.tcp THEN "bind" ELSE "none"
    <3>1. /\ svc' \in SvcRecords /\ svc'.pc = "serving"
          /\ svc'.timed_out = svc.timed_out
      BY <2>1, GoToEffect
    <3> QED BY <1>3, <2>1, <3>1 DEF EnterInner
  <2>2. CASE svc' = [svc EXCEPT !.pc = "rt_shutdown", !.result = "error"] /\ UNCHANGED <<pipe, tcp>>
    <3>1. /\ svc' \in SvcRecords /\ svc'.pc = "rt_shutdown"
          /\ svc'.timed_out = svc.timed_out
      BY <2>2, FailEffect
    <3> QED BY <1>3, <2>2, <3>1 DEF EnterInner
  <2> QED BY <1>3, <2>1, <2>2 DEF EnterInner
<1>4. CASE SignalListeners
  BY <1>4 DEF SignalListeners
<1>5. CASE JoinServer
  BY <1>5 DEF JoinServer
<1>6. CASE Finish
  BY <1>6 DEF Finish
<1> QED BY <1>1, <1>2, <1>3, <1>4, <1>5, <1>6 DEF MainStep

LEMMA StopInv ==
  ASSUME Inv, StopAll \/ WaitVms \/ RtShutdown \/ RtJoined \/ Timers
  PROVE  Inv'
<1> USE DEF Inv, TypeInv, SvcRecords, VmRecords, NotYet,
        ServerGone, WaitedFor, Missed, ThreadGone, BlockingDone, Before, After,
        Svc, svcVars, vmVars, GoTo, Await, TimesOut
<1>1. CASE StopAll
  <2>1. CASE IsRunning
    <3>1. GoTo("wait") /\ vm' = [vm EXCEPT !.flag = TRUE, !.waited = TRUE]
      BY <1>1, <2>1 DEF StopAll
    <3>2. vm' \in VmRecords /\ vm'.pc = vm.pc /\ vm.pc # "none"
      BY <2>1, <3>1 DEF IsRunning
    <3>3. /\ svc' \in SvcRecords /\ svc'.pc = "wait"
      BY <3>1, GoToEffect
    <3> QED BY <1>1, <3>2, <3>3 DEF StopAll
  <2>2. CASE ~IsRunning
    <3>1. GoTo("join") /\ vm' = vm
      BY <1>1, <2>2 DEF StopAll
    <3>2. /\ svc' \in SvcRecords /\ svc'.pc = "join"
      BY <3>1, GoToEffect
    <3>3. early => vm.pc \in {"recorded", "notified", "done"}
      BY <1>1, <2>2 DEF StopAll, IsRunning
    <3> QED BY <1>1, <3>1, <3>2, <3>3 DEF StopAll
  <2> QED BY <2>1, <2>2
<1>2. CASE WaitVms
  BY <1>2 DEF WaitVms, Completed
<1>3. CASE RtShutdown
  BY <1>3 DEF RtShutdown, CancelServer, CancelTask
<1>4. CASE RtJoined
  BY <1>4 DEF RtJoined
<1>5. CASE WaitTimesOut
  <2>1. /\ svc' \in SvcRecords /\ svc.pc = "wait" /\ svc'.pc = "join" /\ svc'.timed_out
       
    BY <1>5, TimesOutEffect DEF WaitTimesOut
  <2> QED BY <1>5, <2>1 DEF WaitTimesOut
<1>6. CASE RtTimesOut
  <2>1. /\ svc' \in SvcRecords /\ svc.pc = "rt_wait" /\ svc'.pc = "flush" /\ svc'.timed_out
       
    BY <1>6, TimesOutEffect DEF RtTimesOut
  <2> QED BY <1>6, <2>1 DEF RtTimesOut
<1> QED BY <1>1, <1>2, <1>3, <1>4, <1>5, <1>6 DEF Timers

LEMMA ListenerInv ==
  ASSUME Inv, Async,
         \/ Svc(PipeConnects \/ TcpConnects \/ Disconnect)
         \/ Svc(Listening \/ PipeShutsDown \/ TcpShutsDown)
  PROVE  Inv'
<1> USE DEF Inv, TypeInv, SvcRecords, VmRecords, NotYet,
        ServerGone, WaitedFor, Missed, ThreadGone, BlockingDone, Before, After,
        Svc, svcVars, vmVars, Async
<1>1. CASE PipeConnects
  BY <1>1 DEF PipeConnects, Connected
<1>2. CASE TcpConnects
  BY <1>2 DEF TcpConnects, Connected
<1>3. CASE Disconnect
  BY <1>3 DEF Disconnect
<1>4. CASE CreatePipe
  BY <1>4 DEF CreatePipe
<1>5. CASE BindTcp
  BY <1>5 DEF BindTcp
<1>6. CASE PipeShutsDown
  BY <1>6 DEF PipeShutsDown
<1>7. CASE TcpShutsDown
  BY <1>7 DEF TcpShutsDown
<1> QED BY <1>1, <1>2, <1>3, <1>4, <1>5, <1>6, <1>7 DEF Listening

LEMMA VmInv ==
  ASSUME Inv,
         \/ \E k \in VmConfigs : Request(Start(k))
         \/ Request(Stop) \/ Thread(GuestExits) \/ VmSteps \/ BootSteps
  PROVE  Inv'
<1> USE DEF Inv, TypeInv, SvcRecords, VmRecords, NotYet,
        ServerGone, WaitedFor, Missed, ThreadGone, BlockingDone, Before, After,
        Request, Task, Thread, svcVars, vmVars, Async, Alive
<1>1. ASSUME NEW k \in VmConfigs, Request(Start(k)) PROVE Inv'
  <2>1. vm' \in VmRecords /\ vm'.pc = "forward" /\ vm'.waited = vm.waited /\ vm.pc = "none"
    BY <1>1 DEF Start, StartVm
  <2>2. svc' = svc /\ thread' = thread /\ svc.pc \notin Before \cup After
    BY <1>1 DEF Start, StartVm
  <2>3. ~vm'.waited
    BY <2>1
  <2>4. TypeInv'
    <3>1. UNCHANGED <<installed, svc, scm, stop, shut, pipe, tcp, conns, accepted, thread>>
      BY <1>1 DEF Start, StartVm
    <3>2. vm' \in VmRecords /\ early' \in BOOLEAN
      BY <1>1, <2>1 DEF Start
    <3> QED BY <3>1, <3>2
  <2>5. WaitedFor' /\ NotYet'
    BY <2>2, <2>3
  <2>6. ServerGone' /\ ThreadGone'
    BY <2>2
  <2>7. Missed'
    <3>1. early' => svc.pc \in {"serving", "stop_all"}
      BY <1>1 DEF Start
    <3> QED BY <2>1, <2>2, <3>1
  <2> QED BY <2>4, <2>5, <2>6, <2>7
<1>2. CASE Request(Stop)
  <2>1. vm' \in VmRecords /\ vm'.pc = vm.pc /\ vm'.waited = vm.waited
    BY <1>2 DEF Stop, StopVm
  <2> QED BY <1>2, <2>1 DEF Stop, StopVm
<1>3. CASE Thread(GuestExits)
  BY <1>3 DEF GuestExits
<1>4. CASE Task(TaskForwards)
  <2>1. vm' \in VmRecords /\ vm'.pc = "binding" /\ vm'.waited = vm.waited
    BY <1>4, VmEffect DEF TaskForwards
  <2> QED BY <1>4, <2>1 DEF TaskForwards
<1>5. CASE Task(TaskBoots)
  <2>1. vm' \in VmRecords /\ vm'.pc = "run" /\ vm'.waited = vm.waited
    BY <1>5, VmEffect DEF TaskBoots
  <2> QED BY <1>5, <2>1 DEF TaskBoots
<1>6. CASE Task(TaskRecords)
  <2>1. vm' \in VmRecords /\ vm'.pc = "recorded" /\ vm'.waited = vm.waited
    BY <1>6, VmEffect DEF TaskRecords
  <2> QED BY <1>6, <2>1 DEF TaskRecords
<1>7. CASE Task(TaskNotifies)
  <2>1. vm' \in VmRecords /\ vm'.pc = "notified" /\ vm'.waited = vm.waited
    BY <1>7, VmEffect DEF TaskNotifies
  <2> QED BY <1>7, <2>1 DEF TaskNotifies
<1>8. CASE Task(TaskEnds)
  <2>1. vm' \in VmRecords /\ vm'.pc = "done" /\ vm'.waited = vm.waited
    BY <1>8, VmEffect DEF TaskEnds
  <2> QED BY <1>8, <2>1 DEF TaskEnds
<1>9. CASE Thread(BootGuest \/ BootFails \/ BootReturns)
  BY <1>9 DEF BootGuest, BootFails, BootReturns
<1> QED BY <1>1, <1>2, <1>3, <1>4, <1>5, <1>6, <1>7, <1>8, <1>9 DEF VmSteps, BootSteps

LEMMA StepInv == ASSUME Inv, [Next]_vars PROVE Inv'
<1>1. CASE Environment
  BY <1>1, ConfigInv, ListenerInv, VmInv DEF Environment
<1>2. CASE ServiceThread \/ Timers
  BY <1>2, MainStepInv, StopInv DEF ServiceThread
<1>3. CASE VmSteps \/ BootSteps
  BY <1>3, VmInv
<1>4. CASE Async /\ Svc(Listening \/ PipeShutsDown \/ TcpShutsDown)
  BY <1>4, ListenerInv
<1>5. CASE UNCHANGED vars
  BY <1>5 DEF vars, svcVars, vmVars, Inv, TypeInv, NotYet, ServerGone,
              WaitedFor, Missed, ThreadGone, BlockingDone
<1> QED BY <1>1, <1>2, <1>3, <1>4, <1>5 DEF Next

\* The inductive invariant.
THEOREM Invariance == Spec => []Inv
  BY InitInv, StepInv, PTL DEF Spec

\* Whatever it was started with and however it goes down, a daemon that is down
\* leaves no listener and no connection; unless a timeout cut the way down
\* short, no guest of the VM executes, and if the VM was started before
\* stop_all_and_wait looked for VMs its exit has been recorded.  This is for one
\* VM that is started once: completions of earlier runs are the business of
\* VmManager (main.rs, run_daemon_inner and shutdown_timeout; vm_manager.rs,
\* stop_all_and_wait).
THEOREM QuietWhenStoppedHolds == Spec => []QuietWhenStopped
<1>1. Inv => QuietWhenStopped
  BY DEF Inv, ServerGone, WaitedFor, Missed, ThreadGone, QuietWhenStopped, After
<1> QED BY <1>1, Invariance, PTL
=============================================================================
