---------------------------- MODULE VcpuThreads ----------------------------
(***************************************************************************)
(* The threads behind one boot_and_run (hitz-vmm: vm.rs, run_loop.rs): the *)
(* vCPU threads with their run loops, the cancel watchdog, and the thread  *)
(* that collects the vCPUs' results.  With one vCPU the run loop executes  *)
(* on the calling thread (run_single_vcpu), otherwise each vCPU gets its   *)
(* own (run_multi_vcpu).                                                   *)
(*                                                                         *)
(* Devices are reduced to the mutex around them: an access works, fails or *)
(* panics.  cancel_via is the hypervisor's: a request that ends the run    *)
(* call in progress, or else the next one.                                 *)
(***************************************************************************)
EXTENDS Naturals, Sequences

CONSTANTS
  MaxVcpus,       \* bound on config.cpus
  DevicesPanic    \* whether a device may panic inside the lock

AllVcpus == 0..(MaxVcpus - 1)

ASSUME VcpuAssumptions ==
  /\ MaxVcpus \in Nat \ {0}
  /\ DevicesPanic \in BOOLEAN

VARIABLES
  cpus,        \* config.cpus of this VM
  stop,        \* the stop flag shared with the manager
  requested,   \* history: the manager has set it
  cancel,      \* cancel[v]: a cancel request that no run has consumed
  vcpu,        \* the thread of each vCPU
  poisoned,    \* the devices' mutex is poisoned
  watchdog,    \* the watchdog thread, and the next handle it cancels
  exits,       \* the channel of results
  main         \* the thread that called boot_and_run

vars == <<cpus, stop, requested, cancel, vcpu, poisoned, watchdog, exits, main>>

Vcpus == 0..(cpus - 1)

Multi == cpus > 1

Results == {"Halt", "Shutdown", "Unexpected", "Canceled", "Error", "Panic"}

\* "new": not spawned;  "check", "poll", "guest", "device": the run loop;
\* "ended": it has returned;  "cancelling", "sending", "sent": what the
\* thread of a multi-vCPU VM does then.
VcpuPcs == {"new", "check", "poll", "guest", "device", "ended",
            "cancelling", "sending", "sent"}

Init ==
  /\ cpus \in 1..MaxVcpus
  /\ stop = FALSE
  /\ requested = FALSE
  /\ cancel = [v \in Vcpus |-> FALSE]
  /\ vcpu = [v \in Vcpus |-> [pc |-> "new", result |-> "Canceled", next |-> 0]]
  /\ poisoned = FALSE
  /\ watchdog = [pc |-> "polling", next |-> 0]
  /\ exits = <<>>
  /\ main = [pc |-> "spawning", spawned |-> 0, received |-> 0, expired |-> FALSE,
             timed_out |-> FALSE, reason |-> "Canceled"]

---------------------------------------------------------------------------
(* The run loop of one vCPU. *)

At(v, pc) == vcpu[v].pc = pc

GoTo(v, pc) == vcpu' = [vcpu EXCEPT ![v].pc = pc]

Ends(v, result) == vcpu' = [vcpu EXCEPT ![v].pc = "ended", ![v].result = result]

CheckStop(v) ==
  /\ At(v, "check")
  /\ IF stop THEN Ends(v, "Canceled") ELSE GoTo(v, "poll")
  /\ UNCHANGED <<cpus, stop, requested, cancel, poisoned, watchdog, exits, main>>

\* A locked section: poll_devices before a run, or the handler of an I/O
\* port or MMIO exit.  The interrupt it may raise can fail to be set up.
UseDevices(v) ==
  /\ \/ /\ ~poisoned
        /\ \/ At(v, "poll") /\ GoTo(v, "guest")
           \/ At(v, "device") /\ GoTo(v, "check")
           \/ At(v, "poll") /\ Ends(v, "Error")
           \/ At(v, "device") /\ Ends(v, "Error")
        /\ UNCHANGED poisoned
     \/ /\ At(v, "poll") \/ At(v, "device")
        /\ poisoned \/ DevicesPanic
        /\ Ends(v, "Panic")
        /\ poisoned' = TRUE
  /\ UNCHANGED <<cpus, stop, requested, cancel, watchdog, exits, main>>

\* vcpu.run() returns by itself, and dispatch_exit looks at the exit.
GuestExits(v) ==
  /\ At(v, "guest")
  /\ \/ GoTo(v, "device")
     \/ GoTo(v, "check")
     \/ \E result \in {"Halt", "Shutdown", "Unexpected", "Error"} : Ends(v, result)
  /\ UNCHANGED <<cpus, stop, requested, cancel, poisoned, watchdog, exits, main>>

\* vcpu.run() returns because of a cancel request.
RunCanceled(v) ==
  /\ At(v, "guest")
  /\ cancel[v]
  /\ cancel' = [cancel EXCEPT ![v] = FALSE]
  /\ GoTo(v, "check") \/ Ends(v, "Error")
  /\ UNCHANGED <<cpus, stop, requested, poisoned, watchdog, exits, main>>

---------------------------------------------------------------------------
(* The rest of a vCPU thread of run_multi_vcpu. *)

\* Mutant: an error does not stop the siblings.
StopsSiblings_NotOnError(result) == result \in {"Halt", "Shutdown", "Unexpected"}

StopsSiblings(result) == result # "Canceled"

ThreadEnds(v) ==
  /\ Multi
  /\ At(v, "ended")
  /\ IF StopsSiblings(vcpu[v].result)
       THEN /\ stop' = TRUE
            /\ GoTo(v, "cancelling")
       ELSE /\ GoTo(v, "sending")
            /\ UNCHANGED stop
  /\ UNCHANGED <<cpus, requested, cancel, poisoned, watchdog, exits, main>>

LastHandle(n) == n + 1 = cpus

\* cancel_all_vcpus: one handle per step.
CancelSibling(v) ==
  /\ At(v, "cancelling")
  /\ cancel' = [cancel EXCEPT ![vcpu[v].next] = TRUE]
  /\ vcpu' = [vcpu EXCEPT ![v].next = @ + 1,
                          ![v].pc = IF LastHandle(vcpu[v].next) THEN "sending" ELSE @]
  /\ UNCHANGED <<cpus, stop, requested, poisoned, watchdog, exits, main>>

SendResult(v) ==
  /\ At(v, "sending")
  /\ exits' = Append(exits, vcpu[v].result)
  /\ GoTo(v, "sent")
  /\ UNCHANGED <<cpus, stop, requested, cancel, poisoned, watchdog, main>>

---------------------------------------------------------------------------
(* The cancel watchdog. *)

\* It looks at the flag every ten milliseconds.
WatchdogPolls ==
  /\ \/ /\ watchdog.pc = "polling"
        /\ watchdog' = [watchdog EXCEPT !.pc = IF stop THEN "cancelling" ELSE "sleeping"]
     \/ /\ watchdog.pc = "sleeping"
        /\ watchdog' = [watchdog EXCEPT !.pc = "polling"]
  /\ UNCHANGED <<cpus, stop, requested, cancel, vcpu, poisoned, exits, main>>

\* Mutant: the watchdog sees the flag and forgets to cancel.
WatchdogCancels_Nobody ==
  /\ watchdog.pc = "cancelling"
  /\ watchdog' = [pc |-> "done", next |-> cpus]
  /\ UNCHANGED <<cpus, stop, requested, cancel, vcpu, poisoned, exits, main>>

WatchdogCancels ==
  /\ watchdog.pc = "cancelling"
  /\ cancel' = [cancel EXCEPT ![watchdog.next] = TRUE]
  /\ watchdog' = [pc |-> IF LastHandle(watchdog.next) THEN "done" ELSE "cancelling",
                  next |-> watchdog.next + 1]
  /\ UNCHANGED <<cpus, stop, requested, vcpu, poisoned, exits, main>>

---------------------------------------------------------------------------
(* The calling thread. *)

SpawnVcpu ==
  /\ main.pc = "spawning"
  /\ GoTo(main.spawned, "check")
  /\ main' = [main EXCEPT !.spawned = @ + 1,
                          !.pc = IF main.spawned + 1 = cpus THEN "receiving" ELSE @]
  /\ UNCHANGED <<cpus, stop, requested, cancel, poisoned, watchdog, exits>>

\* run_single_vcpu after its run loop.  An error or a panic leaves at once.
SingleEnds ==
  /\ ~Multi
  /\ main.pc = "receiving"
  /\ At(0, "ended")
  /\ IF vcpu[0].result \in {"Error", "Panic"}
       THEN /\ main' = [main EXCEPT !.pc = "returned", !.reason = vcpu[0].result]
            /\ UNCHANGED stop
       ELSE /\ main' = [main EXCEPT !.pc = "joinWatchdog", !.reason = vcpu[0].result]
            /\ stop' = TRUE
  /\ UNCHANGED <<cpus, requested, cancel, vcpu, poisoned, watchdog, exits>>

\* What the collector makes of a thread's result.
AsReason(result) == IF result \in {"Error", "Panic"} THEN "Unexpected" ELSE result

\* Mutant: the last result wins.
Merge_Last(old, result) == AsReason(result)

\* The first result that is not Canceled wins.
Merge(old, result) == IF old = "Canceled" THEN AsReason(result) ELSE old

ReceiveExit ==
  /\ Multi
  /\ main.pc = "receiving"
  /\ exits # <<>>
  /\ exits' = Tail(exits)
  /\ main' = [main EXCEPT !.reason = Merge(@, Head(exits)),
                          !.received = @ + 1,
                          !.pc = IF main.received + 1 = cpus THEN "stopping" ELSE @]
  /\ UNCHANGED <<cpus, stop, requested, cancel, vcpu, poisoned, watchdog>>

\* The three seconds are counted from the moment all threads are spawned.
DeadlineExpires ==
  /\ Multi
  /\ main.pc = "receiving"
  /\ ~main.expired
  /\ main' = [main EXCEPT !.expired = TRUE]
  /\ UNCHANGED <<cpus, stop, requested, cancel, vcpu, poisoned, watchdog, exits>>

ReceiveTimesOut ==
  /\ main.pc = "receiving"
  /\ main.expired
  /\ exits = <<>>
  /\ main' = [main EXCEPT !.pc = "stopping", !.timed_out = TRUE]
  /\ UNCHANGED <<cpus, stop, requested, cancel, vcpu, poisoned, watchdog, exits>>

SetStop ==
  /\ main.pc = "stopping"
  /\ stop' = TRUE
  /\ main' = [main EXCEPT !.pc = "joinWatchdog"]
  /\ UNCHANGED <<cpus, requested, cancel, vcpu, poisoned, watchdog, exits>>

JoinWatchdog ==
  /\ main.pc = "joinWatchdog"
  /\ watchdog.pc = "done"
  /\ main' = [main EXCEPT !.pc = IF Multi THEN "joinVcpus" ELSE "returned"]
  /\ UNCHANGED <<cpus, stop, requested, cancel, vcpu, poisoned, watchdog, exits>>

\* Mutant: the threads are not waited for.
Joinable_Always == TRUE

Joinable == \A v \in Vcpus : At(v, "sent")

JoinVcpus ==
  /\ main.pc = "joinVcpus"
  /\ Joinable
  /\ main' = [main EXCEPT !.pc = "returned"]
  /\ UNCHANGED <<cpus, stop, requested, cancel, vcpu, poisoned, watchdog, exits>>

---------------------------------------------------------------------------
\* stop_vm and its relatives, from the manager.
RequestStop ==
  /\ ~requested
  /\ main.pc # "returned"
  /\ stop' = TRUE
  /\ requested' = TRUE
  /\ UNCHANGED <<cpus, cancel, vcpu, poisoned, watchdog, exits, main>>

VcpuStep(v) ==
  \/ CheckStop(v) \/ UseDevices(v) \/ RunCanceled(v)
  \/ ThreadEnds(v) \/ CancelSibling(v) \/ SendResult(v)

WatchdogStep == WatchdogPolls \/ WatchdogCancels

MainStep ==
  \/ SpawnVcpu \/ SingleEnds \/ ReceiveExit \/ ReceiveTimesOut
  \/ SetStop \/ JoinWatchdog \/ JoinVcpus

Next ==
  \/ \E v \in Vcpus : VcpuStep(v) \/ GuestExits(v)
  \/ WatchdogStep
  \/ MainStep
  \/ DeadlineExpires
  \/ RequestStop

Spec == Init /\ [][Next]_vars

\* Threads are scheduled and the hypervisor honours a cancel request.  A
\* guest need not exit, the deadline is not hurried, and nobody need ask for
\* a stop.
FairSpec ==
  /\ Spec
  /\ \A v \in AllVcpus : WF_vars(v \in Vcpus /\ VcpuStep(v))
  /\ WF_vars(WatchdogStep)
  /\ WF_vars(MainStep)

---------------------------------------------------------------------------
(* Properties. *)

\* Type invariant.
TypeOK ==
  /\ cpus \in 1..MaxVcpus
  /\ stop \in BOOLEAN /\ requested \in BOOLEAN /\ poisoned \in BOOLEAN
  /\ cancel \in [Vcpus -> BOOLEAN]
  /\ vcpu \in [Vcpus -> [pc : VcpuPcs, result : Results, next : 0..cpus]]
  /\ watchdog \in [pc : {"polling", "sleeping", "cancelling", "done"}, next : 0..cpus]
  /\ exits \in Seq(Results)
  /\ main \in [pc : {"spawning", "receiving", "stopping", "joinWatchdog", "joinVcpus", "returned"},
               spawned : 0..cpus, received : 0..cpus, expired : BOOLEAN,
               timed_out : BOOLEAN, reason : Results]

\* When boot_and_run returns an exit reason, none of its threads is left
\* behind (vm.rs:634-635, 740-745; "no hung threads", phase9 design:5).
NoHungThreads ==
  main.pc = "returned" /\ main.reason \notin {"Error", "Panic"} =>
    /\ watchdog.pc = "done"
    /\ \A v \in Vcpus : vcpu[v].pc \in {"ended", "sent"}

\* Unless the collector gave up, the VM counts as canceled only when all of
\* its vCPUs were, and it never reports a reason no vCPU had (vm.rs:718-738).
ReasonIsTrue ==
  main.pc = "returned" /\ Multi /\ ~main.timed_out =>
    /\ main.reason \in {AsReason(vcpu[v].result) : v \in Vcpus}
    /\ main.reason = "Canceled" => \A v \in Vcpus : vcpu[v].result = "Canceled"

\* Once stopping has begun boot_and_run returns: no cancel request is lost
\* between a run loop's look at the flag and its next run.
StopEndsVm == stop ~> (main.pc = "returned")

\* As soon as one vCPU is done, for whatever reason, the whole VM ends: its
\* siblings do not keep running without it (vm.rs:680-690).
ExitEndsVm ==
  \A v \in AllVcpus : (v \in Vcpus /\ At(v, "ended")) ~> (main.pc = "returned")
=============================================================================
