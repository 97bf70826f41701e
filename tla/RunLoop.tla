------------------------------ MODULE RunLoop ------------------------------
(***************************************************************************)
(* How a device's interrupt reaches the guest.  Every vCPU thread runs     *)
(* run_vcpu_loop: it polls the devices, runs the guest until its next      *)
(* exit, and handles the exit.  A device wants an interrupt when it has    *)
(* put something into a used ring, after a poll or after a notification.   *)
(* The loop writes the vector into the vCPU's pending interruption         *)
(* register; a guest with interrupts disabled refuses it, and the loop     *)
(* keeps it in pending_irq until the guest can be interrupted.             *)
(*                                                                         *)
(* A vector is the device that raises it.  The guest is as the code        *)
(* expects it: it may disable interrupts for a while, and its interrupt    *)
(* handler reads the interrupt status, acknowledges it, and then looks at  *)
(* the used rings.  The end of a loop is in VcpuThreads.                   *)
(***************************************************************************)
EXTENDS Naturals, FiniteSets

CONSTANTS
    Vcpus,     \* the vCPUs of the VM
    Devices,   \* the devices on the bus: numbers in the order of their addresses
    MaxRx      \* bound on what the host has ready for one device

ASSUME RunLoopAssumptions ==
    /\ Vcpus # {}
    /\ Devices \subseteq Nat \ {0}
    /\ MaxRx \in Nat \ {0}

None == 0

VARIABLES
    pc,                \* where each vCPU thread is
    irq,               \* the vector a thread is about to inject
    pending_irq,       \* the loop's local of that name
    injected,          \* WHvRegisterPendingInterruption of each vCPU
    window,            \* whether an interrupt window exit is requested
    enabled,           \* the guest's interrupt flag
    handler,           \* the device whose handler the guest runs
    stage,             \* what that handler does next
    interrupt_status,  \* of each transport: the used buffer bit
    unseen,            \* whether the used rings hold what the guest has not seen
    rx                 \* what the host has ready for each device

vcpuVars == <<irq, pending_irq, injected, window, enabled, handler, stage>>
devVars == <<interrupt_status, unseen, rx>>
vars == <<pc, vcpuVars, devVars>>

Places == {"poll", "inject", "reinject", "guest"}
Stages == {"none", "status", "ack", "rings"}

(***************************************************************************)
(* The type invariant.                                                     *)
(***************************************************************************)
TypeOK ==
    /\ pc \in [Vcpus -> Places]
    /\ irq \in [Vcpus -> Devices \cup {None}]
    /\ pending_irq \in [Vcpus -> Devices \cup {None}]
    /\ injected \in [Vcpus -> Devices \cup {None}]
    /\ window \in [Vcpus -> BOOLEAN]
    /\ enabled \in [Vcpus -> BOOLEAN]
    /\ handler \in [Vcpus -> Devices \cup {None}]
    /\ stage \in [Vcpus -> Stages]
    /\ interrupt_status \in [Devices -> BOOLEAN]
    /\ unseen \in [Devices -> BOOLEAN]
    /\ rx \in [Devices -> 0..MaxRx]

Init ==
    /\ pc = [v \in Vcpus |-> "poll"]
    /\ irq = [v \in Vcpus |-> None]
    /\ pending_irq = [v \in Vcpus |-> None]
    /\ injected = [v \in Vcpus |-> None]
    /\ window = [v \in Vcpus |-> FALSE]
    /\ enabled = [v \in Vcpus |-> FALSE]
    /\ handler = [v \in Vcpus |-> None]
    /\ stage = [v \in Vcpus |-> "none"]
    /\ interrupt_status = [d \in Devices |-> FALSE]
    /\ unseen = [d \in Devices |-> FALSE]
    /\ rx = [d \in Devices |-> 0]

Goto(v, p) == pc' = [pc EXCEPT ![v] = p]

(***************************************************************************)
(* poll_devices: the bus asks its devices in the order of their addresses  *)
(* and stops at the first one that wants an interrupt.  The devices are    *)
(* unlocked before the vector is injected.                                 *)
(***************************************************************************)
FirstReady(S) == CHOOSE d \in S : \A e \in S : d <= e

\* mutant: the interrupt is injected but the status not set
PollRx_NoStatus(d) ==
    /\ rx' = [rx EXCEPT ![d] = @ - 1]
    /\ unseen' = [unseen EXCEPT ![d] = TRUE]
    /\ UNCHANGED interrupt_status

\* poll_rx of the transport: what was ready is now in the used ring
PollRx(d) ==
    /\ rx' = [rx EXCEPT ![d] = @ - 1]
    /\ unseen' = [unseen EXCEPT ![d] = TRUE]
    /\ interrupt_status' = [interrupt_status EXCEPT ![d] = TRUE]

PollDevices(v) ==
    /\ pc[v] = "poll"
    /\ LET ready == {d \in Devices : rx[d] > 0} IN
       \/ /\ ready # {}
          /\ PollRx(FirstReady(ready))
          /\ irq' = [irq EXCEPT ![v] = FirstReady(ready)]
          /\ Goto(v, "inject")
       \/ /\ ready = {}
          /\ Goto(v, "guest")
          /\ UNCHANGED <<irq, devVars>>
    /\ UNCHANGED <<pending_irq, injected, window, enabled, handler, stage>>

(***************************************************************************)
(* inject_interrupt writes the register, over whatever it holds; a guest   *)
(* with interrupts disabled makes it fail.  Then the vector is put aside   *)
(* and an interrupt window is requested.                                   *)
(***************************************************************************)
\* mutant: only a vector that was put aside before is kept
Deferred_Dropped(v) == pending_irq[v]

Deferred(v) == irq[v]

InjectOrDefer(v) ==
    /\ IF enabled[v]
       THEN /\ injected' = [injected EXCEPT ![v] = irq[v]]
            /\ UNCHANGED <<pending_irq, window>>
       ELSE /\ pending_irq' = [pending_irq EXCEPT ![v] = Deferred(v)]
            /\ window' = [window EXCEPT ![v] = TRUE]
            /\ UNCHANGED injected
    /\ irq' = [irq EXCEPT ![v] = None]

\* the end of poll_devices: the guest runs next
InjectPolled(v) ==
    /\ pc[v] = "inject"
    /\ InjectOrDefer(v)
    /\ Goto(v, "guest")
    /\ UNCHANGED <<enabled, handler, stage, devVars>>

\* the end of handle_mmio_write: the loop starts over
InjectRaised(v) ==
    /\ pc[v] = "reinject"
    /\ InjectOrDefer(v)
    /\ Goto(v, "poll")
    /\ UNCHANGED <<enabled, handler, stage, devVars>>

(***************************************************************************)
(* The guest runs.  A vCPU that is entered with interrupts enabled takes   *)
(* an injected interrupt, or leaves again for a requested window, before   *)
(* it executes anything else.                                              *)
(***************************************************************************)
Interruptible(v) == enabled[v] /\ (injected[v] # None \/ window[v])

Executes(v) == pc[v] = "guest" /\ ~Interruptible(v)

TakeInterrupt(v) ==
    /\ pc[v] = "guest" /\ enabled[v] /\ injected[v] # None
    /\ handler' = [handler EXCEPT ![v] = injected[v]]
    /\ stage' = [stage EXCEPT ![v] = "status"]
    /\ injected' = [injected EXCEPT ![v] = None]
    /\ enabled' = [enabled EXCEPT ![v] = FALSE]
    /\ UNCHANGED <<pc, irq, pending_irq, window, devVars>>

\* VcpuExit::InterruptWindow: the notification is cleared, and a vector that
\* was put aside is injected
WindowTakes(v) == pending_irq' = [pending_irq EXCEPT ![v] = None]

InterruptWindow(v) ==
    /\ pc[v] = "guest" /\ enabled[v] /\ injected[v] = None /\ window[v]
    /\ window' = [window EXCEPT ![v] = FALSE]
    /\ WindowTakes(v)
    /\ injected' = [injected EXCEPT ![v] = pending_irq[v]]
    /\ Goto(v, "poll")
    /\ UNCHANGED <<irq, enabled, handler, stage, devVars>>

\* mutant: the window is not requested again
CanceledWindow_Dropped(v) == window' = [window EXCEPT ![v] = FALSE]

\* VcpuExit::Canceled: the cancel may have dropped the request for a window,
\* so a loop with a vector put aside asks for it again
CanceledWindow(v) == window' = [window EXCEPT ![v] = pending_irq[v] # None]

Canceled(v) ==
    /\ Executes(v)
    /\ CanceledWindow(v)
    /\ Goto(v, "poll")
    /\ UNCHANGED <<irq, pending_irq, injected, enabled, handler, stage, devVars>>

\* an exit that concerns no interrupt: a port, or another register
OtherExit(v) ==
    /\ Executes(v)
    /\ Goto(v, "poll")
    /\ UNCHANGED <<vcpuVars, devVars>>

\* cli and sti outside of the handler
ToggleInterrupts(v) ==
    /\ Executes(v) /\ handler[v] = None
    /\ enabled' = [enabled EXCEPT ![v] = ~@]
    /\ UNCHANGED <<pc, irq, pending_irq, injected, window, handler, stage, devVars>>

(***************************************************************************)
(* handle_mmio_write for QUEUE_NOTIFY, after the guest has made requests   *)
(* available: the device processes the queue and raises its interrupt,     *)
(* whether it found requests or not.                                       *)
(***************************************************************************)
Notify(v, d) ==
    /\ Executes(v) /\ handler[v] = None
    /\ \E found \in BOOLEAN : unseen' = [unseen EXCEPT ![d] = @ \/ found]
    /\ interrupt_status' = [interrupt_status EXCEPT ![d] = TRUE]
    /\ irq' = [irq EXCEPT ![v] = d]
    /\ Goto(v, "reinject")
    /\ UNCHANGED <<pending_irq, injected, window, enabled, handler, stage, rx>>

(***************************************************************************)
(* The guest's handler.  Its register accesses are exits like any other,   *)
(* so that the devices are polled in the middle of it.                     *)
(***************************************************************************)
Return(v) ==
    /\ handler' = [handler EXCEPT ![v] = None]
    /\ stage' = [stage EXCEPT ![v] = "none"]
    /\ enabled' = [enabled EXCEPT ![v] = TRUE]

\* a read of INTERRUPT_STATUS; the handler returns if the device has not
\* raised its interrupt, or another vCPU has acknowledged it
ReadStatus(v) ==
    /\ Executes(v) /\ stage[v] = "status"
    /\ IF interrupt_status[handler[v]]
       THEN /\ stage' = [stage EXCEPT ![v] = "ack"]
            /\ UNCHANGED <<handler, enabled>>
       ELSE Return(v)
    /\ Goto(v, "poll")
    /\ UNCHANGED <<irq, pending_irq, injected, window, devVars>>

\* a write of INTERRUPT_ACK, which clears the bit
WriteAck(v) ==
    /\ Executes(v) /\ stage[v] = "ack"
    /\ interrupt_status' = [interrupt_status EXCEPT ![handler[v]] = FALSE]
    /\ stage' = [stage EXCEPT ![v] = "rings"]
    /\ Goto(v, "poll")
    /\ UNCHANGED <<irq, pending_irq, injected, window, enabled, handler, unseen, rx>>

\* the rings are read, without an exit
ReadRings(v) ==
    /\ Executes(v) /\ stage[v] = "rings"
    /\ unseen' = [unseen EXCEPT ![handler[v]] = FALSE]
    /\ Return(v)
    /\ UNCHANGED <<pc, irq, pending_irq, injected, window, interrupt_status, rx>>

\* the host's side hands something to a device
HostSends(d) ==
    /\ rx[d] < MaxRx
    /\ rx' = [rx EXCEPT ![d] = @ + 1]
    /\ UNCHANGED <<pc, vcpuVars, interrupt_status, unseen>>

Loop(v) == PollDevices(v) \/ InjectPolled(v) \/ InjectRaised(v)

Interrupted(v) == TakeInterrupt(v) \/ InterruptWindow(v)

Handles(v) == ReadStatus(v) \/ WriteAck(v) \/ ReadRings(v)

Next ==
    \/ \E v \in Vcpus :
          \/ Loop(v) \/ Interrupted(v) \/ Handles(v)
          \/ Canceled(v) \/ OtherExit(v) \/ ToggleInterrupts(v)
          \/ \E d \in Devices : Notify(v, d)
    \/ \E d \in Devices : HostSends(d)

Spec == Init /\ [][Next]_vars

(***************************************************************************)
(* Fairness: the threads run, and the guest gets on with its handler and   *)
(* does not keep interrupts disabled for ever.                             *)
(***************************************************************************)
Enables(v) == ~enabled[v] /\ ToggleInterrupts(v)

FairSpec ==
    /\ Spec
    /\ \A v \in Vcpus : /\ WF_vars(Loop(v))
                         /\ WF_vars(Interrupted(v))
                         /\ SF_vars(Handles(v))
                         /\ SF_vars(Enables(v))

-----------------------------------------------------------------------------
(***************************************************************************)
(* An interrupt that a device has raised and nobody has acknowledged is on *)
(* its way to the guest: about to be injected, put aside, injected, or in  *)
(* a handler that has not acknowledged it yet.  The loop of some vCPU must *)
(* not lose it, whatever the exits between.                                *)
(***************************************************************************)
OnItsWay(v, d) ==
    \/ irq[v] = d
    \/ pending_irq[v] = d
    \/ injected[v] = d
    \/ handler[v] = d /\ stage[v] \in {"status", "ack"}

RaisedIsOnItsWay ==
    \A d \in Devices : interrupt_status[d] => \E v \in Vcpus : OnItsWay(v, d)

(***************************************************************************)
(* What a device has put into a used ring is announced: by its interrupt   *)
(* status, or to a handler that has acknowledged it and is about to read   *)
(* the rings.  An acknowledgement between the two must not hide it.        *)
(***************************************************************************)
UsedIsAnnounced ==
    \A d \in Devices :
       unseen[d] => \/ interrupt_status[d]
                    \/ \E v \in Vcpus : handler[v] = d /\ stage[v] = "rings"

(***************************************************************************)
(* The guest gets to see whatever a device has put into its used rings.    *)
(***************************************************************************)
Seen == \A d \in Devices : unseen[d] ~> ~unseen[d]
=============================================================================
