------------------------------ MODULE Machine -------------------------------
(***************************************************************************)
(* A VM from boot_and_run to the end of its run: the pipeline of Boot, the *)
(* registration of its devices on the bus, and the guest's accesses to     *)
(* them.  The execution is followed only for some configurations, and only *)
(* with the kernel that was loaded first.                                  *)
(***************************************************************************)
EXTENDS Boot, Emulation

CONSTANTS
    Executing    \* the configurations whose guest is followed

vars == <<bootVars, cpuVars>>

Init == BootInit /\ CpuInit

Followed == cfg \in Executing /\ ~replaced

Prepare == Pipeline /\ UNCHANGED cpuVars

\* setup_devices registers the slots in the order of their addresses.
RegisterSlot ==
    /\ pc = "devices" /\ Followed
    /\ \E s \in Slots :
         /\ \A t \in Slots : t.base < s.base => t \in Range(slots)
         /\ Register(s)
    /\ UNCHANGED bootVars

\* The slot of a device, in KiB.
Page(s) == VIRTIO_MMIO_BASE + s.base \div 1024

DevicesSet ==
    /\ SetupDevices
    /\ Followed /\ pc' = "run" => bus' = {Page(s) : s \in Range(slots)}
    /\ UNCHANGED cpuVars

StartVcpus == Run /\ IF Followed THEN PowerOn ELSE UNCHANGED cpuVars

Execute == pc = "running" /\ (Access \/ AccessFails \/ Halt) /\ UNCHANGED bootVars

\* A guest that halts or fails ends the run, and so does a stop request at
\* any time; the devices and the registers are gone then.
EndRun == Exit /\ PowerOff

Next == Prepare \/ RegisterSlot \/ DevicesSet \/ StartVcpus \/ Execute \/ EndRun

Spec == Init /\ [][Next]_vars
=============================================================================
