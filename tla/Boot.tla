-------------------------------- MODULE Boot --------------------------------
(***************************************************************************)
(* How a VM comes up: inject_guest_agent in the daemon, then boot_and_run. *)
(* A pipeline whose every step may fail, that reads the kernel file twice  *)
(* while others may replace it, and that lays many structures into one     *)
(* memory, gives its devices their place on the bus, and takes everything  *)
(* down again in the order in which its variables go out of scope.  The    *)
(* vCPU threads, between Run and Exit, are in VcpuThreads.                 *)
(***************************************************************************)
EXTENDS BootImage

CONSTANTS
    Configs,    \* the configurations a VM is started with
    Kernels     \* the kernel files, by name

VARIABLES
    pc,         \* the next step, or "running", "unwind", "gone"
    cfg,        \* the configuration, after the agent's injection
    agent,      \* the bytes of the agent that was injected, or 0
    file,       \* the name of the kernel file on disk
    replaced,   \* whether it was replaced after it was first read
    mem,        \* guest memory
    elf,        \* what the first load_elf returned
    entry,      \* the entry point, from the second
    bp,         \* boot_params
    zero_page,  \* boot_params as guest memory has it
    announced,  \* the device slots the command line names
    bus,        \* the slots registered on the bus
    gdt,        \* the GDT in guest memory
    sregs,      \* the special registers of each vCPU that has been created
    partition,  \* "none", "created", "mapped"
    backing,    \* whether the host memory of the regions is allocated
    net         \* whether the network thread runs

inputs == <<cfg, agent, file, replaced>>
image == <<mem, elf, entry, bp, zero_page, announced, gdt>>
machine == <<bus, sregs, partition, backing, net>>
bootVars == <<pc, inputs, image, machine>>

NoSregs == [cr3 |-> 0]

ram == cfg.ram_mib * MIB
gib_count == IF cfg.ram_mib <= 1024 THEN 1 ELSE (cfg.ram_mib + 1023) \div 1024

MIN_RAM_MIB == 2
VIRTIO_MMIO_BASE == 3407872   \* 0xD000_0000
Slot(i) == VIRTIO_MMIO_BASE + i * PAGE

BootInit ==
    /\ pc = "inject"
    /\ cfg \in Configs
    /\ agent = 0
    /\ file = cfg.kernel
    /\ replaced = FALSE
    /\ mem = EmptyMemory
    /\ elf = Unloaded
    /\ entry = 0
    /\ bp = BuildBootParams(MIB)
    /\ zero_page = bp
    /\ announced = {} /\ bus = {}
    /\ gdt = <<>>
    /\ sregs = <<>>
    /\ partition = "none"
    /\ backing = FALSE
    /\ net = FALSE

Fail == pc' = "unwind"

(***************************************************************************)
(* inject_guest_agent: the agent's archive behind the user's, in a new     *)
(* file.  An initramfs that cannot be read counts as an empty one.         *)
(***************************************************************************)
InjectAgent ==
    /\ pc = "inject"
    /\ pc' = "validate"
    /\ \/ /\ cfg.agent # "none"
          /\ \E len \in {5, 8} :
                /\ agent' = len
                /\ cfg' = [cfg EXCEPT !.initramfs = "ok",
                             !.initramfs_len = (IF cfg.initramfs = "ok" THEN @ ELSE 0)
                                               + ArchiveLen(BuildAgentOverlay(len))]
       \/ UNCHANGED <<cfg, agent>>   \* none, unreadable, or the file not written
    /\ UNCHANGED <<file, replaced, image, machine>>

(***************************************************************************)
(* validate_config.                                                        *)
(***************************************************************************)
Paths(c) == {c.kernel_path, c.initramfs, c.disk}

Valid(c) ==
    /\ "dotdot" \notin Paths(c) \cup {c.agent}
    /\ "missing" \notin Paths(c)
    /\ c.ram_mib >= MIN_RAM_MIB
    /\ c.cpus \in 1..255

Validate ==
    /\ pc = "validate"
    /\ IF Valid(cfg) THEN pc' = "region" ELSE Fail
    /\ UNCHANGED <<inputs, image, machine>>

(***************************************************************************)
(* setup_guest_memory, build_kernel_cmdline, write_gdt.                    *)
(***************************************************************************)
\* the memory after a step, which fails if a write has
Writes(m, next) ==
    /\ mem' = m
    /\ IF m.err = NoError THEN pc' = next ELSE Fail

Region ==
    /\ pc = "region"
    /\ \/ Writes(AddRegion(mem, 0, ram), "tables") /\ backing' = (mem'.err = NoError)
       \/ Fail /\ UNCHANGED <<mem, backing>>        \* VirtualAlloc
    /\ UNCHANGED <<inputs, elf, entry, bp, zero_page, announced, gdt, bus, sregs, partition, net>>

PageTables ==
    /\ pc = "tables"
    /\ Writes(BuildPageTables(mem, gib_count), "kernel")
    /\ UNCHANGED <<inputs, elf, entry, bp, zero_page, announced, gdt, machine>>

LoadKernel ==
    /\ pc = "kernel"
    /\ \/ LET s == LoadElf(mem, Kernels[file]) IN
          /\ Writes(s.mem, "ramdisk")
          /\ elf' = [min |-> s.min, max |-> s.max, any |-> s.any]
          /\ bp' = BuildBootParams(ram)
       \/ Fail /\ UNCHANGED <<mem, elf, bp>>        \* fs::read
    /\ UNCHANGED <<inputs, entry, zero_page, announced, gdt, machine>>

\* the kernel file is a file like any other
ReplaceKernel(k) ==
    /\ pc \in {"ramdisk", "params", "cmdline", "partition"} /\ k # file
    /\ file' = k
    /\ replaced' = TRUE
    /\ UNCHANGED <<pc, cfg, agent, image, machine>>

KiB(bytes) == (bytes + 1023) \div 1024

Ramdisk ==
    /\ pc = "ramdisk"
    /\ \/ /\ cfg.initramfs = "none"
          /\ pc' = "params"
          /\ UNCHANGED <<mem, bp>>
       \/ /\ cfg.initramfs = "ok"
          /\ LET m == LoadInitramfs(mem, elf, ram, KiB(cfg.initramfs_len)) IN
             Writes(IF FitsParams(InitramfsGpa(elf), KiB(cfg.initramfs_len)) THEN m
                    ELSE Fails(m, "InvalidBootParams"), "params")
          /\ bp' = SetInitramfsParams(bp, InitramfsGpa(elf), KiB(cfg.initramfs_len))
       \/ cfg.initramfs = "ok" /\ Fail /\ UNCHANGED <<mem, bp>>     \* fs::read
    /\ UNCHANGED <<inputs, elf, entry, zero_page, announced, gdt, machine>>

WriteZeroPage(m, next) ==
    /\ Writes(WriteSlice(m, BOOT_PARAMS_GPA, PAGE, "boot_params"), next)
    /\ zero_page' = bp'

BootParams ==
    /\ pc = "params"
    /\ UNCHANGED bp
    /\ WriteZeroPage(mem, IF cfg.cpus > 1 THEN "acpi" ELSE "cmdline")
    /\ UNCHANGED <<inputs, elf, entry, announced, gdt, machine>>

Acpi ==
    /\ pc = "acpi"
    /\ bp' = [bp EXCEPT !.acpi_rsdp_addr = RSDP_GPA]
    /\ WriteZeroPage(WriteAcpi(mem, cfg.cpus), "cmdline")
    /\ UNCHANGED <<inputs, elf, entry, announced, gdt, machine>>

\* mutant: the vsock device takes the slot of the network device
VsockSlot_Net == Slot(1)

VsockSlot == Slot(2)

NetSlots == IF cfg.net THEN {Slot(1)} ELSE {}
VsockSlots == IF cfg.vsock THEN {VsockSlot} ELSE {}

Cmdline ==
    /\ pc = "cmdline"
    /\ announced' = NetSlots \cup (IF cfg.vsock THEN {Slot(2)} ELSE {})
    /\ \/ Writes(WriteSlice(mem, CMDLINE_GPA, KiB(cfg.cmdline_len), "cmdline"), "gdt")
       \/ cfg.net /\ Fail /\ UNCHANGED mem          \* parse_cidr
    /\ UNCHANGED <<inputs, elf, entry, bp, zero_page, gdt, machine>>

Gdt ==
    /\ pc = "gdt"
    /\ gdt' = WriteGdt
    /\ Writes(WriteSlice(mem, GDT_GPA, 1, "gdt"), "partition")
    /\ UNCHANGED <<inputs, elf, entry, bp, zero_page, announced, machine>>

(***************************************************************************)
(* The partition, the vCPUs and the devices.                               *)
(***************************************************************************)
CreatePartition ==
    /\ pc = "partition"
    /\ \/ partition' = "mapped" /\ pc' = "entry"
       \/ partition' \in {"none", "created"} /\ Fail
    /\ UNCHANGED <<inputs, image, bus, sregs, backing, net>>

\* the kernel is read and loaded once more, for its entry point
LoadAgain ==
    /\ pc = "entry"
    /\ \/ Writes(LoadElf(mem, Kernels[file]).mem, "vcpus") /\ entry' = Kernels[file].entry
       \/ Fail /\ UNCHANGED <<mem, entry>>          \* fs::read
    /\ UNCHANGED <<inputs, elf, bp, zero_page, announced, gdt, machine>>

\* one vCPU after the other; only the first gets its registers
CreateVcpu ==
    /\ pc = "vcpus"
    /\ \/ /\ Len(sregs) < cfg.cpus
          /\ sregs' = Append(sregs, IF sregs = <<>> THEN ConfigureSregs(PML4_GPA) ELSE NoSregs)
          /\ UNCHANGED pc
       \/ Len(sregs) < cfg.cpus /\ Fail /\ UNCHANGED sregs
       \/ Len(sregs) = cfg.cpus /\ pc' = "devices" /\ UNCHANGED sregs
    /\ UNCHANGED <<inputs, image, bus, partition, backing, net>>

\* setup_devices; register panics when two slots overlap
SetupDevices ==
    /\ pc = "devices"
    /\ \/ /\ bus' = (IF cfg.disk = "ok" THEN {Slot(0)} ELSE {}) \cup NetSlots \cup VsockSlots
          /\ net' = cfg.net
          /\ IF cfg.net /\ cfg.vsock /\ VsockSlot = Slot(1) THEN Fail ELSE pc' = "run"
          /\ UNCHANGED backing
       \/ /\ cfg.disk = "ok" \/ cfg.net            \* File::open, parse_mac, start_net_io
          /\ Fail /\ backing' = FALSE
          /\ UNCHANGED <<bus, net>>
    /\ UNCHANGED <<inputs, image, sregs, partition>>

Run ==
    /\ pc = "run"
    /\ pc' = "running"
    /\ UNCHANGED <<inputs, image, machine>>

(***************************************************************************)
(* The end.  After a run the memory goes with the devices, before or after *)
(* the vCPUs, then the network thread, and the partition last.  A step     *)
(* that fails before the devices are set up leaves the memory to the end.  *)
(***************************************************************************)
Exit ==
    /\ pc = "running"
    /\ backing' = FALSE
    /\ sregs' = IF cfg.cpus > 1 THEN <<>> ELSE sregs
    /\ pc' = "unwind"
    /\ UNCHANGED <<inputs, image, bus, partition, net>>

Unwind ==
    /\ pc = "unwind"
    /\ \/ sregs # <<>> /\ sregs' = <<>> /\ UNCHANGED <<pc, partition, backing, net>>
       \/ sregs = <<>> /\ net /\ net' = FALSE /\ UNCHANGED <<pc, sregs, partition, backing>>
       \/ /\ sregs = <<>> /\ ~net /\ partition # "none"
          /\ partition' = "none" /\ UNCHANGED <<pc, sregs, backing, net>>
       \/ /\ sregs = <<>> /\ ~net /\ partition = "none"
          /\ backing' = FALSE /\ pc' = "gone" /\ UNCHANGED <<sregs, partition, net>>
    /\ UNCHANGED <<inputs, image, bus>>

Done == pc = "gone" /\ UNCHANGED bootVars

\* what happens before the devices are set up, and after a run
Pipeline ==
    \/ InjectAgent \/ Validate \/ Region \/ PageTables \/ LoadKernel \/ Ramdisk
    \/ BootParams \/ Acpi \/ Cmdline \/ Gdt \/ CreatePartition \/ LoadAgain
    \/ CreateVcpu \/ Unwind \/ Done
    \/ \E k \in DOMAIN Kernels : ReplaceKernel(k)
-----------------------------------------------------------------------------
(***************************************************************************)
(* When the guest starts, its page tables map every address of its RAM to  *)
(* itself: nothing that was written after them lies over them.  This holds *)
(* up to the GiB whose table would be where the command line is.           *)
(***************************************************************************)
PageTableLimit == (CMDLINE_GPA - PD_BASE_GPA) \div PAGE

IdentityMapped ==
    pc = "running" /\ gib_count <= PageTableLimit =>
       \A i \in 0..gib_count - 1 : \A a \in {i * ONE_GIB, (i + 1) * ONE_GIB - 1} :
          Walk(mem, gib_count, sregs[1].cr3, a) = a

(***************************************************************************)
(* When the guest starts, nothing that was laid into its memory has been   *)
(* overwritten by something else, although the kernel is loaded a second   *)
(* time at the very end.  Only an initramfs behind a kernel that was       *)
(* replaced by a longer one may be.                                        *)
(***************************************************************************)
Clobbers(w, x) ==
    /\ w.what # x.what
    /\ Intersect(w.at, w.len, x.at, x.len)
    /\ ~(replaced /\ w.what = "initramfs" /\ x.what = "kernel")

Intact ==
    pc = "running" /\ gib_count <= PageTableLimit =>
       \A i, j \in DOMAIN mem.writes : i < j => ~Clobbers(mem.writes[i], mem.writes[j])

(***************************************************************************)
(* The initramfs that boot_params announces is memory that the E820 map    *)
(* gives to the guest, and is where it was loaded.                         *)
(***************************************************************************)
RamdiskUsable ==
    pc = "running" /\ zero_page.ramdisk_size > 0 =>
       LET last == zero_page.ramdisk_image + zero_page.ramdisk_size - 1 IN
       /\ \E i \in DOMAIN zero_page.e820 :
             /\ zero_page.e820[i].ram
             /\ zero_page.e820[i].addr <= zero_page.ramdisk_image
             /\ last < zero_page.e820[i].addr + zero_page.e820[i].size
       /\ ~replaced => /\ Content(mem, zero_page.ramdisk_image) = "initramfs"
                       /\ Content(mem, last) = "initramfs"

(***************************************************************************)
(* A guest with several vCPUs finds all of them: the zero page leads to    *)
(* the RSDP, this to the XSDT, this to a MADT that lists every vCPU that   *)
(* was created, once.                                                      *)
(***************************************************************************)
CpusListed ==
    pc = "running" /\ cfg.cpus > 1 =>
       /\ Content(mem, zero_page.acpi_rsdp_addr) = "rsdp"
       /\ Content(mem, BuildRsdp) = "xsdt" /\ Content(mem, BuildXsdt) = "madt"
       /\ BuildMadt(cfg.cpus) = [i \in DOMAIN sregs |-> i - 1]

(***************************************************************************)
(* The command line names exactly the slots that have a network or a vsock *)
(* device behind them, and none of them is covered by RAM, where a guest's *)
(* access would never leave the guest.  This holds up to the RAM that      *)
(* reaches the first slot.                                                 *)
(***************************************************************************)
DevicesAnnounced ==
    pc = "running" =>
       /\ announced = bus \ {Slot(0)}
       /\ ram <= VIRTIO_MMIO_BASE => \A s \in bus : Holding(mem, s) = {}

(***************************************************************************)
(* A reader of the initramfs finds every file of the agent's archive,      *)
(* provided that the user's archive ends at a multiple of four.            *)
(***************************************************************************)
AgentReadable ==
    LET fs == BuildAgentOverlay(agent)
        start == cfg.initramfs_len - ArchiveLen(fs)
    IN  pc = "running" /\ agent > 0 /\ start % 4 = 0 =>
           \A k \in 2..Len(fs) :
              Offset(fs, start, k) = ReaderNext(Offset(fs, start, k - 1), fs[k - 1])

(***************************************************************************)
(* The first vCPU starts in long mode, with descriptors that its GDT holds *)
(* under the same selectors, and a task register that matches the TSS      *)
(* descriptor there.                                                       *)
(***************************************************************************)
LongMode ==
    pc = "running" =>
       LET cs == SegFromWhp(sregs[1].cs)
           ds == SegFromWhp(sregs[1].ds)
           tr == SegFromWhp(sregs[1].tr)
           tss == DecodeGdt(gdt[4], tr.selector)
       IN  /\ cs.present = 1 /\ cs.s = 1 /\ cs.type >= 8 /\ cs.long_mode = 1 /\ cs.db = 0
           /\ ds.present = 1 /\ ds.s = 1 /\ ds.type \in {2, 3} /\ ds.granularity = 1
           /\ tr.base = tss.base /\ tr.limit = tss.limit /\ tss.present = 1 /\ tss.type = 9
           /\ \A d \in {cs, ds, tr} : d.selector + 7 <= sregs[1].gdt.limit

(***************************************************************************)
(* What the guest's kernel needs and only finds through pointers, tables   *)
(* and names that different steps of boot_and_run have written.            *)
(***************************************************************************)
GuestFinds == RamdiskUsable /\ CpusListed /\ DevicesAnnounced /\ AgentReadable /\ LongMode
=============================================================================
