------------------------------- MODULE MCMachine ----------------------------
(***************************************************************************)
(* Boot with configurations at the limits of RAM and vCPUs and with bad    *)
(* paths, and with kernels that load, that do not fit, that leave no place *)
(* for an initramfs below 4 GiB, and that are not kernels.                 *)
(***************************************************************************)
EXTENDS Machine

Small == [kernel |-> "plain", kernel_path |-> "ok", initramfs |-> "ok", initramfs_len |-> 4096,
          disk |-> "none", ram_mib |-> 2, cpus |-> 1, net |-> FALSE, vsock |-> FALSE,
          agent |-> "none", cmdline_len |-> 40]

MCConfigs ==
    {[Small EXCEPT !.ram_mib = r, !.cpus = c] : r \in {1, 2, 1025, 3328}, c \in {1, 2}}
    \cup {[Small EXCEPT !.ram_mib = 22528], [Small EXCEPT !.cpus = 0],
          [Small EXCEPT !.ram_mib = 5120, !.kernel = "above"]}
    \cup {[Small EXCEPT !.kernel = k] : k \in {"huge", "text", "empty", "cut", "high"}}
    \cup {[Small EXCEPT !.disk = d, !.net = n, !.vsock = v] :
             d \in {"none", "ok", "missing"}, n \in BOOLEAN, v \in BOOLEAN}
    \cup {[Small EXCEPT !.initramfs = i, !.initramfs_len = IF i = "ok" THEN l ELSE 0,
                        !.agent = a] :
             i \in {"none", "ok", "missing"}, l \in {0, 512, 513}, a \in {"none", "auto", "dotdot"}}
    \cup {[Small EXCEPT !.kernel_path = p] : p \in {"missing", "dotdot"}}

Phdr(offset, paddr, filesz, memsz) ==
    [in_file |-> TRUE, load |-> TRUE, offset |-> offset, paddr |-> paddr,
     filesz |-> filesz, memsz |-> memsz]

File(start, size, phdrs) == [valid |-> TRUE, size |-> size, entry |-> start, phdrs |-> phdrs]

MCKernels ==
    [plain |-> File(1024, 9, <<Phdr(1, 1024, 3, 3), Phdr(4, 1030, 2, 9)>>),
     longer |-> File(1026, 20, <<Phdr(1, 1024, 10, 30)>>),
     huge |-> File(1024, 9, <<Phdr(0, 2030, 9, 30)>>),
     text |-> [File(0, 9, <<>>) EXCEPT !.valid = FALSE],
     above |-> File(4 * ONE_GIB, 9, <<Phdr(1, 4 * ONE_GIB, 3, 3)>>),
     empty |-> File(0, 9, <<[Phdr(0, 1024, 1, 1) EXCEPT !.load = FALSE]>>),
     cut |-> File(0, 9, <<Phdr(0, 1024, 4, 4), [Phdr(9, 1028, 4, 4) EXCEPT !.in_file = FALSE]>>),
     high |-> File(0, 9, <<Phdr(8, 1024, 0, 0), Phdr(1, AddressSpace - 1, 0, 4)>>)]
\* The devices of the configuration that is followed, and accesses of all
\* sizes, forms of address and prefixes, into them and beside them.
MCExecuting == {[Small EXCEPT !.net = TRUE, !.vsock = TRUE]}

MCSlots == {[base |-> 4096, size |-> 4096], [base |-> 8192, size |-> 4096]}

Mov(op, size, reg, form, gpa) ==
    [op |-> op, size |-> size, reg |-> reg, form |-> form, gpa |-> gpa]
Imm(size, form, gpa, imm) ==
    [op |-> "imm", size |-> size, form |-> form, gpa |-> gpa, imm |-> imm]
Port(op, size, port) == [op |-> op, size |-> size, port |-> port]

MCInstructions ==
    {Mov("load", 4, reg, form, 4104) : reg \in {0, 4, 11}, form \in {"base", "sib32", "rip"}}
    \cup {Mov("store", 4, reg, form, 8268) : reg \in {3, 5, 14}, form \in {"disp8", "sib", "disp32"}}
    \cup {Mov("load", 8, 13, "sib8", 12280), Mov("store", 8, 1, "base", 8191),
          Mov("load", 2, 2, "disp32", 4096), Mov("store", 2, 9, "rip", 12287),
          Mov("load", 1, 0, "base", 4184), Mov("load", 1, 6, "sib8", 4184),
          Mov("store", 1, 1, "disp8", 8192), Mov("store", 1, 5, "base", 4095),
          Mov("load", 4, 7, "base", 4095), Mov("extend", 4, 0, "base", 4184),
          Imm(4, "rip", 8192, <<1, 102, 72, 199>>), Imm(2, "sib32", 4096, <<8, 139>>),
          Imm(8, "disp8", 4284, <<1, 0, 0, 0>>), Imm(8, "base", 4284, <<255, 255, 255, 255>>),
          Port("out", 1, 1016), Port("out", 1, 33), Port("in", 1, 1021),
          Port("in", 1, 160), Port("in", 2, 128)}
============================================================================
