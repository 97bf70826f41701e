----------------------------- MODULE BootImage -----------------------------
(***************************************************************************)
(* What the VMM puts into guest memory before the first vCPU runs: page    *)
(* tables, the kernel, the zero page, the initramfs, the ACPI tables, the  *)
(* command line and the GDT.  Addresses are those of the code, in KiB.     *)
(***************************************************************************)
EXTENDS GuestMemory, FiniteSets, TLC

GDT_GPA == 1            \* 0x500
BOOT_PARAMS_GPA == 28   \* 0x7000
PML4_GPA == 32          \* 0x8000
PDPT_GPA == 36          \* 0x9000
PD_BASE_GPA == 40       \* 0xA000
CMDLINE_GPA == 128      \* 0x2_0000
RSDP_GPA == 896         \* 0xE_0000
XSDT_GPA == 900
MADT_GPA == 904
MIB == 1024
ONE_GIB == 2^20
HUGE_PAGE == 2 * MIB
MAX_GIB == 512

-----------------------------------------------------------------------------
(***************************************************************************)
(* build_page_tables: the PML4 points at the PDPT, whose entry i points at *)
(* the i-th PD, whose entry j maps the j-th 2 MiB of GiB i.  A table is    *)
(* known by its name; Walk is what the processor does with them.           *)
(***************************************************************************)
\* mutant: the tables are placed at half their size
PdGpa_Dense(i) == PD_BASE_GPA + i * (PAGE \div 2)

PdGpa(i) == PD_BASE_GPA + i * PAGE

PdName(i) == "pd" \o ToString(i)

PdEntry(i, j) == i * ONE_GIB + j * HUGE_PAGE

BuildPageTables(m, gib_count) ==
    IF gib_count = 0 \/ gib_count > MAX_GIB THEN Fails(m, "InvalidPageTableConfig")
    ELSE FoldLeft(LAMBDA w, i : WriteSlice(w, PdGpa(i), PAGE, PdName(i)),
                  WriteSlice(WriteSlice(m, PML4_GPA, PAGE, "pml4"), PDPT_GPA, PAGE, "pdpt"),
                  [k \in 1..gib_count |-> k - 1])

Unmapped == 0 - 1

Walk(m, gib_count, cr3, a) ==
    LET i == a \div ONE_GIB
        j == (a % ONE_GIB) \div HUGE_PAGE
    IN  IF /\ Content(m, cr3) = "pml4"
           /\ Content(m, PDPT_GPA + i \div 128) = "pdpt"       \* 128 entries in a KiB
           /\ i < gib_count
           /\ Content(m, PdGpa(i) + j \div 128) = PdName(i)
        THEN PdEntry(i, j) + (a % HUGE_PAGE)
        ELSE Unmapped

-----------------------------------------------------------------------------
(***************************************************************************)
(* load_elf.  A kernel file has a header that may be invalid, a size, an   *)
(* entry point and program headers; a header past the end of the file has  *)
(* in_file FALSE.  One segment after the other is copied, and its rest     *)
(* filled with zeroes.                                                     *)
(***************************************************************************)
Unloaded == [min |-> AddressSpace, max |-> 0, any |-> FALSE]

SegmentEnd(ph) == ph.paddr + ph.memsz

LoadSegment(file, s, ph) ==
    IF s.mem.err # NoError THEN s
    ELSE IF ~ph.in_file THEN [s EXCEPT !.mem = Fails(@, "InvalidElf")]
    ELSE IF ~ph.load THEN s
    ELSE IF ph.filesz > 0 /\ ph.offset + ph.filesz > file.size
    THEN [s EXCEPT !.mem = Fails(@, "LoadSegment")]
    ELSE LET copied == WriteSlice(s.mem, ph.paddr, ph.filesz, "kernel")
             filled == IF ph.memsz <= ph.filesz THEN copied
                       ELSE IF Over(ph.paddr, ph.filesz) THEN Fails(copied, "InvalidElf")
                       ELSE WriteZeroes(copied, ph.paddr + ph.filesz,
                                        ph.memsz - ph.filesz, "kernel")
         IN  IF filled.err # NoError THEN [s EXCEPT !.mem = filled]
             ELSE IF Over(ph.paddr, ph.memsz) THEN [s EXCEPT !.mem = Fails(filled, "InvalidElf")]
             ELSE [mem |-> filled, any |-> TRUE,
                   min |-> IF ph.paddr < s.min THEN ph.paddr ELSE s.min,
                   max |-> IF SegmentEnd(ph) > s.max THEN SegmentEnd(ph) ELSE s.max]

LoadElf(m, file) ==
    IF ~file.valid THEN [mem |-> Fails(m, "InvalidElf")] @@ Unloaded
    ELSE LET s == FoldLeft(LAMBDA w, ph : LoadSegment(file, w, ph),
                           [mem |-> m] @@ Unloaded, file.phdrs)
         IN  IF s.mem.err = NoError /\ ~s.any
             THEN [s EXCEPT !.mem = Fails(@, "InvalidElf")] ELSE s

-----------------------------------------------------------------------------
(***************************************************************************)
(* The zero page: the E820 map, where the initramfs is, and the RSDP.      *)
(***************************************************************************)
BuildBootParams(ram) ==
    [e820 |-> <<[addr |-> 0, size |-> 639, ram |-> TRUE],
                [addr |-> 639, size |-> 1, ram |-> FALSE],
                [addr |-> MIB, size |-> ram - MIB, ram |-> TRUE]>>,
     ramdisk_image |-> 0, ramdisk_size |-> 0, acpi_rsdp_addr |-> 0]

\* load_initramfs: on a page of its own, after the end of the kernel
\* mutant: where the kernel starts
InitramfsGpa_AtLoad(s) == AlignUp(s.min)

InitramfsGpa(s) == AlignUp(s.max)

LoadInitramfs(m, s, ram, len) ==
    IF m.err # NoError THEN m
    ELSE IF len = 0 \/ InitramfsGpa(s) + len > ram THEN Fails(m, "InvalidBootParams")
    ELSE WriteSlice(m, InitramfsGpa(s), len, "initramfs")

\* the fields of boot_params have 32 bits
FitsParams(gpa, len) == gpa < 4 * ONE_GIB /\ len < 4 * ONE_GIB

SetInitramfsParams(bp, gpa, len) ==
    IF FitsParams(gpa, len) THEN [bp EXCEPT !.ramdisk_image = gpa, !.ramdisk_size = len] ELSE bp

\* build_rsdp, build_xsdt, build_madt: each table points at the next, and the
\* last lists the APIC ids of the processors, a byte each
BuildRsdp == XSDT_GPA
BuildXsdt == MADT_GPA
BuildMadt(cpus) == [i \in 1..cpus |-> (i - 1) % 256]

MadtLen(cpus) == (36 + 8 + 8 * cpus + 1023) \div 1024

WriteAcpi(m, cpus) ==
    LET roots == WriteSlice(WriteSlice(m, RSDP_GPA, 1, "rsdp"), XSDT_GPA, 1, "xsdt")
    IN  IF cpus = 0 \/ cpus > 255 THEN Fails(roots, "InvalidBootParams")
        ELSE WriteSlice(roots, MADT_GPA, MadtLen(cpus), "madt")

-----------------------------------------------------------------------------
(***************************************************************************)
(* The initramfs archive, in bytes.  append_entry pads the name and the    *)
(* content of an entry to four bytes, counted from the entry's own start;  *)
(* the guest agent is such an archive, put behind the user's.  A reader    *)
(* finds an entry only at a multiple of four, and goes on at the next      *)
(* multiple of four after the lengths that the header gives.               *)
(***************************************************************************)
CpioHeader == 110

Pad4(n) == (4 - (n % 4)) % 4

NamePad(f) == Pad4(CpioHeader + f.namesize)

EntryLen(f) ==
    CpioHeader + f.namesize + NamePad(f) + f.filesize + Pad4(f.filesize)

Trailer == [namesize |-> 11, filesize |-> 0]

BuildAgentOverlay(agent) ==
    <<[namesize |-> 16, filesize |-> agent], [namesize |-> 25, filesize |-> 28], Trailer>>

ArchiveLen(fs) == FoldLeft(LAMBDA n, f : n + EntryLen(f), 0, fs)

Offset(fs, start, k) == start + ArchiveLen(SubSeq(fs, 1, k - 1))

\* where a reader looks for the entry after the one at offset o
ReaderNext(o, f) ==
    LET name == o + CpioHeader + f.namesize
        data == name + Pad4(name) + f.filesize
    IN  data + Pad4(data)

-----------------------------------------------------------------------------
(***************************************************************************)
(* Descriptors.  A raw GDT entry is its eight bytes, lowest first.         *)
(***************************************************************************)
GDT_NULL == <<0, 0, 0, 0, 0, 0, 0, 0>>
GDT_CODE64 == <<255, 255, 0, 0, 0, 155, 175, 0>>
GDT_DATA64 == <<255, 255, 0, 0, 0, 147, 207, 0>>
TSS_GPA == 1320          \* in bytes, as the base of a segment is
TSS_SIZE == 104

\* build_tss_descriptor, for a base below 16 MiB: its low half
BuildTss(base, limit) ==
    <<limit % 256, (limit \div 256) % 256, base % 256, (base \div 256) % 256,
      (base \div 65536) % 256, 137, (limit \div 65536) % 16, 0>>

WriteGdt == <<GDT_NULL, GDT_CODE64, GDT_DATA64, BuildTss(TSS_GPA, TSS_SIZE - 1), GDT_NULL>>

Flags(raw) == raw[7] \div 16

\* decode_gdt_entry; the limit is left in the unit that G says
DecodeGdt(raw, selector) ==
    [base |-> raw[3] + 256 * raw[4] + 65536 * raw[5],
     limit |-> raw[1] + 256 * raw[2] + 65536 * (raw[7] % 16),
     selector |-> selector,
     type |-> raw[6] % 16, s |-> (raw[6] \div 16) % 2,
     dpl |-> (raw[6] \div 32) % 4, present |-> raw[6] \div 128,
     long_mode |-> (Flags(raw) \div 2) % 2, db |-> (Flags(raw) \div 4) % 2,
     granularity |-> Flags(raw) \div 8]

\* hal_seg_to_whp and whp_seg_to_hal: L, D and G are bits 13 to 15
SegToWhp(d) ==
    [base |-> d.base, limit |-> d.limit, selector |-> d.selector,
     attrs |-> d.type + 16 * d.s + 32 * d.dpl + 128 * d.present
               + 2^13 * d.long_mode + 2^14 * d.db + 2^15 * d.granularity]

SegFromWhp(w) ==
    [base |-> w.base, limit |-> w.limit, selector |-> w.selector,
     type |-> w.attrs % 16, s |-> (w.attrs \div 16) % 2,
     dpl |-> (w.attrs \div 32) % 4, present |-> (w.attrs \div 128) % 2,
     long_mode |-> (w.attrs \div 2^13) % 2, db |-> (w.attrs \div 2^14) % 2,
     granularity |-> (w.attrs \div 2^15) % 2]

\* configure_sregs, as set_sregs hands it to the hypervisor
ConfigureSregs(pml4) ==
    [cr3 |-> pml4,
     cs |-> SegToWhp(DecodeGdt(GDT_CODE64, 8)),
     ds |-> SegToWhp(DecodeGdt(GDT_DATA64, 16)),
     ss |-> SegToWhp(DecodeGdt(GDT_DATA64, 16)),
     tr |-> SegToWhp([base |-> TSS_GPA, limit |-> TSS_SIZE - 1, selector |-> 24,
                      type |-> 11, s |-> 0, dpl |-> 0, present |-> 1,
                      long_mode |-> 0, db |-> 0, granularity |-> 0]),
     gdt |-> [base |-> GDT_GPA, limit |-> 5 * 8 - 1]]
=============================================================================
