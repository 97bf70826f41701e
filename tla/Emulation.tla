----------------------------- MODULE Emulation -----------------------------
(***************************************************************************)
(* The part of the vCPU loop that stands in for the processor.  The Windows *)
(* hypervisor leaves an access to a device unfinished: it reports the bytes *)
(* of the instruction, and the VMM decodes them (mmio_decode.rs), finds the *)
(* device (mmio_bus.rs), moves the data and steps RIP (run_loop.rs).  A     *)
(* guest program of a few instructions runs here twice: `whp' is the        *)
(* register file the code leaves behind, `ref' what a processor would have. *)
(* A register is the sequence of its 8 bytes, the lowest first.             *)
(***************************************************************************)
EXTENDS Naturals, Sequences, SequencesExt, FiniteSets, TLC

CONSTANTS
    Instructions,   \* the accesses a program is made of
    MaxProgram,     \* how many of them
    Slots           \* the devices: [base, size], by their addresses in the
                    \* window that begins at VIRTIO_MMIO_BASE

VARIABLES
    program,        \* the guest's instructions
    whp,            \* the registers of the virtual processor, by name
    slots,          \* MmioBus.slots, in the order of the vector
    log,            \* what the devices and the UART were asked to store
    phase,          \* registering, running, halted, failed, panicked
    ref             \* registers and stores of the processor emulated

cpuVars == <<program, whp, slots, log, phase, ref>>

--------------------------------------------------------------------------
(* The decoder.  A failed `?' is None.                                     *)

None == [len |-> 0]
Bits(b, from, n) == (b \div 2^from) % 2^n

(* needs_sib: r/m of 4 stands for a SIB byte, unless mod says register.    *)
NeedsSib(modrm) == Bits(modrm, 0, 3) = 4 /\ Bits(modrm, 6, 2) # 3

(* Mutant: the SIB form without a base register has no displacement.       *)
DisplacementSize_NoBase(modrm, hasSib, sib) ==
    CASE Bits(modrm, 6, 2) = 0 -> IF Bits(modrm, 0, 3) = 5 THEN 4 ELSE 0
      [] Bits(modrm, 6, 2) = 1 -> 1
      [] Bits(modrm, 6, 2) = 2 -> 4
      [] OTHER -> 0

(* displacement_size, from ModR/M and the SIB byte (0 when there is none). *)
DisplacementSize(modrm, hasSib, sib) ==
    CASE Bits(modrm, 6, 2) = 0 ->
             IF Bits(modrm, 0, 3) = 5 \/ (hasSib /\ Bits(sib, 0, 3) = 5) THEN 4 ELSE 0
      [] Bits(modrm, 6, 2) = 1 -> 1
      [] Bits(modrm, 6, 2) = 2 -> 4
      [] OTHER -> 0

(* operand_size: byte opcodes first, then REX.W, then the 0x66 prefix.     *)
OperandSize(isByte, rexW, has66) ==
    IF isByte THEN 1 ELSE IF rexW THEN 8 ELSE IF has66 THEN 2 ELSE 4

(* parse_prefixes: 0x66 and REX in any order and number; the last REX       *)
(* counts.  `pos' is the number of bytes consumed.                          *)
ParsePrefixes(bytes) ==
    LET isPrefix(b) == b = 102 \/ b \in 64 .. 79
        n == CHOOSE n \in 0 .. Len(bytes) :
                 /\ \A k \in 1 .. n : isPrefix(bytes[k])
                 /\ n < Len(bytes) => ~isPrefix(bytes[n + 1])
        rexes == {k \in 1 .. n : bytes[k] # 102}
    IN  [pos   |-> n,
         has66 |-> \E k \in 1 .. n : bytes[k] = 102,
         rex   |-> IF rexes = {} THEN 0
                   ELSE bytes[CHOOSE k \in rexes : \A j \in rexes : j <= k]]

(* parse_sib_and_disp: where the bytes after the address begin, or None     *)
(* when the bytes end before.                                               *)
ParseSibAndDisp(bytes, modrm, pos) ==
    LET hasSib == NeedsSib(modrm)
        after  == IF hasSib THEN pos + 1 ELSE pos
        end    == after + DisplacementSize(modrm, hasSib,
                                           IF hasSib THEN bytes[pos + 1] ELSE 0)
    IN  IF hasSib /\ Len(bytes) <= pos THEN {}
        ELSE {p \in {end} : p <= Len(bytes)}

(* decode_mov_r_rm: opcodes 88..8B.                                         *)
DecodeMovRRm(opcode, has66, rexW, reg, pos) ==
    [register |-> reg, size |-> OperandSize(opcode % 2 = 0, rexW, has66),
     immediate |-> <<>>, len |-> pos]

(* decode_mov_rm_imm: C7 /0; the immediate is imm16 only under a lone 66.   *)
DecodeMovRmImm(bytes, has66, rexW, modrm, pos) ==
    LET immSize == IF has66 /\ ~rexW THEN 2 ELSE 4
    IN  IF Bits(modrm, 3, 3) # 0 \/ pos + immSize > Len(bytes) THEN None
        ELSE [register |-> 0, size |-> OperandSize(FALSE, rexW, has66),
              immediate |-> SubSeq(bytes, pos + 1, pos + immSize),
              len |-> pos + immSize]

(* decode_mmio_instruction.                                                 *)
Decode(bytes) ==
    LET p     == ParsePrefixes(bytes)
        rexW  == Bits(p.rex, 3, 1) = 1
        op    == bytes[p.pos + 1]
        modrm == bytes[p.pos + 2]
        reg   == Bits(modrm, 3, 3) + 8 * Bits(p.rex, 2, 1)
        ends  == ParseSibAndDisp(bytes, modrm, p.pos + 2)
    IN  IF Len(bytes) < p.pos + 2 THEN None
        ELSE IF ends = {} THEN None
        ELSE LET pos == CHOOSE e \in ends : TRUE
             IN  CASE op \in 136 .. 139 -> DecodeMovRRm(op, p.has66, rexW, reg, pos)
                   [] op = 199 -> DecodeMovRmImm(bytes, p.has66, rexW, modrm, pos)
                   [] OTHER -> None

--------------------------------------------------------------------------
(* Registers: the batch the hypervisor is asked for, and the structure the  *)
(* code keeps them in.                                                      *)

Gp == <<"rax", "rcx", "rdx", "rbx", "rsp", "rbp", "rsi", "rdi",
        "r8", "r9", "r10", "r11", "r12", "r13", "r14", "r15">>

(* STANDARD_REG_NAMES (RFLAGS, which no handler touches, is left out).      *)
StandardRegNames ==
    <<"rip", "rax", "rbx", "rcx", "rdx", "rsi", "rdi", "rsp", "rbp",
      "r8", "r9", "r10", "r11", "r12", "r13", "r14", "r15">>

(* Mutant: the two stack registers change places.                           *)
ValuesToFields_Swapped ==
    <<"rip", "rax", "rbx", "rcx", "rdx", "rsi", "rdi", "rbp", "rsp",
      "r8", "r9", "r10", "r11", "r12", "r13", "r14", "r15">>

(* The fields in the order values_to_standard_regs takes them.              *)
ValuesToFields ==
    <<"rip", "rax", "rbx", "rcx", "rdx", "rsi", "rdi", "rsp", "rbp",
      "r8", "r9", "r10", "r11", "r12", "r13", "r14", "r15">>

(* The fields in the order standard_regs_to_values writes them.             *)
FieldsToValues ==
    <<"rip", "rax", "rbx", "rcx", "rdx", "rsi", "rdi", "rsp", "rbp",
      "r8", "r9", "r10", "r11", "r12", "r13", "r14", "r15">>

At(names, name) == CHOOSE k \in DOMAIN names : names[k] = name

(* WhpVcpu::get_regs and set_regs.                                          *)
GetRegs(file) == [f \in DOMAIN file |-> file[StandardRegNames[At(ValuesToFields, f)]]]
SetRegs(regs) == [n \in DOMAIN regs |-> regs[FieldsToValues[At(StandardRegNames, n)]]]

(* register_value and set_register: the index of the encoding to the field. *)
RegisterValue(regs, idx) == regs[Gp[idx + 1]]
SetRegister(regs, idx, val) == [regs EXCEPT ![Gp[idx + 1]] = val]

(* advance_rip and advance_rip_with_rax.                                    *)
AdvanceRip(len) == whp' = SetRegs([GetRegs(whp) EXCEPT !.rip = @ + len])
AdvanceRipWithRax(len, rax) ==
    whp' = SetRegs([GetRegs(whp) EXCEPT !.rip = @ + len, !.rax = rax])

--------------------------------------------------------------------------
(* The bus.                                                                 *)

(* Mutant: a slot that begins at the address is not considered.             *)
FindSlot_Below(gpa) ==
    LET idx == Cardinality({k \in DOMAIN slots : slots[k].base < gpa})
    IN  IF idx > 0 THEN {s \in {slots[idx]} : gpa < s.base + s.size} ELSE {}

(* MmioBus::find_slot: the last slot that begins at or below the address,   *)
(* if it reaches that far.                                                  *)
FindSlot(gpa) ==
    LET idx == Cardinality({k \in DOMAIN slots : slots[k].base <= gpa})
    IN  IF idx > 0 THEN {s \in {slots[idx]} : gpa < s.base + s.size} ELSE {}

(* What a device answers is its own; that it differs from byte to byte is   *)
(* all that matters here.                                                   *)
DeviceByte(base, offset) == ((base \div 1024) + 7 * offset) % 256

(* MmioBus::read: all ones where no device answers.                         *)
BusRead(gpa, size) ==
    [k \in 1 .. size |->
        IF FindSlot(gpa) = {} THEN 255
        ELSE LET s == CHOOSE s \in FindSlot(gpa) : TRUE
             IN  DeviceByte(s.base, gpa - s.base + k - 1)]

(* MmioBus::write: the device gets the offset in its own range.             *)
BusWrite(gpa, data) ==
    log' = log \o SetToSeq({[device |-> s.base, offset |-> gpa - s.base, data |-> data]
                               : s \in FindSlot(gpa)})

Ascending(a, b) == a.base < b.base

(* The ports of COM1 and of the two interrupt controllers, and the registers *)
(* of a UART whose transmitter is idle.                                      *)
Uart == 0                      \* its place in the log
COM1 == 1016 .. 1023
PicPorts == {32, 33, 160, 161}
UartRegister(offset) == IF offset = 5 THEN 96 ELSE 0

(* MmioBus::register: panics on an overlap, else keeps the slots sorted.    *)
Register(s) ==
    /\ phase = "registering"
    /\ s \notin Range(slots)
    /\ IF \E t \in Range(slots) : s.base < t.base + t.size /\ s.base + s.size > t.base
       THEN phase' = "panicked" /\ UNCHANGED slots
       ELSE slots' = SortSeq(Append(slots, s), Ascending) /\ UNCHANGED phase
    /\ UNCHANGED <<program, whp, log, ref>>

--------------------------------------------------------------------------
(* The processor, from its manual: the encoding of an access, and its       *)
(* effect.  An access names its direction, its size in bytes, the register  *)
(* or the immediate, the form of the address and the address it comes to.   *)

Forms ==
    [base |-> [mod |-> 0, tail |-> <<3>>],      disp8 |-> [mod |-> 1, tail |-> <<3, 137>>],
     disp32 |-> [mod |-> 2, tail |-> <<3, 102, 137, 69, 1>>],
     rip |-> [mod |-> 0, tail |-> <<5, 139, 3, 0, 0>>],
     sib |-> [mod |-> 0, tail |-> <<4, 3>>],    sib8 |-> [mod |-> 1, tail |-> <<4, 37, 199>>],
     sib32 |-> [mod |-> 0, tail |-> <<4, 37, 64, 199, 0, 3>>]]

(* MOV between memory and a register or an immediate; MOVZX for "extend";    *)
(* IN and OUT of AL, AX or EAX by the port in DX or, with `len' of 2, by a   *)
(* port in the instruction.                                                  *)
Encode(i) ==
    IF i.op \in {"in", "out"}
    THEN (IF i.size = 2 THEN <<102>> ELSE <<>>)
         \o (IF i.port < 256 THEN <<228, i.port>> ELSE <<236>>)
    ELSE LET f   == Forms[i.form]
             reg == IF i.op = "imm" THEN 0 ELSE i.reg
             rex == 8 * (IF i.size = 8 THEN 1 ELSE 0) + 4 * (reg \div 8)
             low == IF i.size = 1 THEN 0 ELSE 1
         IN  (IF i.size = 2 THEN <<102>> ELSE <<>>)
             \o (IF rex > 0 THEN <<64 + rex>> ELSE <<>>)
             \o (CASE i.op = "load" -> <<138 + low>> [] i.op = "store" -> <<136 + low>>
                   [] i.op = "imm" -> <<199>>        [] i.op = "extend" -> <<15, 182>>)
             \o <<64 * f.mod + 8 * (reg % 8) + f.tail[1]>> \o Tail(f.tail)
             \o (IF i.op = "imm" THEN i.imm ELSE <<>>)

Owner(gpa) == {s \in Slots : s.base <= gpa /\ gpa < s.base + s.size}
Answer(gpa, k) ==
    IF Owner(gpa) = {} THEN 255
    ELSE LET s == CHOOSE s \in Owner(gpa) : TRUE IN DeviceByte(s.base, gpa - s.base + k - 1)
Merge(old, new) == [k \in 1 .. 8 |-> IF k <= Len(new) THEN new[k]
                                     ELSE IF Len(new) = 4 THEN 0 ELSE old[k]]

(* The processor's registers and stores after one instruction.              *)
Executed(i) ==
    LET moved == [ref EXCEPT !.regs.rip = @ + Len(Encode(i))]
    IN  CASE i.op = "load" ->
                [moved EXCEPT !.regs[Gp[i.reg + 1]] =
                     Merge(@, [k \in 1 .. i.size |-> Answer(i.gpa, k)])]
          [] i.op \in {"store", "imm"} ->
                [moved EXCEPT !.log = @ \o SetToSeq(
                     {[device |-> s.base, offset |-> i.gpa - s.base,
                       data |-> IF i.op = "store"
                                THEN SubSeq(ref.regs[Gp[i.reg + 1]], 1, i.size)
                                ELSE [k \in 1 .. i.size |->
                                          IF k <= Len(i.imm) THEN i.imm[k]
                                          ELSE IF i.imm[Len(i.imm)] > 127 THEN 255 ELSE 0]]
                          : s \in Owner(i.gpa)})]
          [] i.op = "out" ->
                [moved EXCEPT !.log = IF i.port \notin COM1 THEN @
                     ELSE Append(@, [device |-> Uart, offset |-> i.port - 1016,
                                     data |-> SubSeq(ref.regs.rax, 1, 1)])]
          [] i.op = "in" ->
                [moved EXCEPT !.regs.rax = Merge(@,
                     [k \in 1 .. i.size |-> CASE i.port \in COM1 -> UartRegister(i.port - 1016)
                                              [] i.port \in PicPorts -> 0 [] OTHER -> 255])]
          [] OTHER -> moved

--------------------------------------------------------------------------
(* The exits.                                                               *)

Code == FoldLeft(LAMBDA c, i : c \o Encode(i), <<>>, program)
Starts == {0} \cup {Len(FoldLeft(LAMBDA c, i : c \o Encode(i), <<>>, SubSeq(program, 1, k)))
                      : k \in DOMAIN program}
Current == program[CHOOSE k \in DOMAIN program :
               whp.rip = Len(FoldLeft(LAMBDA c, i : c \o Encode(i), <<>>,
                                      SubSeq(program, 1, k - 1)))]

(* exit_context_to_hal of a memory access: at most 16 bytes from RIP on, as *)
(* many as the hypervisor fetched, and the length, which it leaves at 0.    *)
Fetched(count) == SubSeq(Code, whp.rip + 1, whp.rip + count)
ByteCounts == {k \in {0, Len(Encode(Current)), 16} : whp.rip + k <= Len(Code)}
                 \cup {IF Len(Code) - whp.rip < 16 THEN Len(Code) - whp.rip ELSE 16}

Padded(bytes) == [k \in 1 .. 8 |-> IF k <= Len(bytes) THEN bytes[k] ELSE 0]

(* handle_mmio_read: the bus first, then both register calls.               *)
HandleMmioRead(d, gpa) ==
    /\ whp' = SetRegs([SetRegister(GetRegs(whp), d.register, Padded(BusRead(gpa, d.size)))
                          EXCEPT !.rip = @ + d.len])
    /\ UNCHANGED log

(* handle_mmio_write: the immediate is widened with zeros.                  *)
HandleMmioWrite(d, gpa) ==
    /\ LET value == IF d.immediate # <<>> THEN Padded(d.immediate)
                    ELSE RegisterValue(GetRegs(whp), d.register)
       IN  BusWrite(gpa, SubSeq(value, 1, d.size))
    /\ AdvanceRip(d.len)

(* handle_mmio: an instruction that cannot be decoded is passed over by the *)
(* length the hypervisor gave, 0, so that it faults again.                  *)
HandleMmio(i, count) ==
    LET d == Decode(Fetched(count))
    IN  IF d = None THEN AdvanceRip(0) /\ UNCHANGED log
        ELSE IF i.op \in {"store", "imm"} THEN HandleMmioWrite(d, i.gpa)
        ELSE HandleMmioRead(d, i.gpa)

HandlesPort(port) == port \in COM1

(* pio_write and pio_read convert the port to the register of the UART.     *)
PioWrite(port, byte) ==
    log' = Append(log, [device |-> Uart, offset |-> port - 1016, data |-> <<byte>>])
PioRead(port) == UartRegister(port - 1016)

(* exit_context_to_hal of a port access: the low bytes of RAX for an OUT,    *)
(* and the low 4 bits of the instruction's length.                           *)
IoPortExit(i) ==
    [port |-> i.port, is_write |-> i.op = "out", instruction_len |-> Len(Encode(i)) % 16,
     data |-> [k \in 1 .. 4 |-> IF i.op = "out" /\ k <= i.size THEN whp.rax[k] ELSE 0]]

(* handle_io_port: the UART, the stub of the interrupt controllers, or       *)
(* nothing; an OUT stores its first byte, an IN answers in the whole of RAX. *)
HandleIoPort(io) ==
    LET value == IF HandlesPort(io.port) THEN PioRead(io.port)
                 ELSE IF io.port \in PicPorts THEN 0 ELSE 255
    IN  IF io.is_write
        THEN /\ AdvanceRip(io.instruction_len)
             /\ IF HandlesPort(io.port) THEN PioWrite(io.port, io.data[1]) ELSE UNCHANGED log
        ELSE AdvanceRipWithRax(io.instruction_len, Padded(<<value>>)) /\ UNCHANGED log

(* One exit of the current instruction and its handler.  `ref' follows when  *)
(* RIP moved; an instruction that faults again has not been executed.        *)
Access ==
    /\ phase = "running"
    /\ whp.rip \in Starts /\ whp.rip < Len(Code)
    /\ LET i == Current
       IN  /\ IF i.op \in {"in", "out"} THEN HandleIoPort(IoPortExit(i))
              ELSE \E count \in ByteCounts : HandleMmio(i, count)
           /\ ref' = IF whp'.rip = whp.rip THEN ref ELSE Executed(i)
    /\ UNCHANGED <<program, slots, phase>>

(* A register call of the handler fails: the run loop ends with the error,   *)
(* the device of a store may have been reached, RIP has not moved.           *)
AccessFails ==
    /\ phase = "running"
    /\ whp.rip \in Starts /\ whp.rip < Len(Code)
    /\ phase' = "failed"
    /\ LET i == Current
           d == Decode(Fetched(Len(Encode(i))))
       IN  \/ UNCHANGED log
           \/ /\ i.op \in {"store", "imm"} /\ d # None
              /\ BusWrite(i.gpa, SubSeq(IF d.immediate # <<>> THEN Padded(d.immediate)
                                        ELSE RegisterValue(GetRegs(whp), d.register),
                                        1, d.size))
    /\ UNCHANGED <<program, whp, slots, ref>>

(* HLT after the program, and what a guest does that runs astray.            *)
Halt ==
    /\ phase = "running"
    /\ whp.rip >= Len(Code) \/ whp.rip \notin Starts
    /\ phase' = "halted"
    /\ UNCHANGED <<program, whp, slots, log, ref>>

(* Before the first vCPU runs, and how it starts to run a program.          *)
FirstRegs == [n \in ToSet(StandardRegNames) |->
                 IF n = "rip" THEN 0
                 ELSE [k \in 1 .. 8 |-> 16 * At(Gp, n) + k - 17]]

CpuInit ==
    /\ program = <<>>
    /\ whp = FirstRegs
    /\ slots = <<>> /\ log = <<>>
    /\ phase = "registering"
    /\ ref = [regs |-> whp, log |-> <<>>]

PowerOn ==
    /\ phase = "registering"
    /\ phase' = "running"
    /\ program' \in SeqOf(Instructions, MaxProgram) \ {<<>>}
    /\ UNCHANGED <<whp, slots, log, ref>>

PowerOff ==
    /\ program' = <<>> /\ whp' = FirstRegs
    /\ slots' = <<>> /\ log' = <<>>
    /\ phase' = "registering"
    /\ ref' = [regs |-> FirstRegs, log |-> <<>>]

--------------------------------------------------------------------------
(* The handlers move whole registers: a load or an IN of less than 4 bytes  *)
(* clears the rest of its register, a byte of AH..BH is taken for one of    *)
(* RSP..RDI, and an immediate is not extended by its sign.                  *)
Narrow(i) == i.op \in {"load", "in"} /\ i.size < 4
HighByte(i) == i.op \in {"load", "store"} /\ i.size = 1 /\ i.reg \in 4 .. 7
Signed(i) == i.op = "imm" /\ i.size = 8 /\ i.imm[4] > 127
Target(i) == IF i.op = "in" THEN "rax" ELSE Gp[i.reg + 1]
Programs(P(_)) == \E k \in DOMAIN program : P(program[k])

(* After every handled exit RIP stands at the beginning of an instruction,  *)
(* that of the next one: a length wrong by one byte for one form of address *)
(* or one prefix would make the guest execute the middle of an instruction  *)
(* (handle_mmio uses the decoder's instruction_len for all of them).        *)
OnBoundary == whp.rip \in Starts /\ whp.rip = ref.regs.rip

(* All sixteen registers hold what the processor would have left in them,   *)
(* after any number of loads, stores and port accesses and of the round     *)
(* trips through get_regs and set_regs; of a register that was the target   *)
(* of a narrow load, the byte loaded.                                       *)
RegistersAgree ==
    ~Programs(HighByte) =>
        \A n \in ToSet(Gp) :
            \/ whp[n] = ref.regs[n]
            \/ /\ \E k \in DOMAIN program : Narrow(program[k]) /\ Target(program[k]) = n
               /\ whp[n][1] = ref.regs[n][1]

(* The devices have been asked for exactly the stores of the program, each  *)
(* at the device that owns the address, in order, with the bytes stored.    *)
DevicesSee ==
    ~(Programs(Narrow) \/ Programs(HighByte) \/ Programs(Signed)) /\ phase # "failed"
        => log = ref.log
============================================================================
