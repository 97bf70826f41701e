----------------------------- MODULE GuestAgent -----------------------------
(***************************************************************************)
(* The agent inside the guest (hitz-guest-agent): how it makes a snapshot   *)
(* from the files under /proc.                                              *)
(*                                                                          *)
(* A file is the sequence of its lines, a line the numbers the agent takes  *)
(* from it, or Short when it has too few columns (of /proc/net/dev: no      *)
(* colon).  A file that cannot be read is empty.  Sizes of memory are in    *)
(* quarters of a MiB and sizes on disk in sectors of 512 bytes; meminfo is  *)
(* a function from the keys that are there.                                 *)
(***************************************************************************)
EXTENDS Metrics

Short == <<>>

Minus(a, b) == IF a > b THEN a - b ELSE 0

(* proc.rs: the ticks of one line of /proc/stat.                            *)
CpuSample == [user : Nat, nice : Nat, system : Nat, idle : Nat,
              iowait : Nat, irq : Nat, softirq : Nat]

Active(c) == c.user + c.nice + c.system + c.irq + c.softirq

Ticks(c) == Active(c) + c.idle + c.iowait

(* A counter that went back counts as no progress.                          *)
CpuPct(prev, curr) ==
    LET total == Minus(Ticks(curr), Ticks(prev))
    IN  IF total = 0 THEN 0 ELSE (Minus(Active(curr), Active(prev)) * 100) \div total

(* /proc/meminfo: no answer without a total.                                *)
NoMemory == [total |-> 0, used |-> 0, swap_total |-> 0, swap_used |-> 0]

ParseProcMeminfo(file) ==
    LET of(key) == IF key \in DOMAIN file THEN file[key] ELSE 0
        total == of("MemTotal")
    IN  IF total = 0 THEN NoMemory
        ELSE [total |-> total,
              used |-> Minus(total, of("MemFree") + of("Buffers") + of("Cached")),
              swap_total |-> of("SwapTotal"),
              swap_used |-> Minus(of("SwapTotal"), of("SwapFree"))]

ByName(lines, name(_), value(_)) ==
    [n \in {name(lines[k]) : k \in DOMAIN lines} |->
        value(lines[CHOOSE k \in DOMAIN lines : name(lines[k]) = n])]

(* /proc/diskstats.                                                         *)
ParseProcDiskstats(file) ==
    ByName(SelectSeq(file, LAMBDA l : l # Short), LAMBDA l : l.name,
           LAMBDA l : [reads |-> l.reads, writes |-> l.writes,
                       read_bytes |-> l.read_sec * 512, write_bytes |-> l.write_sec * 512])

(* /proc/net/dev: two lines of heading, and the loopback passed over; a     *)
(* column that is missing counts as zero.                                   *)
ParseProcNetDev(file) ==
    LET lines == SelectSeq(SubSeq(file, 3, Len(file)),
                           LAMBDA l : l # Short /\ l.iface # "lo")
    IN  ByName(lines, LAMBDA l : l.iface,
               LAMBDA l : [c \in {"rx_bytes", "tx_bytes", "rx_packets", "tx_packets",
                                  "rx_errors", "tx_errors"} |->
                            IF c \in DOMAIN l THEN l[c] ELSE 0])

(* parse_proc_pid_stat: the share of the time since boot, at most 100.      *)
ParseProcPidStat(line, uptime) ==
    IF uptime = 0 THEN 0 ELSE AtMost(((line.utime + line.stime) * 100) \div uptime, 100)

(* Mutant: the first n of the directory instead of the busiest.             *)
CollectTopProcs_Unsorted(entries, uptime, n) ==
    LET lines == SelectSeq(entries, LAMBDA l : l # Short)
        procs == [k \in DOMAIN lines |-> ParseProcPidStat(lines[k], uptime)]
    IN  SubSeq(procs, 1, AtMost(Len(procs), n))

(* collect_top_procs: what is not a process, has gone or cannot be parsed   *)
(* is passed over; the n busiest come first.                                *)
CollectTopProcs(entries, uptime, n) ==
    LET lines == SelectSeq(entries, LAMBDA l : l # Short)
        procs == [k \in DOMAIN lines |-> ParseProcPidStat(lines[k], uptime)]
        sorted == SortSeq(procs, LAMBDA a, b : a > b)
    IN  SubSeq(sorted, 1, AtMost(Len(sorted), n))

TOP_N_PROCS == 10

(* collect_snapshot: /proc/stat is read twice, and only the lines of both   *)
(* readings are compared.                                                   *)
CollectSnapshot(p) ==
    LET lines == AtMost(Len(p.stat1), Len(p.stat2))
        pct(k) == CpuPct(p.stat1[k], p.stat2[k])
    IN  [timestamp_ms |-> p.now,
         cpu |-> IF lines = 0 THEN 0 ELSE pct(1),
         per_core |-> [k \in 1 .. Minus(lines, 1) |-> pct(k + 1)],
         memory |-> ParseProcMeminfo(p.meminfo),
         disks |-> ParseProcDiskstats(p.diskstats),
         networks |-> ParseProcNetDev(p.net),
         processes |-> CollectTopProcs(p.procs, p.uptime, TOP_N_PROCS)]
=============================================================================
