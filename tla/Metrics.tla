------------------------------ MODULE Metrics ------------------------------
(***************************************************************************)
(* Snapshots of a guest's resources, and the analyses of hitz-api and of   *)
(* the command line client: pure functions of one or two snapshots.        *)
(*                                                                         *)
(* Percentages of the CPU are whole numbers.  A percentage that the code   *)
(* computes as a quotient is compared here by cross-multiplication, which  *)
(* is exact where the code rounds.  Memory is counted in quarters of a     *)
(* MiB, so that what is cut to whole MiB shows.  Disks and network         *)
(* interfaces are functions on their names; the code searches its lists.   *)
(***************************************************************************)
EXTENDS Integers, Sequences, FiniteSets, SequencesExt, FiniteSetsExt

\* of the unit in which memory is counted
MiB == 4

(***************************************************************************)
(* metrics.rs: the parts of a snapshot that the analyses read.             *)
(***************************************************************************)
MemoryMetrics == [total : Nat, used : Nat, swap_total : Nat, swap_used : Nat]

DiskMetrics == [reads : Nat, writes : Nat, read_bytes : Nat, write_bytes : Nat]

NetMetrics == [rx_bytes : Nat, tx_bytes : Nat, rx_packets : Nat, tx_packets : Nat,
               rx_errors : Nat, tx_errors : Nat]

\* of a process only its share of the CPU; no load averages
ProcMetrics == Nat

CpuMetrics(s) == s.cpu \in Nat /\ s.per_core \in Seq(Nat)

IsSnapshot(s) ==
    /\ s.timestamp_ms \in Nat /\ CpuMetrics(s)
    /\ s.processes \in Seq(ProcMetrics)
    /\ s.memory \in MemoryMetrics
    /\ \A n \in DOMAIN s.disks : s.disks[n] \in DiskMetrics
    /\ \A n \in DOMAIN s.networks : s.networks[n] \in NetMetrics

(***************************************************************************)
(* simulator.rs: the snapshot of one iteration, of a VM of 1 GiB.           *)
(***************************************************************************)
Least(a, b) == IF a < b THEN a ELSE b

Simulated(profile, iteration) ==
    LET cpu == CASE profile = "CpuSpike" -> Least(iteration * 15, 95)
                 [] profile = "MemoryLeak" -> 10
                 [] profile = "Idle" -> 5
        used == IF profile = "MemoryLeak" THEN 100 + iteration * 50 ELSE 100
    IN  [timestamp_ms |-> (iteration + 1) * 1000, cpu |-> cpu, per_core |-> <<cpu>>,
         memory |-> [total |-> 1024 * MiB, used |-> used * MiB, swap_total |-> 0, swap_used |-> 0],
         disks |-> <<>>, networks |-> <<>>, processes |-> <<>>]

\* part / whole * 100 > t, where the code has guarded against whole = 0
Exceeds(part, whole, t) == whole > 0 /\ part * 100 > t * whole

Below(part, whole, t) == whole > 0 /\ part * 100 < t * whole

\* the percentage as it is printed, with one decimal: in tenths
Printed(part, whole) == (part * 1000 + whole \div 2) \div whole

Errors(s) == FoldSet(LAMBDA n, acc : acc + s.networks[n].rx_errors + s.networks[n].tx_errors,
                     0, DOMAIN s.networks)

-----------------------------------------------------------------------------
(***************************************************************************)
(* health.rs: four checks, each of which adds at most one reason.  A       *)
(* reason is what is wrong, how much so, and the number that is printed.   *)
(***************************************************************************)
Check(what, critical, warning, shown) ==
    IF critical THEN <<[what |-> what, level |-> "Critical", shown |-> shown]>>
    ELSE IF warning THEN <<[what |-> what, level |-> "Warning", shown |-> shown]>>
    ELSE <<>>

Reasons(s) ==
    LET m == s.memory IN
       Check("cpu", s.cpu > 90, s.cpu > 75, s.cpu * 10)
    \o Check("memory", Exceeds(m.used, m.total, 90), Exceeds(m.used, m.total, 75),
             IF m.total > 0 THEN Printed(m.used, m.total) ELSE 0)
    \o Check("swap", Exceeds(m.swap_used, m.swap_total, 50),
             Exceeds(m.swap_used, m.swap_total, 20),
             IF m.swap_total > 0 THEN Printed(m.swap_used, m.swap_total) ELSE 0)
    \o Check("network", Errors(s) > 100, Errors(s) > 10, Errors(s))

Worst(levels) == IF "Critical" \in levels THEN "Critical"
                 ELSE IF "Warning" \in levels THEN "Warning" ELSE "Healthy"

AssessHealth(s) ==
    LET reasons == Reasons(s)
    IN [status |-> Worst({reasons[i].level : i \in DOMAIN reasons}), reasons |-> reasons]

-----------------------------------------------------------------------------
(***************************************************************************)
(* analyzer.rs, the client's own analysis of a running VM.                 *)
(***************************************************************************)
Graded(what, critical, warning) ==
    <<[level |-> IF critical THEN "Critical" ELSE IF warning THEN "Warning" ELSE "Info",
       what |-> what]>>

Only(cond, level, what) == IF cond THEN <<[level |-> level, what |-> what]>> ELSE <<>>

AnalyzeVm(config, s) ==
    LET m == s.memory IN
       Graded("cpu", s.cpu > 90, s.cpu > 75)
    \o (IF m.total > 0
        THEN Graded("memory", Exceeds(m.used, m.total, 90), Exceeds(m.used, m.total, 75))
             \o Only(Below(m.used, m.total, 10) /\ config.ram_mib > 512, "Info", "overprovisioned")
        ELSE <<>>)
    \o Only(s.processes # <<>> /\ Head(s.processes) > 80, "Warning", "process")
    \o Only(Errors(s) > 0, "Warning", "network")

-----------------------------------------------------------------------------
(***************************************************************************)
(* diff.rs: counters that advanced between two snapshots, and the time     *)
(* that passed.  A rate is the difference in that time, compared with a    *)
(* limit by Rate.  The counters are unsigned and the subtraction saturates.*)
(***************************************************************************)
NoDiff == [elapsed_ms |-> 0, disks |-> <<>>, networks |-> <<>>]

Advance(now, before) == IF now >= before THEN now - before ELSE 0

Advances(now, before) ==
    [name \in DOMAIN now \cap DOMAIN before |->
        [c \in DOMAIN now[name] |-> Advance(now[name][c], before[name][c])]]

Diff(s, previous) ==
    IF s.timestamp_ms <= previous.timestamp_ms
    THEN NoDiff
    ELSE [elapsed_ms |-> s.timestamp_ms - previous.timestamp_ms,
          disks |-> Advances(s.disks, previous.disks),
          networks |-> Advances(s.networks, previous.networks)]

\* more than `limit' in `ms' milliseconds
Rate(d, count, limit, ms) == count * ms > limit * d.elapsed_ms

(***************************************************************************)
(* classifier.rs                                                           *)
(***************************************************************************)
IoHeavy(d) ==
    \/ \E n \in DOMAIN d.disks : \/ Rate(d, d.disks[n].reads, 500, 1000)
                                 \/ Rate(d, d.disks[n].writes, 500, 1000)
    \/ \E n \in DOMAIN d.networks : \/ Rate(d, d.networks[n].rx_bytes, 10000, 1)
                                    \/ Rate(d, d.networks[n].tx_bytes, 10000, 1)

ClassifyWorkload(s, d) ==
    CASE s.cpu > 80 -> "ComputeBound"
      [] s.cpu <= 80 /\ Exceeds(s.memory.used, s.memory.total, 80) -> "MemoryBound"
      [] s.cpu <= 80 /\ ~Exceeds(s.memory.used, s.memory.total, 80) /\ IoHeavy(d) -> "IoHeavy"
      [] OTHER -> "Idle"

-----------------------------------------------------------------------------
(***************************************************************************)
(* rightsizer.rs: the configuration that the recommendations lead to.      *)
(* The configured size counts, not the guest's total.                      *)
(***************************************************************************)
Larger(a, b) == IF a > b THEN a ELSE b

SuggestedCpus(s, config) ==
    IF s.cpu > 90 THEN config.cpus + 1
    ELSE IF s.cpu < 10 /\ config.cpus > 1 THEN Larger(config.cpus - 1, 1)
    ELSE config.cpus

SuggestedRam(s, config) ==
    LET used == s.memory.used
        ram == config.ram_mib * MiB
    IN
    IF Exceeds(used, ram, 90) THEN config.ram_mib * 2
    ELSE IF Below(used, ram, 20) /\ config.ram_mib > 128
    THEN Larger(config.ram_mib \div 2, 128)
    ELSE config.ram_mib

RecommendSizing(s, config) ==
    [config EXCEPT !.cpus = SuggestedCpus(s, config), !.ram_mib = SuggestedRam(s, config)]

(***************************************************************************)
(* efficiency.rs: the score in quarters of a point, for a total of memory  *)
(* that divides 400 * used.                                                *)
(***************************************************************************)
CpuPenalty(s) == IF s.cpu < 40 THEN (40 - s.cpu) * 5 ELSE 0

MemoryPenalty(s) ==
    IF Below(s.memory.used, s.memory.total, 50)
    THEN 200 - (400 * s.memory.used) \div s.memory.total ELSE 0

Efficiency(s) == Larger(400 - CpuPenalty(s) - MemoryPenalty(s), 0)

(***************************************************************************)
(* imbalance.rs: the quotient of two standard deviations exceeds one half  *)
(* when four times the first variance exceeds the second.                  *)
(***************************************************************************)
SumOf(seq) == FoldLeft(LAMBDA acc, x : acc + x, 0, seq)

Imbalanced(s) ==
    LET n == Len(s.per_core)
        squares == [i \in 1..n |-> s.per_core[i] * s.per_core[i]]
        sum == SumOf(s.per_core)
    IN n > 1 /\ 4 * (n * SumOf(squares) - sum * sum) > 10000 * (n - 1)

(***************************************************************************)
(* fingerprint.rs: a bucket for each resource.                             *)
(***************************************************************************)
AtMost(x, limit) == IF x > limit THEN limit ELSE x

\* the whole part of the decimal logarithm, up to 9
Magnitude(bytes) == Cardinality({k \in 1..9 : bytes >= 10^k})

Total(resources, a, b) ==
    FoldSet(LAMBDA n, acc : acc + resources[n][a] + resources[n][b], 0, DOMAIN resources)

Fingerprint(s) ==
    [cpu |-> AtMost(s.cpu \div 10, 10),
     ram |-> IF s.memory.total > 0
             THEN AtMost((s.memory.used * 10) \div s.memory.total, 10) ELSE 0,
     disk |-> Magnitude(Total(s.disks, "read_bytes", "write_bytes")),
     net |-> Magnitude(Total(s.networks, "rx_bytes", "tx_bytes"))]

(***************************************************************************)
(* carbon.rs, with the default factors: watts of cores and memory times    *)
(* overhead and grid intensity.  Unit: milligrams per second times 7.2     *)
(* million and the quarters of a MiB.                                      *)
(***************************************************************************)
CpuPower(s, vcpus) == vcpus * 200 + 8 * vcpus * AtMost(Larger(s.cpu, 0), 100)

EstimateCarbon(s, intensity, vcpus) ==
    (1024 * MiB * CpuPower(s, vcpus) + 50 * s.memory.total) * 3 * intensity

(***************************************************************************)
(* sentinel.rs: a threshold on one target.                                 *)
(***************************************************************************)
TargetValue(s, target) == IF target = "CpuTotalPct" THEN s.cpu ELSE s.memory.used

Evaluate(rule, s) ==
    LET value == TargetValue(s, rule.target) IN
    CASE rule.operator = "GreaterThan" -> value > rule.threshold
      [] rule.operator = "LessThan" -> value < rule.threshold
      [] rule.operator = "Equals" -> value = rule.threshold
=============================================================================
