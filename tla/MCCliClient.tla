---------------------------- MODULE MCCliClient ----------------------------
(* Snapshots at and around the thresholds, as the guest agent makes them    *)
(* from /proc: counters that grow, counters that a reboot of the guest has  *)
(* reset, a guest whose /proc cannot be read, and one of the simulator's.   *)
EXTENDS CliClient, GuestAgent

Ticked(user, idle, wait) ==
    [user |-> user, nice |-> 0, system |-> 0, idle |-> idle, iowait |-> wait,
     irq |-> 0, softirq |-> 0]

Card(rx, errors) == [iface |-> "eth0", rx_bytes |-> rx, rx_packets |-> rx, rx_errors |-> errors,
                     tx_bytes |-> 0, tx_packets |-> 0, tx_errors |-> 0]

\* two cores that were busy for a% and b% of 100 ticks; the first waits for a disk.
\* used is in quarters of a MiB, of 1000 MiB
Proc(now, a, b, used, swap, rx, errors) ==
    [now |-> now, uptime |-> 200,
     stat1 |-> <<Ticked(10, 0, 0), Ticked(5, 0, 0), Ticked(5, 0, 0)>>,
     stat2 |-> <<Ticked(10 + a + b, 100 - b, 100 - a), Ticked(5 + a, 0, 100 - a),
                 Ticked(5 + b, 100 - b, 0)>>,
     meminfo |-> [MemTotal |-> 4000, MemFree |-> 4000 - used - 10, Cached |-> 10,
                  SwapTotal |-> 100, SwapFree |-> 100 - swap],
     diskstats |-> <<[name |-> "sda", reads |-> 1, read_sec |-> 2, writes |-> 0, write_sec |-> 0],
                     Short>>,
     net |-> <<Short, Short, [Card(9, 0) EXCEPT !.iface = "lo"], Card(rx, errors),
              [iface |-> "eth1", rx_bytes |-> rx]>>,
     procs |-> <<Short, [utime |-> 1, stime |-> 1], [utime |-> a, stime |-> a]>>]

Unreadable == [Proc(3, 0, 0, 0, 0, 0, 0) EXCEPT !.stat2 = <<>>, !.meminfo = <<>>,
               !.diskstats = <<>>, !.net = <<>>, !.procs = <<>>]

MCData == <<CollectSnapshot(Proc(1, 75, 75, 360, 20, 40000, 10)),
            CollectSnapshot(Proc(2, 100, 82, 3602, 21, 80000, 11)),
            CollectSnapshot(Proc(3, 76, 76, 3604, 51, 5, 101)),
            CollectSnapshot(Unreadable),
            Simulated("CpuSpike", 7)>>

ASSUME DataIsWellFormed == \A k \in DOMAIN MCData : IsSnapshot(MCData[k])
============================================================================
