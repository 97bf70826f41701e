# A TLA+ verification of hitz

hitz runs Linux micro-VMs on the Windows Hypervisor Platform.  A daemon keeps
a table of VMs, persists it, serves an HTTP API, and executes each VM on its
own threads; the devices of a VM are emulated in the process.  This directory
holds TLA+ models of hitz, from the command line client to the emulation of the
guest's instructions, the TLC runs that check them on small instances, and TLAPS
proofs of the most important results.  `PROJECT.json` relates every definition to its
source lines and lists runs, mutants, findings, hazards and theorems.

Paths below are relative to `crates/` of the repository.

## 1. Inventory

| Component | State | Operations | Interacts with | What is hard | What makes it correct |
|---|---|---|---|---|---|
| VM manager (`hitz-daemon/src/vm_manager.rs`) | the map of entries (state, config, stop flag, serial buffer) behind a mutex; the completion channel | create, clone, start, stop, restart, delete, get, list, serial_reader, stop_all, stop_all_and_wait; one task per running VM | called by the router on many connections at once; calls the store, spawns `boot_and_run`, closes serial buffers | file operations after the unlock; tasks that find their entry by name; errors half way; shutdown while requests are served | no guest without an entry that can stop it, no Running entry without a guest, a stop takes effect, the shutdown waits for what it flagged |
| State store (`hitz-daemon/src/state_store.rs`) | `<id>/config.json`, `<id>/state.json` | save_config, save_state, delete, load_all | written by requests and tasks, read by a new daemon | no lock; writes that are not atomic; crashes | files agree with the map; a VM that ran is recovered as one that ran |
| Routing, server (`router.rs`, `server.rs`) | none beyond connections | dispatch of requests, body limit, serial streaming | VM manager, serial readers | concurrency of requests | each request does what its handler says |
| Daemon process (`hitz-cli/src/main.rs`, `server.rs`) | shutdown signals, listeners, the service's registry entry | start, install, remove, service entry, run_daemon_inner | manager, servers, service control manager | connections still open during shutdown, errors before the service runs | a stop ends the process, and its VMs before it |
| vCPU threads (`hitz-vmm/src/vm.rs`, `run_loop.rs`) | stop flag, cancel requests, result channel, devices' mutex | run_single_vcpu, run_multi_vcpu, watchdog, cancel_all_vcpus, run_vcpu_loop | the manager's stop flag, the hypervisor, devices | threads, timeout, panics, cancel racing run | a stop or an exit ends the VM, all threads end, the reported reason is true |
| Serial ring (`hitz-vmm/src/serial_buf.rs`) | ring, positions, closed flag, watch channel | write, close, reader, read_chunk | serial device (writer), HTTP streams (readers) | wrap-around, lapped readers, wake-ups | readers get exactly the output's tail, and their end |
| Run loop interrupts, MMIO (`run_loop.rs`, `mmio_decode.rs`) | one pending vector per vCPU | poll_devices, dispatch_exit, handle_mmio, decode | vCPU, MMIO bus | one slot for several interrupts; lengths of instructions | no interrupt is lost, the emulation agrees with the processor |
| Virtqueue (`hitz-devices/src/virtio/queue.rs`) | last seen index; rings in guest memory | pop_chain, push_used | the guest's driver, concurrently | 16-bit wrap, cyclic chains | each chain is taken once and returned once |
| Virtio transport (`virtio/mmio_transport.rs`), MMIO bus | status, features, queue registers, interrupt status | read_reg, write_reg, reset, poll | driver, devices, run loop | order of register writes | no queue is processed before DRIVER_OK; interrupts are signalled until acknowledged |
| Devices (`virtio/{block,net,vsock}.rs`, `serial.rs`) | back ends, buffers | process_queue, poll | virtqueue, host files and channels | malformed requests, full buffers | every request is answered once |
| Guest memory (`hitz-vmm/src/memory.rs`) | regions | add_region, lookup, read, write | loader, devices | boundaries, overflow | an access lies in one region or fails |
| Port forwarding (`port_forward.rs`) | listeners, relays | start, drop | task of a VM | relays accepted during the drop | nothing outlives the VM |
| Guest metrics (`vsock_server.rs`, guest agent, `vsock_io.rs`) | channels, the task's blocking thread | run_metrics_task, handle_packet | vsock device, agent | a receive that cannot be cancelled, frames split over packets | a frame that is received is published once, in order; task and thread end with the VM |
| Host networking (`hitz-net`) | ring buffers of the adapter | reader and writer threads, ethernet parsing | net device | stopping the threads | threads end with the VM |
| Boot (`hitz-boot`, `boot_regs.rs`) | guest memory being built | load kernel, page tables, ACPI, initramfs overlay | `boot_and_run` | address layout | areas do not overlap |
| HAL and WHP back end (`hitz-hal`, `hitz-whp`) | partition and vCPU handles | create, map, run, cancel | system calls | semantics of cancel | resources are freed once |
| Command line client (`hitz-cli`) | the terminal, a recording | vm commands, top, dashboard, record, timeline | daemon, one request at a time | lost and unreadable answers, torn recordings | it reports what happened, and shows what it was told |
| Guest agent, API types (`hitz-guest-agent`, `hitz-api`) | counters of the previous sample | /proc parsers, scores, diff, recommendations | metrics path, client | counters that go back, thresholds, missing files | the analyses do not contradict each other |
| Telemetry, terraform and Prometheus export | none | exporters, formatting | | | |

The hazards, each at its line, are in `PROJECT.json`.

## 2. Modules

| Module | Models | Built on |
|---|---|---|
| `VmLifecycle` | the contract of the daemon | |
| `VmManager`, `MCVmManager` | manager and state store | implements `VmLifecycle` |
| `VcpuThreads` | the threads of one `boot_and_run` | |
| `SerialBuf` | the serial ring | |
| `RunLoop` | interrupts between devices, vCPU loops and guest | |
| `VirtQueue`, `VirtioMmioTransport`, `VirtioBackends`, `VirtioDevice` | one virtio device with its driver and the host behind it | each extends the one before |
| `GuestMemory`, `BootImage`, `Boot` | memory, what is laid into it, the pipeline of `boot_and_run` | each extends the one before |
| `Emulation` | MMIO and port accesses of the guest | |
| `Machine` | a VM from its configuration to its first instructions | composes `Boot` and `Emulation` |
| `DaemonService` | the daemon process and Windows service | |
| `VmTask` | the task of a VM and its blocking thread | |
| `Daemon` | the way down of a daemon with a VM | composes `DaemonService` and `VmTask` |
| `PortForward`, `NetIo` (with `Ethernet`), `MetricsTask` | the three services a VM has on the host | |
| `VmServices` | a VM with its services | composes `VmTask` and the three |
| `Metrics`, `GuestAgent` | analyses, and snapshots made from /proc | |
| `CliClient` | the command line client | extends `Metrics` |
| `VmManagerProofs`, `VcpuThreadsProofs`, `RunLoopProofs`, `SerialBufProofs`, `VirtioDeviceProofs`, `DaemonProofs`, `VmServicesProofs`, `CliClientProofs` | the proofs (section 5) | each extends the module it is about |

The modules named `MC...` give the constants their values.  Definitions with an
underscore in their name (`Startable_NotRunning`) are mutants: plausible
mistakes in the definition that follows them, each of which makes the property
listed with it in `PROJECT.json` fail.

### VmLifecycle

The contract of the daemon: the life cycle of `VmState` (with "Absent" for an
unknown name), and the set of names for which a partition exists.  A partition
comes into being only for a name that is Running, at most one at a time, and
its exit makes the name Stopped or Failed.  `Recover` is a new daemon process.

### VmManager

| Variable | Code |
|---|---|
| `vms` | `VmManager::vms`; a missing key is an entry with state "Absent" |
| `disk` | the two files of every VM: absent (`None`), "corrupt" or a value |
| `client` | one record per request in progress: where it is, and its locals |
| `run` | one record per start of a VM: its stop flag, whether its serial buffer is closed, its task |
| `completions` | the number of messages in the completion channel (their ids are not looked at) |
| `waiter` | the locals of `stop_all_and_wait` and, as history, the runs it flagged |
| `crashes` | bounds the number of restarts |

An action is one section under the `vms` mutex or one file operation: these are
the places where requests can interleave.  `create_vm` is `CreateVm`,
`SaveConfig`, `SaveCreated` and, on an error, `Rollback`; `start_vm` is
`StartVm`, `SaveRunning`, `Spawn`; the task is `BootAndRunReturns`,
`RecordExit`, `SaveExit`, `SendCompletion`; `delete_vm` is `DeleteVm`,
`DeleteDir`; `restart_vm` is `RestartVm`, `Poll`, `RestartStart` and the rest
of `start_vm`.  Requests that are refused at once change nothing and are left
to stuttering.  `Failing` names the operations whose file operations may return
errors (the old file or a truncated one is left); with `TornIo` a crash may also
leave truncated files.  `CrashAndRecover` is the end of the process followed by
`VmManager::new`.

Abstractions: `exit_reason`, timestamps and metrics are not kept;
`boot_and_run` is a run that ends as Stopped or Failed at any time (its inside
is `Boot` and `VcpuThreads`).  The mutex is never poisoned: the sections under
it do not panic.

### VcpuThreads

The threads of one `boot_and_run`: for every vCPU the loop "check the flag, poll
the devices, run, handle the exit" and what its thread does afterwards, the
watchdog, and the collecting thread.  `cancel[v]` is the hypervisor's pending
cancel request: `WHvCancelRunVirtualProcessor` ends the run in progress or the
next one; this is an assumption about code outside the repository.  The
single-vCPU path has its own end (`SingleEnds`).  The stop flag is accessed with
relaxed ordering; a lone atomic flag that is eventually visible behaves as the
sequentially consistent one of the model.  Device accesses work, fail or panic.
The three seconds of the collector may elapse at any time after the spawns.

### SerialBuf

The ring with its positions, the watch channel, the writer, the closer and the
readers.  A byte is its position in the output, so that the properties can tell
it from every other byte.  The unlock and the following `send` are two steps.
`close` comes after the vCPU threads have ended (`boot_and_run` joins them), so
it does not race a write.

### RunLoop

Each vCPU thread alternates between `poll_devices`, the guest, and the handling
of an exit; between the bus lookup and the injection the devices are unlocked,
so these are two steps.  `injected` is the hypervisor's pending interruption
register, which `inject_interrupt` overwrites; `pending_irq` is the local of
`run_vcpu_loop`.  The guest enables and disables interrupts, notifies devices,
and runs a handler that reads the status, acknowledges it and looks at the used
rings, with an exit at each register.  What is in the rings is reduced to
`unseen`; the rings themselves are in `VirtioDevice`.

### VirtQueue, VirtioMmioTransport, VirtioBackends, VirtioDevice

A queue is the device's record of it; the rings and descriptors are in guest
memory, where the driver works on them at the same time.  A step of the device
is one chain, since a driver on another vCPU can come between two.  The driver
sets the device up register by register, makes chains available, consumes what
is used, and resets the device at any time.  Its chains (`Shapes`, `Astray`,
`Tails`) are good ones and some that no driver should build: a buffer that is too
short, longer than the device takes, in the wrong direction or at an address that is not
mapped, a missing header, payload or status, a chain that goes round, one whose last
descriptor leads out of the table.  A head outside the table is not among them, nor
is a cycle shorter than the table, in which the device would use a buffer twice.
The device writes a vsock packet into its first buffer whatever the buffer's length
(`vsock.rs:342-350`); the memory that comes behind a short buffer is not modelled,
only the packet.  The back ends are functions of a chain: block requests
on a small disk, frames with the virtio-net header, vsock packets; the host's
end are two channels.  `tx_expect` and `rx_expect` are the frames that the guest
and the host have sent.  Sizes (sector, header, limits) are constants and scaled
down; indices are taken modulo `IdxMod`.

### GuestMemory, BootImage, Boot

`GuestMemory` is the region list with its checks of bounds and overflow; its
content is the list of slices written, so that an overwriting can be seen.
`BootImage` has the structures with the addresses of the code, in KiB: page
tables and the walk a processor makes through them, ELF segments, the E820 map,
the initramfs with the overlay of the agent, ACPI tables, command line and
special registers.  `Boot` is the pipeline: one action per call of
`boot_and_run`, each of which may fail, and the teardown in the order in which
Rust drops what was built.  The kernel file may be replaced between the two
reads.

### Emulation

A program of some instructions is run twice: by the code (`whp`), from the
instruction bytes through the decoder, the bus, and the arrays in which the
registers travel, and by a processor (`ref`).  A register is the sequence of its
eight bytes, and the instruction bytes are real, so lengths, prefixes and
extensions are those of the instruction set.

### DaemonService, VmTask, Daemon

The process in the foreground or under the service control manager, its
listeners and connections, `run_daemon_inner`, the shutdown of the runtime with
its five seconds.  `ParseServiceArgs` takes whatever the service control manager
hands over: it parses, with or without a TCP listener, or it does not; which state
directory comes of it is not kept.  `VmTask` is the task of `start_vm` with the blocking thread
that boots the guest.  In `Daemon` an open connection may still start or stop
the VM while the daemon is on its way down.  `VmManager` has the interplay of
many requests, so here there is one VM, started at most once; `early` remembers
whether that was before `stop_all_and_wait` looked for VMs.

### PortForward, NetIo, Ethernet, MetricsTask, VmServices

Listeners, relays and the mutex around their handles, with aborts that take
effect at an await; the I/O thread between the adapter and the device's
channels, with frames as records and an ARP responder.  In `MetricsTask` the agent
connects, writes length and body, in one packet or in two, and may be given up by
the guest's kernel; other programs of the guest send packets that the host does not
answer.  The task looks at its shutdown channel and at the packets (`look`), or waits
for its blocking thread or the shutdown (`wait`); the thread `reader` goes on when the
task has given it up.  `signal` is the shutdown channel: `true` is sent, or its
sender is dropped with the managers.  An answer is dropped when the device is gone.
`VmServices` starts and drops them as `start_vm` and `boot_and_run` do, and may
take the runtime away at any time.

### Metrics, GuestAgent, CliClient

The analyses are functions of one or two snapshots; quotients are compared by
cross-multiplication, and percentages of the CPU are whole numbers.
`GuestAgent` makes the snapshots from the lines of /proc.  `CliClient` runs one
command after the other: a request is served in one step and its answer handled
in a later one, and the VM may change, and the answer may get lost, refused or
garbled, in between.  A start or a deletion may be carried out and then answered with
the error of its save; a creation may be refused for one.  A line of the recording
may be cut, also within a character.  Terminal calls may fail, those that restore it
too.  Sizes of memory are in quarters of a MiB, because the client's table cuts them to
whole MiB before it grades them.  This daemon refuses every request for metrics
(`request_metrics_snapshot` is a stub), so the run uses a daemon of the same
API that has snapshots (`MetricsServed`).

## 3. Runs

Every run ends within three minutes.  Deadlock is checked where the
system goes on for ever (the manager's runs, `run_loop`, `virtio`, `machine`)
and not where it ends.

| Run | Bounds | Shows |
|---|---|---|
| `manager_safety` | 1 name, 2 clients, 2 runs, 1 crash, torn I/O, failing start/exit/delete | `TypeOK`, `NoOrphan`, `SerialTracksRun`, refinement of `VmLifecycle` |
| `manager_sequential` | 2 names, 1 client, 2 runs, 1 crash, failing create/delete | `RunningHasTask`, `RanStaysRan` |
| `manager_liveness` | 2 names, 1 client besides `stop_all` and the shutdown, 2 runs, fair | `ConfigDurable`, `StopTakesEffect`, `ShutdownDrains` |
| `vcpu_threads` | 1 or 2 vCPUs, failing and panicking devices, fair | `NoHungThreads`, `ReasonIsTrue`, `StopEndsVm`, `ExitEndsVm` |
| `serial_ring` | capacity 3, 2 readers, writes up to 4, 7 bytes, fair | `RingHoldsTail`, `ReadsTheTail`, `Delivered`, `CloseEndsReaders` |
| `run_loop` | 2 vCPUs, 1 device, 2 frames ready, fair | `RaisedIsOnItsWay`, `UsedIsAnnounced`, `Seen` |
| `virtio` | each device, queues of 2 or 4 with indices modulo 8, 2 frames each way, 1 reset (1.1 million states) | `RingsAgree`, `TxInOrder`, `RxInOrder` |
| `machine` | 44 configurations, 8 kernel files, programs of 2 of 37 instructions | `IdentityMapped`, `Intact`, `GuestFinds`, `OnBoundary`, `RegistersAgree`, `DevicesSee` |
| `cli` | 2 commands, 3 requests each, 5 snapshots, 3 recorded lines (1.6 million states) | `ActionsReported`, `ScreenIsHonest`, `TimelineReplays`, `AnalysesAgree` |
| `daemon` | 2 connections, 1 VM, with and without TCP, fair | `QuietWhenStopped`, `StopEnds` |
| `vm_services` | 2 rules, 3 connections, 2 frames of 8, 1 packet of 3, 2 pushes, 1 packet of another program, fair (0.6 million states) | `RelaysTracked`, `FramesRight`, `MetricsHonest`, `ExitDrains` |
| `manager_early_return` | 2 names, 1 client | violates `WaitsForAll` |

Why these bounds.  All races of the manager are between two requests, or a
request and a task, on one name; names share nothing but the completion
channel, for which the shutdown runs have two.  Two runs let a name be deleted,
created and started again while the first task is still finishing.  One crash
shows recovery; the state after it is again an initial state up to the files.
Two polls stand for the fifty of `restart_vm` (first and last).  Two vCPUs
give one that ends and a sibling, or one that polls and one that acknowledges;
for the safety properties of `VcpuThreads` and `RunLoop` the proofs cover every
number.  A ring of three bytes has wrapping, exactly full, and oversized writes,
and seven bytes lap a reader twice.  Eight values of an index against queues of
two and four let the indices wrap while chains are in flight.  The devices share
no state, so each is checked with its own queues; for the same reason each VM of
`vm_services` exercises one of its services.  The configurations of `machine`
are those at the limits: RAM of 1 and 2 MiB, of a GiB and a bit, below the device
window, and of as many GiB as the page directories have room for; initramfs sizes at
and beside the alignment of cpio; kernels that do not fit, that leave an initramfs
no place below 4 GiB, or that are none.  Two
instructions show that the second begins where the first ends; single programs
have every form of address.  Snapshots lie at and beside the thresholds.

### Fairness

- Manager: weak fairness of the steps of requests under way and of tasks (the
  runtime schedules them), of `boot_and_run`'s return once the stop flag is set
  (shown in `VcpuThreads` as `StopEndsVm`), and of the receive in the shutdown.
  Clients, guests, crashes and the timeout are not fair.
- vCPU threads: weak fairness of each thread (the operating system schedules
  it, the hypervisor honours a cancel).  A guest need not exit.
- Serial: weak fairness of the send after an unlock and of readers that can
  proceed.  Nobody need write or close.
- Run loop: weak fairness of the loops and of the delivery of an injected
  interrupt, strong fairness of the guest's handler and of its enabling
  interrupts again: polls interrupt both over and over, and a guest that never
  does either would not see its devices on real hardware.
- Daemon: weak fairness of threads, tasks and timers; strong fairness of a
  listener's branch for the shutdown, since `select!` picks at random among the
  branches that are ready.  Neither guests nor clients need end.
- Services: weak fairness of threads, the metrics task's blocking one included, and
  of tasks.  No guest need exit.

## 4. Where the code and its documents differ

`manager_early_return` is the run that is expected to be violated: completions
of VMs that ended before the shutdown are counted by `stop_all_and_wait`
(`vm_manager.rs:804`), which then returns while a VM it flagged still runs; the
comment at 751-752 says it waits until all VMs are done.

The models show more, of which no run is kept.

Manager:
- `restart_vm` ends in a `start_vm` that accepts only Created VMs
  (`vm_manager.rs:567`), so it stops the VM and reports an error; the comment at
  547 says it starts it again;
- with two clients `ConfigDurable` fails: a `delete_vm` between the insertion and
  the saves of `create_vm` (310) leaves the files of a VM that is gone;
- with `Failing = {"start"}` `RunningHasTask` fails: an I/O error at 377 leaves an
  entry that is Running, has no task, and can be neither stopped nor deleted;
- with `Failing = {"create"}` and two clients `NoOrphan` fails: the rollback
  (314-318) removes an entry that the other client has started; and the rollback
  leaves config.json, so that the VM appears in the next daemon;
- with two clients and a crash `RanStaysRan` fails: the last save of `create_vm`
  (312) overwrites the Running of the other client's `start_vm`.

vCPUs and devices:
- the collector's three seconds run from the start of the VM (`vm.rs:717`), so a
  healthy VM with several vCPUs is stopped by them; and after the timeout all
  threads are joined, the stuck one too (744).  The phase 9 design counts from
  the cancel and abandons the thread;
- an error of the single run loop returns without stopping its watchdog
  (`vm.rs:632`), which is why `NoHungThreads` speaks of runs that return an exit
  reason; a panic under the devices' lock makes every other vCPU panic on it;
- with two devices `RaisedIsOnItsWay` and `Seen` fail: `pending_irq` and the
  pending interruption register hold one vector (`run_loop.rs:172`), and a second
  one takes its place.  `UsedIsAnnounced` holds for any number (section 5);
- a narrow load, or IN, clears the rest of the register; AH to BH are taken for
  the low bytes of RSP to RDI; C7 with REX.W stores a zero-extended immediate
  (the comment at `mmio_decode.rs:207` says sign-extended).  `RegistersAgree` and
  `DevicesSee` except these forms by name (`Narrow`, `HighByte`, `Signed`);
- an instruction that cannot be decoded is skipped by zero bytes and faults
  again for ever (`run_loop.rs:261`);
- the network device cuts a frame that a receive chain has no room for
  (`net.rs:162-184`), and a vsock packet is lost, though its chain is returned as
  used, when the first buffer is not mapped (`vsock.rs:342-350`); `RxInOrder` says so.

Boot:
- with 23 GiB of RAM or more the page directories reach the command line, which
  is written over the last of them, although `MAX_GIB` is 512; RAM above 3328 MiB
  covers the device window.  `IdentityMapped` and `Intact` are stated up to
  `PageTableLimit`;
- the comment of `acpi.rs:7-8` says that E820 reserves the tables; no entry does;
- a kernel file replaced by a longer one between its two reads overwrites the
  initramfs (`vm.rs:416`);
- an initramfs that cannot be read becomes an empty one when an agent is injected
  (`vm_manager.rs:841-860`), and a length that is not a multiple of four makes the
  agent's overlay unreadable; the block device is not on the command line.

Host:
- the forwarder is dropped at the end of the task, after the completion, contrary
  to the comment at `vm_manager.rs:452`; a relay in a listener's hand at that
  moment is not aborted, none is when the lock is taken, and `relays_active`
  counts aborted relays for ever (`RelaysTracked` says by how much);
- the built-in agent writes the length and the body of a frame as two packets,
  each of which is parsed as a frame, so nothing of it is ever published;
  `MetricsHonest` concerns whole frames;
- the comments at `vm_manager.rs:84-87` and 211-224 say that the daemon wires
  `set_shutdown_receiver` in production; nothing in the repository calls it, so a
  metrics task ends with its channel, the last manager or the runtime;
- errors before the service reports Running (`main.rs:652-681`) return without
  reporting Stopped, and the process stays ("abandoned" in `StopEnds`); a VM that
  an open connection starts during `stop_all_and_wait` is cut by the runtime's
  timeout;
- a service parses whatever arguments it is handed (`main.rs:640-656`), those of a
  manual start too, which need not name the state directory it was installed with;
- `daemon remove` sends a stop and ignores that a service which is still starting
  refuses it: the service goes on without its entry.

Client:
- an error answered to `vm start` or `vm delete` does not mean that nothing was done:
  `start_vm` and `delete_vm` change the table and then save (`vm_manager.rs:367-377`,
  708-710); and the failed save of `vm create` may leave config.json.
  `ActionsReported` excepts the first two by name;
- `vm timeline` passes over a line that is no snapshot, but a line that was torn within
  a character is not UTF-8, and the whole command ends in an error (`main.rs:2089`);
  `TimelineReplays` says which recordings can be shown;
- `vm metrics` and `vm top` cut memory to whole MiB before the percentage
  (`main.rs:1044-1051`) and the health check does not (`health.rs:147-157`): with 900.5
  of 1000 MiB the check says Critical and the table is yellow.  `AnalysesAgree` allows
  a MiB.

## 5. Proofs

`VmManagerProofs` proves, for every set of names, configurations, clients and
runs, every bound on polls and crashes, and with torn I/O:

| Theorem | Statement | Assumption beyond `ManagerAssumptions` |
|---|---|---|
| `TypeCorrect` | `Spec => []TypeOK` | none |
| `NeverOrphaned` | `Spec => []NoOrphan` | `"create" \notin Failing \/ OneByOne` |
| `SerialClosedOnce` | `Spec => []SerialTracksRun` | `"create" \notin Failing \/ OneByOne` |
| `RunningIsDriven` | `Spec => []RunningHasTask` | `"start" \notin Failing` |
| `Refinement` | `Spec => ImplementsLifecycle` | `"create" \notin Failing \/ OneByOne` |
| `ConfigsSurvive` | `Spec => []ConfigDurable` | `OneByOne`, `"create" \notin Failing`, `"delete" \notin Failing` |
| `NeverForgotten` | `Spec => RanStaysRan`, an action property | `OneByOne`, `"exit" \notin Failing`, `~TornIo` |

`OneByOne` says that there is one client, so that requests come one after the
other.  The assumptions are needed: the rollback of a failed `create_vm` orphans a VM
that another request has started in between; after a failed save `start_vm` leaves a
Running entry behind; a create and a delete of the same name that overlap, or a
directory that is not removed, leave disk and map apart; and an exit state that is
not saved, or torn, is not there to be loaded (section 4).

The argument.  `TypeInv` strengthens `TypeOK` by what a step needs of the
locals of a request or a run: one that is about to use its `id`, `config` or
`run` has one.  `StartsOK` adds that the run of a request before its spawn is the one it
took, is still unspawned, and belongs to no other request.  `OwnInv` is the heart of
`NoOrphan`: a run that is starting, running or exited is owned by the entry of
its name (state Running, its stop flag and serial buffer this run), so that no
other run can have the same name, `start_vm` refuses the name and `delete_vm`
does not remove it.  A rollback removes an entry by name: with no failing create, no
request is ever at one (`NoRollback`), and with requests one by one the entry is
still the one the request has made (`Places`).
`NoOrphan` alone is not inductive: it does not speak of runs before their spawn.
The refinement maps an entry's state to `life` and the names of live runs to
`live`; by `OwnInv` the spawn of a run adds a name that was not live, and
recording its exit removes it.

`ConfigsSurvive` rests on `Durable`: a directory agrees with the entry of its name
unless a request is between the two; by `Places` such a request goes on with the
entry as it left it, and a recovery reads back what the directories say.
`NeverForgotten` rests on `Known`, that a VM of the map has a configuration on disk
so that it is loaded at all, and on `Saved`, that the state file of a run about to
be spawned, running or exited does not say Created: `start_vm` saves before it
spawns, and by `OwnInv` no other request writes that file meanwhile.

`VcpuThreadsProofs` proves, for every number of vCPUs, with devices that panic
or not, and without a further assumption:

| Theorem | Statement |
|---|---|
| `TypeCorrect` | `Spec => []TypeOK` |
| `ThreadsEnd` | `Spec => []NoHungThreads` |
| `ReasonIsAVcpus` | `Spec => []ReasonIsTrue` |

The argument.  `InRange` bounds the handles that are cancelled and the results
that are received, and says that threads not spawned yet have done nothing.
`Joined` tells from the place of the calling thread which threads have ended,
and that the collector's deadline concerns VMs with several vCPUs only.
`Collected` is the bookkeeping of results: those in the channel and the merged
reason come from threads that have sent; a result other than Canceled is in the
channel or has made the reason differ from Canceled; results received and
results in the channel add up to the threads that have sent.  A collector that
has received one result per vCPU hence finds the channel empty and every result
accounted for.

`RunLoopProofs` proves, for every set of vCPUs and every `MaxRx`:

| Theorem | Statement | Assumption beyond `RunLoopAssumptions` |
|---|---|---|
| `TypeCorrect` | `Spec => []TypeOK` | none |
| `AlwaysAnnounced` | `Spec => []UsedIsAnnounced` | none: any set of devices |
| `NoneLost` | `Spec => []RaisedIsOnItsWay` | one device |

The argument.  `HandlerInv` says that a handler runs with interrupts disabled and
is at one of its stages: an interrupt hence never takes the place of a handler
that has acknowledged but not read.  `VectorInv` says that a loop about to inject
has a vector, so that the deferral does not erase an earlier one.  That a poll
picks one of the devices that are ready rests on the least element of a set of
naturals (`FirstReadyIsReady`).  With two devices `NoneLost` is false.

`SerialBufProofs` proves, for every capacity, every set of readers and all
lengths of writes (`RingAssumptions`: the capacity is not zero):

| Theorem | Statement |
|---|---|
| `RingHoldsTailHolds` | `Spec => []RingHoldsTail` |
| `ReadsTheTailHolds` | `Spec => ReadsTheTail`, an action property |
| `WakeupsHold` | `Spec => [](NoLostWakeup /\ DrainedAtEnd)` |

The argument.  `RingHoldsTail` puts byte `n` of the output into cell
`(n - 1) % Cap`; after a write, which copies one or two pieces and skips what
does not fit, it follows from the uniqueness of quotient and remainder, proved
at the head of the module because the provers do not compute with a remainder by
a variable.  A read assembles the same cells, so `ReadsTheTail` follows from it
and from `NotAhead`.  `NoLostWakeup` and `DrainedAtEnd` are the safety part of the two
liveness properties: a reader that waits although it could read has a
notification, or the writer is about to send one, and a reader that has ended
has read everything.  That a notification is about to be sent needs
`SendersLast`: the last sender is not dropped between the unlock and the send.

`VirtioDeviceProofs` proves, for the three kinds of device, every depth of their
queues, every range of the ring indices that is a multiple of it, and all
traffic, malformed chains and resets included:

| Theorem | Statement |
|---|---|
| `RingsAgreeHolds` | `Spec => []RingsAgree` |
| `TxInOrderHolds` | `Spec => []TxInOrder` |
| `RxInOrderHolds` | `Spec => []RxInOrder` |

`DeviceAssumptions` has that multiple because the virtio standard
demands queue sizes that are powers of two: with another depth the ring of a
driver would jump when its index wraps.  `BackendAssumptions` has headers shorter
than the longest chain that is gathered (12 and 44 bytes against 65536 in the
code).

The argument for `RingsAgree`.  The rings hold indices modulo `IdxMod`, and neither the state nor
`RingsAgree` says how often they have wrapped, so `RingsAgree` is far from
inductive.  The invariant `InRing` states that there are three numbers
`c <= l <= a`, the chains that the driver has got back, that the device has
returned, and that have been made available since the reset, and a number
`st[u]` of descriptors used before chain `u`, such that:

- `Counted`: `st` increases with every chain, and the chains in flight have at
  most as many descriptors as the table;
- `Flying`: the driver's chains in flight are those from `c` to `a`, each the
  descriptors from `st[u]` on, modulo the depth;
- `Entries`: the used ring names the chains from `c` to `l` and the available
  ring those from `l` to `a`, each at its number modulo the depth;
- `Indices`: the indices in memory, in the queue and in the driver are these
  numbers modulo `IdxMod`.

A chain has a descriptor at least, so at most as many chains as the depth are in
flight, and the depth is below `IdxMod`: a difference of indices modulo `IdxMod` is
the difference of the numbers.

A second part says how far the set-up has come: which of the nine register
writes of each queue have been made (`SetUpTo`), and that the rings are blank.
What a device does with a chain is covered by frame lemmas (`RequestFrame`,
`NetRxFrame`, `VsockRxFrame`): whatever the chain is like, only the buffers of
its descriptor table change, not the rings, and the step that ends the chain
returns it.  The walk along a chain and the filling of its buffers are recursive
functions; that such functions exist, which the frame lemmas need, is `RecExists`, by
induction on the set of lengths for which one exists (`UpTo`, from the least
element of a set of naturals).

The argument for `TxInOrder` stands on that one.  `RingView` reads off `InRing` what the
users of a queue need: which chain is next, and that no descriptor is in two
chains in flight (`Apart`).  The invariant `TxInv` says that the channel is the
beginning of the frames expected, and that the chains which the device has not
taken carry the others: there is a numbering `f` of those chains that carry a
frame, in their order, by the places in `tx_expect` that are not in the channel
(`Numbers`), and each chain still is in the table what the driver built (`Built`).
`ChainWalk` and `GatherOne`, `GatherTwo` compute what the device gathers from such a
chain, along the recursive functions of the model.

The argument for `RxInOrder` is its mirror image.  `RxInv` says that `rx_expect` is
numbered by the returned chains with a frame, in the order of the used ring, and
then by what is pending and in the channel; that the buffer behind each of those
entries still holds its frame (`Shown`), which needs `Apart`, since the driver
clears and reuses descriptors around it; and that each chain the device has not
taken is one of the shapes the driver builds (`Usable`).  `NetFills` and
`VsockFills` show that one round of a device leaves either what `Arrived` says in the
buffers, as much of the frame as they take, or everything as it was.
`NumbersCount` and `NumbersUpto` connect the numbering with the cardinalities in `RxInOrder`.

`DaemonProofs` proves, for all VM configurations and any number of connections:

| Theorem | Statement |
|---|---|
| `QuietWhenStoppedHolds` | `Spec => []QuietWhenStopped` |

The argument goes along the place of the process: nothing of a server or VM
before `run_daemon_inner` (`NotYet`), nothing of the server once the runtime is
shut down (`ServerGone`), the VM waited for has reported when the wait ends
without a timeout and is then beyond cancellation (`WaitedFor`), and the blocking
thread has ended when the runtime has waited for it (`ThreadGone`).  The model has one
VM, started at most once: with an earlier run its stale completion could end the
wait, which `manager_early_return` shows.

`VmServicesProofs` proves, for all rules, every finite set of connections and
all snapshots, all frames of the guest and all packets of the host
(`ForwardAssumptions`, `SnapAssumptions`, `FramesAssumption`, which types the
frames):

| Theorem | Statement |
|---|---|
| `RelaysTrackedHolds` | `Spec => []RelaysTracked` |
| `MetricsHonestHolds` | `Spec => []MetricsHonest` |
| `FramesRightHolds` | `Spec => []FramesRight` |

The argument.  `RelaysTracked` bounds the relays that survive the drop of the
forwarder by those in a listener's hand; it needs `InHand` (a listener holds at
most one handle, and only between the spawn and the push), `BeforeDrop` (every
relay's handle is in a hand or in the vector, nothing is aborted), and
`AfterDrain` (at most one relay of a rule is left).  For `MetricsHonest` the
order of the snapshots in the packets (`SnapsInOrder`) and `PubInv`, which says that
some first packets of the guest are those whose snapshots are published, and that
these are all that left the channel until the task is stopped, but for one in the
hands of the blocking thread; that a thread which is receiving belongs to a task
which waits, or was left behind by one that is stopped, is `TaskInv`.  `FramesRight` relates
what has come out of the network thread to what has gone in by order-keeping maps;
`NetInv` has one map for the ARP replies, one for the framed packets and one for
those given to the host, and a step extends one of them by its last place
(`OrderExtends`, `OntoExtends`) and moves the others along.

`CliClientProofs` proves, for all snapshots, every daemon and every bound:

| Theorem | Statement |
|---|---|
| `ActionsReportedHolds` | `Spec => []ActionsReported` |
| `ScreenIsHonestHolds` | `Spec => []ScreenIsHonest` |

The argument.  Both speak of a client at rest.  A failure that is reported of something
that was carried out is due to a restart or to a save that came after the change.
`Untouched`, `AnswerTells` and `ToldUser` follow a command from the request, before which nothing has been
carried out, over what an answer tells of it, to what the user is told;
`Fresh` and `Terminal` follow a screen from its set-up to its end.

Only model-checked:

- the liveness properties, as fairness is outside what the proof system handles
  (`WakeupsHold` is the part of those of the serial ring that is not);
- what the community modules' folds and `SelectSeq` compute over data: their
  induction theorems take an operator, which the provers cannot instantiate:
  `TimelineReplays` and `AnalysesAgree`;
- the properties of `Machine`, whose memory and code are folds over the image and the
  program.

## 6. Not modelled

- Telemetry exporters, the terraform and the Prometheus export: no state, formatting
  only.
- Wording, layout and colours of the client's output, and logging.
- The bytes of HTTP messages, of relayed connections and of disk images beyond
  what a property tells apart; the reading of request bodies.
- The system calls under `hitz-whp` and Wintun, whose effects are assumptions:
  a cancel ends the run in progress or the next; an injection into a vCPU with
  interrupts disabled fails; a receive is woken by the end of the session.
- Floating point: scores are computed on whole numbers.
- `publish_to_otel`'s meters, and the random and address parsers of `hitz-net`.
