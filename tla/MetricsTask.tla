---------------------------- MODULE MetricsTask -----------------------------
(***************************************************************************)
(* Guest metrics over vsock: the agent's push_loop in the guest            *)
(* (hitz-guest-agent: main.rs), the two channels between the device and    *)
(* the host (hitz-vmm: vsock_io.rs), and the task that answers the packets *)
(* and publishes the snapshots (hitz-daemon: vsock_server.rs).             *)
(*                                                                         *)
(* A payload is the number that its first four bytes make, the number of   *)
(* bytes after those, and the snapshot that these bytes encode, if they    *)
(* do.  The built-in agent writes the length and the body of a frame one   *)
(* by one, and the guest's kernel makes a packet of each write; a custom   *)
(* agent may write both at once.  Other programs of the guest use vsock    *)
(* too: their packets are Rw packets to another port, and packets of a     *)
(* kind that the host does not handle.                                     *)
(*                                                                         *)
(* The task has a packet received by a blocking thread when none is        *)
(* queued.  That thread cannot be cancelled: it outlives a task that ends  *)
(* in the meantime, until it has received a packet or the channel closes.  *)
(***************************************************************************)
EXTENDS Naturals, Sequences, SequencesExt

CONSTANTS
  MaxPushes,  \* snapshots that the agent pushes
  MaxOthers,  \* bound on the packets of other programs of the guest
  SnapLen,    \* bytes of an encoded snapshot
  BodyWord    \* its first four bytes as a number

ASSUME SnapAssumptions == SnapLen \in Nat \ {0} /\ BodyWord \in Nat

VARIABLES
  task,       \* the task: "none", "look" at the channel, "wait" for a packet,
              \* ended as the channel is "closed", or "stopped"
  reader,     \* its blocking thread: "none", "recv", "got" a packet, "closed"
  signal,     \* the shutdown channel: "quiet", "sent" true, its sender "gone"
  agent,      \* the agent: its pc, pushes so far, how it writes
  fromGuest,  \* packets of the guest; the first `dequeued` left the channel
  dequeued,
  answers,    \* packets sent to the guest
  fwd_cnt,    \* bytes of Rw packets consumed
  published   \* snapshots given to the OpenTelemetry meter

agentVars == <<agent, fromGuest>>
taskVars == <<task, reader, signal, dequeued, answers, fwd_cnt, published>>
metVars == <<agentVars, taskVars>>

NoSnap == 0

MetInit ==
  /\ task = "none" /\ reader = "none" /\ signal = "quiet"
  /\ agent = [pc |-> "off", pushes |-> 0, whole |-> FALSE]
  /\ fromGuest = <<>> /\ dequeued = 0
  /\ answers = <<>>
  /\ fwd_cnt = 0
  /\ published = <<>>

---------------------------------------------------------------------------
(* The agent. *)

Control(op) == [op |-> op, len |-> 0, word |-> 0, rest |-> 0, snap |-> NoSnap]

Rw(len, word, snap) ==
  [op |-> "rw", len |-> len, word |-> word, rest |-> len - 4, snap |-> snap]

Transmit(packets) == fromGuest' = fromGuest \o packets

\* push_loop wakes up, collects a snapshot and connects.
PushConnects ==
  /\ agent.pc = "sleep" /\ agent.pushes < MaxPushes
  /\ agent' = [agent EXCEPT !.pc = "connect", !.pushes = @ + 1]
  /\ Transmit(<<Control("request")>>)
  /\ UNCHANGED taskVars

\* Answers to connection requests so far.
Accepted == Len(SelectSeq(answers, LAMBDA a : a = "response"))

\* send_snapshot, and the stream is dropped.
SendSnapshot ==
  /\ agent.pc = "connect" /\ Accepted >= agent.pushes
  /\ agent' = [agent EXCEPT !.pc = "sleep"]
  /\ LET snap == agent.pushes IN
     Transmit((IF agent.whole
               THEN <<Rw(SnapLen + 4, SnapLen, snap)>>
               ELSE <<Rw(4, SnapLen, NoSnap), Rw(SnapLen, BodyWord, NoSnap)>>)
              \o <<Control("shutdown")>>)
  /\ UNCHANGED taskVars

\* The connection is not answered in time; the guest's kernel rejects a late
\* answer.
PushTimesOut ==
  /\ agent.pc = "connect"
  /\ agent' = [agent EXCEPT !.pc = "sleep"]
  /\ Transmit(<<Control("rst")>>)
  /\ UNCHANGED taskVars

\* Another program of the guest sends a packet.
OthersSend ==
  /\ Len(SelectSeq(fromGuest, LAMBDA p : p.op = "other")) < MaxOthers
  /\ Transmit(<<Control("other")>>)
  /\ UNCHANGED <<agent, taskVars>>

AgentStarts(whole) ==
  /\ task # "none" /\ agent.pc = "off"
  /\ agent' = [agent EXCEPT !.pc = "sleep", !.whole = whole]
  /\ UNCHANGED <<fromGuest, taskVars>>

---------------------------------------------------------------------------
(* The task. *)

\* start_vm creates the channels and spawns the task; the guest boots later.
StartMetrics ==
  /\ task = "none"
  /\ task' = "look"
  /\ UNCHANGED <<agentVars, reader, signal, dequeued, answers, fwd_cnt, published>>

\* The payload holds as many bytes as its first four announce, and they
\* decode.
Frame(p) == p.op = "rw" /\ p.word <= p.rest /\ p.snap # NoSnap

Answer(p) ==
  CASE p.op = "request" -> <<"response">>
    [] p.op = "rw" -> <<"credit_update">>
    [] p.op \in {"shutdown", "rst"} -> <<"rst">>
    [] p.op = "other" -> <<>>

\* handle_packet.  The channels are unbounded: an answer fails to be sent only
\* when the device is gone, and that is ignored.  The addition saturates after
\* 4 GiB, which no run gets to.
HandlePacket(p, open) ==
  /\ answers' = IF open THEN answers \o Answer(p) ELSE answers
  /\ published' = IF Frame(p) THEN Append(published, p.snap) ELSE published
  /\ fwd_cnt' = IF p.op = "rw" THEN fwd_cnt + p.len ELSE fwd_cnt

\* The task looks: at the shutdown, then at the channel, whose other end is open
\* as long as the device is there.
SeesShutdown ==
  /\ task = "look" /\ signal = "sent"
  /\ task' = "stopped"
  /\ UNCHANGED <<agentVars, reader, signal, dequeued, answers, fwd_cnt, published>>

TryRecv(open) ==
  /\ task = "look" /\ signal # "sent"
  /\ dequeued < Len(fromGuest)
  /\ dequeued' = dequeued + 1
  /\ HandlePacket(fromGuest[dequeued + 1], open)
  /\ UNCHANGED <<agentVars, task, reader, signal>>

FindsEmpty(open) ==
  /\ task = "look" /\ signal # "sent"
  /\ dequeued = Len(fromGuest)
  /\ IF open THEN task' = "wait" /\ reader' = "recv"
             ELSE task' = "closed" /\ UNCHANGED reader
  /\ UNCHANGED <<agentVars, signal, dequeued, answers, fwd_cnt, published>>

\* The select is decided by what its blocking thread has received ...
Received(open) ==
  /\ task = "wait" /\ reader = "got"
  /\ task' = "look" /\ reader' = "none"
  /\ HandlePacket(fromGuest[dequeued], open)
  /\ UNCHANGED <<agentVars, signal, dequeued>>

FindsClosed ==
  /\ task = "wait" /\ reader = "closed"
  /\ task' = "closed"
  /\ UNCHANGED <<agentVars, reader, signal, dequeued, answers, fwd_cnt, published>>

\* A bug to be caught: only the sent value ends the task, which looks again.
ShutdownChanges_LooksAgain ==
  /\ task = "wait" /\ signal # "quiet"
  /\ task' = "look"
  /\ UNCHANGED <<agentVars, reader, signal, dequeued, answers, fwd_cnt, published>>

\* ... or by the shutdown: any change of it, the loss of its sender too.  The
\* thread is left behind.
ShutdownChanges ==
  /\ task = "wait" /\ signal # "quiet"
  /\ task' = "stopped"
  /\ UNCHANGED <<agentVars, reader, signal, dequeued, answers, fwd_cnt, published>>

TaskSteps(open) ==
  SeesShutdown \/ TryRecv(open) \/ FindsEmpty(open)
    \/ Received(open) \/ FindsClosed \/ ShutdownChanges

\* The blocking thread.
ReaderStep(open) ==
  /\ reader = "recv"
  /\ \/ /\ dequeued < Len(fromGuest)
        /\ dequeued' = dequeued + 1 /\ reader' = "got"
     \/ /\ ~open /\ dequeued = Len(fromGuest)
        /\ reader' = "closed" /\ UNCHANGED dequeued
  /\ UNCHANGED <<agentVars, task, signal, answers, fwd_cnt, published>>

\* The daemon's managers are dropped and the sender with them; a receiver given
\* to set_shutdown_receiver is sent true, but the program never gives one.
Signal(what) ==
  /\ signal = "quiet"
  /\ signal' = what
  /\ UNCHANGED <<agentVars, task, reader, dequeued, answers, fwd_cnt, published>>

\* The runtime goes away and takes the task with it.
CancelMetrics ==
  /\ task' = IF task \in {"look", "wait"} THEN "stopped" ELSE task
  /\ UNCHANGED <<agentVars, reader, signal, dequeued, answers, fwd_cnt, published>>

---------------------------------------------------------------------------
(* Properties. *)

\* What is published are snapshots that the agent collected and sent as whole
\* frames, in their order and none twice.  Until the task is stopped, every such
\* snapshot that left the channel is published or in the hands of the thread
\* that the task waits for: none falls to a receive that was given up.  A task
\* that ends because its VM exited has published the snapshots that were queued
\* (run_metrics_task and handle_packet, vsock_server.rs:15-94).
MetricsHonest ==
  LET whole == {i \in 1..dequeued : fromGuest[i].len = SnapLen + 4}
      held == {i \in {dequeued} : task = "wait" /\ reader = "got"}
  IN /\ \A m, n \in DOMAIN published : m < n => published[m] < published[n]
     /\ Range(published) \subseteq {fromGuest[i].snap : i \in whole}
     /\ task # "stopped" =>
          {fromGuest[i].snap : i \in whole \ held} \subseteq Range(published)
     /\ task = "closed" => dequeued = Len(fromGuest)
=============================================================================
