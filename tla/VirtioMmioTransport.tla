------------------------ MODULE VirtioMmioTransport ------------------------
(***************************************************************************)
(* The register file of a virtio-mmio device (version 2): what a write     *)
(* of a register does to the transport, and what a read returns.  A write  *)
(* of QUEUE_NOTIFY also runs the device and is in VirtioDevice.            *)
(*                                                                         *)
(* Registers are named as in the code without their prefix.  A 64-bit      *)
(* value is the pair of its low and its high word.                         *)
(***************************************************************************)
EXTENDS VirtQueue

AddrRegs == {"QUEUE_DESC_LOW", "QUEUE_DESC_HIGH", "QUEUE_AVAIL_LOW",
             "QUEUE_AVAIL_HIGH", "QUEUE_USED_LOW", "QUEUE_USED_HIGH"}

NewQueueState ==
    [queue |-> NewQueue(MAX_QUEUE_SIZE), num |-> MAX_QUEUE_SIZE,
     addr |-> [r \in AddrRegs |-> 0]]

\* queues are numbered from 0
NewTransport(queue_count) ==
    [status |-> 0, interrupt_status |-> 0, queue_sel |-> 0,
     device_features_sel |-> 0, driver_features_sel |-> 0,
     driver_features |-> <<0, 0>>, config_generation |-> 0,
     queues |-> [i \in 0..(queue_count - 1) |-> NewQueueState]]

\* reset keeps the generation, and resets the queues but not the device
Reset(t) ==
    [t EXCEPT !.status = 0, !.interrupt_status = 0, !.queue_sel = 0,
              !.device_features_sel = 0, !.driver_features_sel = 0,
              !.driver_features = <<0, 0>>,
              !.queues = [i \in DOMAIN t.queues |->
                            [NewQueueState EXCEPT !.queue = ResetQueue(t.queues[i].queue)]]]

Word(sel) == IF sel = 0 THEN 1 ELSE 2

\* the interrupt status has one bit that is used: 1, used buffer notification
AckBits(status, value) == IF value % 2 = 1 THEN 0 ELSE status

\* the addresses are handed to the queue when it becomes ready
MadeReady(qs, ready) ==
    LET q == IF ready
             THEN Configure(qs.queue,
                            <<qs.addr["QUEUE_DESC_LOW"], qs.addr["QUEUE_DESC_HIGH"]>>,
                            <<qs.addr["QUEUE_AVAIL_LOW"], qs.addr["QUEUE_AVAIL_HIGH"]>>,
                            <<qs.addr["QUEUE_USED_LOW"], qs.addr["QUEUE_USED_HIGH"]>>)
             ELSE qs.queue
    IN [qs EXCEPT !.queue = SetReady(q, ready)]

(***************************************************************************)
(* write_reg, but for QUEUE_NOTIFY.                                        *)
(***************************************************************************)
WriteReg(t, reg, value) ==
    LET sel == t.queue_sel
        OnQueue(qs) == [t EXCEPT !.queues[sel] = qs]
    IN
    CASE reg = "DEVICE_FEATURES_SEL" -> [t EXCEPT !.device_features_sel = value]
      [] reg = "DRIVER_FEATURES_SEL" -> [t EXCEPT !.driver_features_sel = value]
      [] reg = "DRIVER_FEATURES" ->
           [t EXCEPT !.driver_features[Word(t.driver_features_sel)] = value]
      [] reg = "QUEUE_SEL" ->
           IF value \in DOMAIN t.queues THEN [t EXCEPT !.queue_sel = value] ELSE t
      [] reg = "QUEUE_NUM" ->
           OnQueue([t.queues[sel] EXCEPT !.num = value, !.queue = SetSize(@, value)])
      [] reg = "QUEUE_READY" -> OnQueue(MadeReady(t.queues[sel], value # 0))
      [] reg = "INTERRUPT_ACK" ->
           [t EXCEPT !.interrupt_status = AckBits(@, value)]
      [] reg = "STATUS" -> IF value = 0 THEN Reset(t) ELSE [t EXCEPT !.status = value]
      [] reg \in AddrRegs -> OnQueue([t.queues[sel] EXCEPT !.addr[reg] = value])
      [] OTHER -> t

(***************************************************************************)
(* read_reg, for the registers whose value depends on the state.           *)
(***************************************************************************)
ReadReg(t, device_features, reg) ==
    CASE reg = "DEVICE_FEATURES" -> device_features[Word(t.device_features_sel)]
      [] reg = "QUEUE_NUM_MAX" -> MAX_QUEUE_SIZE
      [] reg = "QUEUE_READY" -> IF t.queues[t.queue_sel].queue.ready THEN 1 ELSE 0
      [] reg = "INTERRUPT_STATUS" -> t.interrupt_status
      [] reg = "STATUS" -> t.status
      [] reg = "CONFIG_GENERATION" -> t.config_generation
      [] OTHER -> 0

\* process_queue or poll_rx has put something into a used ring
Raise(t) == [t EXCEPT !.interrupt_status = 1]
=============================================================================
