--------------------------- MODULE RunLoopProofs ----------------------------
(***************************************************************************)
(* Proofs about RunLoop for every number of vCPUs; about UsedIsAnnounced   *)
(* also for every set of devices.                                          *)
(***************************************************************************)
EXTENDS RunLoop, WellFoundedInduction, TLAPS

\* A handler runs with interrupts disabled, and is at one of its stages.
HandlerInv ==
    \A v \in Vcpus :
       /\ stage[v] = "none" <=> handler[v] = None
       /\ stage[v] # "none" => ~enabled[v]

\* A loop that is about to inject has a vector.
VectorInv == \A v \in Vcpus : pc[v] \in {"inject", "reinject"} => irq[v] # None

Inv == TypeOK /\ HandlerInv /\ VectorInv

-----------------------------------------------------------------------------
\* The bus finds a device with something ready among those that have it.
LEMMA FirstReadyIsReady ==
  ASSUME NEW S \in SUBSET Nat, S # {}
  PROVE  FirstReady(S) \in S
<1>1. \E d \in S : \A e \in S : ~(<<e, d>> \in OpToRel(<, Nat))
  BY NatLessThanWellFounded, WFMin
<1>2. \A d, e \in Nat : e < d => <<e, d>> \in OpToRel(<, Nat)
  BY Zenon DEF OpToRel
<1>3. \E d \in S : \A e \in S : ~(e < d)
  BY <1>1, <1>2, Zenon
<1>4. \E d \in S : \A e \in S : d <= e
  BY <1>3
<1> QED BY <1>4 DEF FirstReady

\* What a poll does: nothing, or it takes the vector of a device that is ready.
LEMMA PollEffect ==
  ASSUME NEW v \in Vcpus, PollDevices(v)
  PROVE  \/ /\ Goto(v, "guest")
            /\ UNCHANGED <<irq, devVars>>
         \/ \E d \in Devices :
               /\ rx[d] > 0
               /\ PollRx(d)
               /\ irq' = [irq EXCEPT ![v] = d]
               /\ Goto(v, "inject")
<1> DEFINE ready == {d \in Devices : rx[d] > 0}
<1>1. CASE ready = {}
  BY <1>1 DEF PollDevices
<1>2. CASE ready # {}
  <2>1. FirstReady(ready) \in ready
    BY <1>2, FirstReadyIsReady, RunLoopAssumptions DEF RunLoopAssumptions
  <2>2. /\ PollRx(FirstReady(ready))
        /\ irq' = [irq EXCEPT ![v] = FirstReady(ready)]
        /\ Goto(v, "inject")
    BY <1>2 DEF PollDevices
  <2> QED BY <2>1, <2>2
<1> QED BY <1>1, <1>2

-----------------------------------------------------------------------------
\* The loops start out polling, with nothing injected and no handler.
LEMMA InitInv == Init => Inv
  BY RunLoopAssumptions DEF RunLoopAssumptions, Init, Inv, TypeOK, HandlerInv, VectorInv, Places, Stages, None

\* Every step of a loop, of the guest or of the host keeps the invariant.
LEMMA StepInv ==
  ASSUME Inv, [Next]_vars
  PROVE  Inv'
<1> USE RunLoopAssumptions DEF RunLoopAssumptions, Inv, TypeOK, HandlerInv, VectorInv, Places, Stages,
        None, Goto, vcpuVars, devVars
<1>1. ASSUME NEW v \in Vcpus, PollDevices(v)
      PROVE  Inv'
  <2>1. UNCHANGED <<pending_irq, injected, window, enabled, handler, stage>> /\ pc[v] = "poll"
    BY <1>1 DEF PollDevices
  <2>2. CASE Goto(v, "guest") /\ UNCHANGED <<irq, devVars>>
    BY <2>1, <2>2
  <2>3. ASSUME NEW d \in Devices, rx[d] > 0, PollRx(d),
               irq' = [irq EXCEPT ![v] = d], Goto(v, "inject")
        PROVE  Inv'
    <3>1. rx' \in [Devices -> 0..MaxRx]
      BY <2>3 DEF PollRx
    <3> QED BY <2>1, <2>3, <3>1 DEF PollRx
  <2> QED BY <1>1, <2>2, <2>3, PollEffect
<1>2. ASSUME NEW v \in Vcpus, InjectPolled(v) \/ InjectRaised(v)
      PROVE  Inv'
  <2>1. InjectOrDefer(v) /\ UNCHANGED <<enabled, handler, stage, devVars>>
    BY <1>2 DEF InjectPolled, InjectRaised
  <2>2. pc' \in [Vcpus -> Places] /\ pc'[v] \in {"guest", "poll"}
        /\ \A w \in Vcpus : w # v => pc'[w] = pc[w]
    BY <1>2 DEF InjectPolled, InjectRaised
  <2>3. /\ irq' \in [Vcpus -> Devices \cup {None}]
        /\ pending_irq' \in [Vcpus -> Devices \cup {None}]
        /\ injected' \in [Vcpus -> Devices \cup {None}]
        /\ window' \in [Vcpus -> BOOLEAN]
        /\ \A w \in Vcpus : w # v => irq'[w] = irq[w]
    <3>1. CASE enabled[v]
      BY <2>1, <3>1 DEF InjectOrDefer
    <3>2. CASE ~enabled[v]
      <4>1. /\ pending_irq' = [pending_irq EXCEPT ![v] = irq[v]]
            /\ window' = [window EXCEPT ![v] = TRUE]
            /\ irq' = [irq EXCEPT ![v] = 0]
            /\ UNCHANGED injected
        BY <2>1, <3>2 DEF InjectOrDefer, Deferred
      <4> QED BY <4>1
    <3> QED BY <3>1, <3>2
  <2> QED BY <2>1, <2>2, <2>3
<1>3. ASSUME NEW v \in Vcpus, TakeInterrupt(v)
      PROVE  Inv'
  <2>1. /\ handler' \in [Vcpus -> Devices \cup {None}]
        /\ injected' \in [Vcpus -> Devices \cup {None}]
        /\ stage' \in [Vcpus -> Stages]
        /\ enabled' \in [Vcpus -> BOOLEAN]
    BY <1>3 DEF TakeInterrupt
  <2>2. /\ handler'[v] # None /\ stage'[v] = "status" /\ ~enabled'[v]
        /\ \A w \in Vcpus : w # v => /\ handler'[w] = handler[w]
                                    /\ stage'[w] = stage[w]
                                    /\ enabled'[w] = enabled[w]
    BY <1>3 DEF TakeInterrupt
  <2>3. HandlerInv'
    BY <2>2
  <2> QED BY <1>3, <2>1, <2>3 DEF TakeInterrupt
<1>4. ASSUME NEW v \in Vcpus, InterruptWindow(v)
      PROVE  Inv'
  BY <1>4 DEF InterruptWindow, WindowTakes
<1>5. ASSUME NEW v \in Vcpus, ReadStatus(v)
      PROVE  Inv'
  <2>1. CASE interrupt_status[handler[v]]
    BY <1>5, <2>1 DEF ReadStatus
  <2>2. CASE ~interrupt_status[handler[v]]
    <3>1. /\ handler' = [handler EXCEPT ![v] = 0]
          /\ stage' = [stage EXCEPT ![v] = "none"]
          /\ enabled' = [enabled EXCEPT ![v] = TRUE]
          /\ pc' = [pc EXCEPT ![v] = "poll"]
          /\ UNCHANGED <<irq, pending_irq, injected, window, devVars>>
      BY <1>5, <2>2 DEF ReadStatus, Return
    <3> QED BY <3>1
  <2> QED BY <2>1, <2>2
<1>6. ASSUME NEW v \in Vcpus, WriteAck(v)
      PROVE  Inv'
  BY <1>6 DEF WriteAck
<1>7. ASSUME NEW v \in Vcpus, ReadRings(v)
      PROVE  Inv'
  BY <1>7 DEF ReadRings, Return
<1>8. ASSUME NEW v \in Vcpus, Canceled(v)
      PROVE  Inv'
  BY <1>8 DEF Canceled, CanceledWindow
<1>9. ASSUME NEW v \in Vcpus, OtherExit(v)
      PROVE  Inv'
  BY <1>9 DEF OtherExit
<1>10. ASSUME NEW v \in Vcpus, ToggleInterrupts(v)
      PROVE  Inv'
  BY <1>10 DEF ToggleInterrupts
<1>11. ASSUME NEW v \in Vcpus, NEW d \in Devices, Notify(v, d)
      PROVE  Inv'
  BY <1>11 DEF Notify
<1>12. ASSUME NEW d \in Devices, HostSends(d)
      PROVE  Inv'
  BY <1>12 DEF HostSends
<1>13. CASE UNCHANGED vars
  BY <1>13 DEF vars
<1> QED
  BY <1>1, <1>2, <1>3, <1>4, <1>5, <1>6, <1>7, <1>8, <1>9, <1>10, <1>11, <1>12, <1>13
     DEF Next, Loop, Interrupted, Handles

\* The states of the run loops and of the devices are well typed, for every
\* set of vCPUs and of devices: a vector that is injected, put aside or
\* handled is one of a device on the bus.
THEOREM TypeCorrect == Spec => []TypeOK
<1>1. Inv => TypeOK
  BY DEF Inv
<1> QED BY InitInv, StepInv, <1>1, PTL DEF Spec

-----------------------------------------------------------------------------
\* The handlers about to read the rings are the same, or one of them does.
LEMMA StepAnnounced ==
  ASSUME Inv, UsedIsAnnounced, [Next]_vars
  PROVE  UsedIsAnnounced'
<1> USE DEF Inv, TypeOK, HandlerInv, UsedIsAnnounced, vcpuVars, devVars
<1>1. ASSUME NEW v \in Vcpus, PollDevices(v)
      PROVE  UsedIsAnnounced'
  <2>1. UNCHANGED <<handler, stage>>
    BY <1>1 DEF PollDevices
  <2>2. CASE UNCHANGED devVars
    BY <2>1, <2>2
  <2>3. ASSUME NEW d \in Devices, PollRx(d)
        PROVE  UsedIsAnnounced'
    BY <2>1, <2>3 DEF PollRx
  <2> QED BY <1>1, <2>2, <2>3, PollEffect
<1>2. ASSUME NEW v \in Vcpus, InjectPolled(v) \/ InjectRaised(v)
      PROVE  UsedIsAnnounced'
  BY <1>2 DEF InjectPolled, InjectRaised
<1>3. ASSUME NEW v \in Vcpus, TakeInterrupt(v)
      PROVE  UsedIsAnnounced'
  <2>1. stage[v] = "none"
    BY <1>3 DEF TakeInterrupt
  <2>2. \A w \in Vcpus : stage[w] = "rings" => handler'[w] = handler[w] /\ stage'[w] = "rings"
    BY <1>3, <2>1 DEF TakeInterrupt
  <2>3. UNCHANGED devVars
    BY <1>3 DEF TakeInterrupt
  <2> QED BY <2>2, <2>3
<1>4. ASSUME NEW v \in Vcpus, InterruptWindow(v)
      PROVE  UsedIsAnnounced'
  BY <1>4 DEF InterruptWindow
<1>5. ASSUME NEW v \in Vcpus, ReadStatus(v)
      PROVE  UsedIsAnnounced'
  <2>1. \A w \in Vcpus : stage[w] = "rings" => handler'[w] = handler[w] /\ stage'[w] = "rings"
    BY <1>5 DEF ReadStatus, Return
  <2>2. UNCHANGED devVars
    BY <1>5 DEF ReadStatus
  <2> QED BY <2>1, <2>2
<1>6. ASSUME NEW v \in Vcpus, WriteAck(v)
      PROVE  UsedIsAnnounced'
  <2>1. stage'[v] = "rings" /\ handler' = handler /\ unseen' = unseen
    BY <1>6 DEF WriteAck
  <2>2. \A w \in Vcpus : stage[w] = "rings" => stage'[w] = "rings"
    BY <1>6 DEF WriteAck
  <2>3. \A d \in Devices : d # handler[v] => interrupt_status'[d] = interrupt_status[d]
    BY <1>6 DEF WriteAck
  <2> QED BY <2>1, <2>2, <2>3
<1>7. ASSUME NEW v \in Vcpus, ReadRings(v)
      PROVE  UsedIsAnnounced'
  <2>1. \A w \in Vcpus : w # v => handler'[w] = handler[w] /\ stage'[w] = stage[w]
    BY <1>7 DEF ReadRings, Return
  <2>2. interrupt_status' = interrupt_status
    BY <1>7 DEF ReadRings
  <2>3. \A d \in Devices : IF d = handler[v] THEN ~unseen'[d] ELSE unseen'[d] = unseen[d]
    BY <1>7 DEF ReadRings
  <2> QED BY <2>1, <2>2, <2>3
<1>8. ASSUME NEW v \in Vcpus, Canceled(v)
      PROVE  UsedIsAnnounced'
  BY <1>8 DEF Canceled
<1>9. ASSUME NEW v \in Vcpus, OtherExit(v)
      PROVE  UsedIsAnnounced'
  BY <1>9 DEF OtherExit
<1>10. ASSUME NEW v \in Vcpus, ToggleInterrupts(v)
      PROVE  UsedIsAnnounced'
  BY <1>10 DEF ToggleInterrupts
<1>11. ASSUME NEW v \in Vcpus, NEW d \in Devices, Notify(v, d)
      PROVE  UsedIsAnnounced'
  <2>1. \A e \in Devices : IF e = d THEN interrupt_status'[e]
                           ELSE /\ interrupt_status'[e] = interrupt_status[e]
                                /\ unseen'[e] = unseen[e]
    BY <1>11 DEF Notify
  <2> QED BY <1>11, <2>1 DEF Notify
<1>12. ASSUME NEW d \in Devices, HostSends(d)
      PROVE  UsedIsAnnounced'
  BY <1>12 DEF HostSends
<1>13. CASE UNCHANGED vars
  BY <1>13 DEF vars
<1> QED
  BY <1>1, <1>2, <1>3, <1>4, <1>5, <1>6, <1>7, <1>8, <1>9, <1>10, <1>11, <1>12, <1>13
     DEF Next, Loop, Interrupted, Handles

\* Whatever the vCPUs and devices are: what poll_rx or a notification has put
\* into a used ring is announced until the guest has read it; no
\* acknowledgement of another vCPU hides it.
THEOREM AlwaysAnnounced == Spec => []UsedIsAnnounced
<1>1. Init => UsedIsAnnounced
  BY DEF Init, UsedIsAnnounced
<1> QED BY InitInv, StepInv, StepAnnounced, <1>1, PTL DEF Spec

-----------------------------------------------------------------------------
\* With a single device no vector takes the place of another one.
LEMMA StepOnItsWay ==
  ASSUME NEW dev, Devices = {dev}, Inv, RaisedIsOnItsWay, [Next]_vars
  PROVE  RaisedIsOnItsWay'
<1> USE RunLoopAssumptions DEF RunLoopAssumptions, Inv, TypeOK, HandlerInv, VectorInv,
        RaisedIsOnItsWay, OnItsWay, vcpuVars, devVars, None
<1> SUFFICES ASSUME interrupt_status'[dev]
             PROVE  \E v \in Vcpus : OnItsWay(v, dev)'
  OBVIOUS
<1>1. ASSUME NEW v \in Vcpus, PollDevices(v)
      PROVE  \E w \in Vcpus : OnItsWay(w, dev)'
  <2>1. UNCHANGED <<pending_irq, injected, handler, stage>>
    BY <1>1 DEF PollDevices
  <2>2. CASE UNCHANGED <<irq, devVars>>
    BY <2>1, <2>2
  <2>3. ASSUME NEW d \in Devices, irq' = [irq EXCEPT ![v] = d]
        PROVE  \E w \in Vcpus : OnItsWay(w, dev)'
    BY <2>3
  <2> QED BY <1>1, <2>2, <2>3, PollEffect
<1>2. ASSUME NEW v \in Vcpus, InjectPolled(v) \/ InjectRaised(v)
      PROVE  \E w \in Vcpus : OnItsWay(w, dev)'
  <2>1. irq[v] = dev
    BY <1>2 DEF InjectPolled, InjectRaised
  <2>2. InjectOrDefer(v)
    BY <1>2 DEF InjectPolled, InjectRaised
  <2>3. injected'[v] = dev \/ pending_irq'[v] = dev
    <3>1. CASE enabled[v]
      BY <2>1, <2>2, <3>1 DEF InjectOrDefer
    <3>2. CASE ~enabled[v]
      BY <2>1, <2>2, <3>2 DEF InjectOrDefer, Deferred
    <3> QED BY <3>1, <3>2
  <2> QED BY <2>3
<1>3. ASSUME NEW v \in Vcpus, TakeInterrupt(v)
      PROVE  \E w \in Vcpus : OnItsWay(w, dev)'
  <2>1. handler'[v] = dev /\ stage'[v] = "status"
    BY <1>3 DEF TakeInterrupt
  <2> QED BY <2>1
<1>4. ASSUME NEW v \in Vcpus, InterruptWindow(v)
      PROVE  \E w \in Vcpus : OnItsWay(w, dev)'
  <2>1. PICK w \in Vcpus : OnItsWay(w, dev)
    BY <1>4 DEF InterruptWindow
  <2>2. CASE w # v
    BY <1>4, <2>1, <2>2 DEF InterruptWindow, WindowTakes
  <2>3. CASE w = v
    <3>1. injected'[v] = pending_irq[v] /\ injected[v] = 0 /\ UNCHANGED <<irq, handler, stage>>
      BY <1>4 DEF InterruptWindow
    <3> QED BY <2>1, <2>3, <3>1
  <2> QED BY <2>2, <2>3
<1>5. ASSUME NEW v \in Vcpus, ReadStatus(v)
      PROVE  \E w \in Vcpus : OnItsWay(w, dev)'
  <2>1. handler[v] = dev /\ interrupt_status[dev]
    BY <1>5 DEF ReadStatus
  <2>2. handler'[v] = dev /\ stage'[v] = "ack"
    BY <1>5, <2>1 DEF ReadStatus
  <2> QED BY <2>2
<1>6. ASSUME NEW v \in Vcpus, WriteAck(v)
      PROVE  \E w \in Vcpus : OnItsWay(w, dev)'
  <2>1. handler[v] = dev
    BY <1>6 DEF WriteAck
  <2>2. ~interrupt_status'[dev]
    BY <1>6, <2>1 DEF WriteAck
  <2> QED BY <2>2
<1>7. ASSUME NEW v \in Vcpus, ReadRings(v)
      PROVE  \E w \in Vcpus : OnItsWay(w, dev)'
  <2>1. PICK w \in Vcpus : OnItsWay(w, dev)
    BY <1>7 DEF ReadRings
  <2>2. UNCHANGED <<irq, pending_irq, injected>>
    BY <1>7 DEF ReadRings
  <2>3. stage[w] \in {"status", "ack"} => handler'[w] = handler[w] /\ stage'[w] = stage[w]
    BY <1>7 DEF ReadRings, Return
  <2> QED BY <2>1, <2>2, <2>3
<1>8. ASSUME NEW v \in Vcpus, Canceled(v) \/ OtherExit(v) \/ ToggleInterrupts(v)
      PROVE  \E w \in Vcpus : OnItsWay(w, dev)'
  <2>1. UNCHANGED <<irq, pending_irq, injected, handler, stage, devVars>>
    BY <1>8 DEF Canceled, OtherExit, ToggleInterrupts
  <2> QED BY <2>1
<1>9. ASSUME NEW v \in Vcpus, NEW d \in Devices, Notify(v, d)
      PROVE  \E w \in Vcpus : OnItsWay(w, dev)'
  <2>1. irq'[v] = dev
    BY <1>9 DEF Notify
  <2> QED BY <2>1
<1>10. CASE UNCHANGED <<vcpuVars, interrupt_status>>
  BY <1>10
<1> QED
  BY <1>1, <1>2, <1>3, <1>4, <1>5, <1>6, <1>7, <1>8, <1>9, <1>10
     DEF Next, Loop, Interrupted, Handles, HostSends, vars

\* With one device on the bus, whatever the number of vCPUs: an interrupt that
\* is raised and not acknowledged is about to be injected, put aside in some
\* pending_irq, injected, or handled.  With two devices it is not so.
THEOREM NoneLost ==
  ASSUME NEW dev, Devices = {dev}
  PROVE  Spec => []RaisedIsOnItsWay
<1>1. Init => RaisedIsOnItsWay
  BY DEF Init, RaisedIsOnItsWay
<1>2. Inv /\ RaisedIsOnItsWay /\ [Next]_vars => RaisedIsOnItsWay'
  BY StepOnItsWay
<1> QED BY InitInv, StepInv, <1>1, <1>2, PTL DEF Spec
=============================================================================
