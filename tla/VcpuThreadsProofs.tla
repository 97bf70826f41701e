------------------------- MODULE VcpuThreadsProofs -------------------------
(***************************************************************************)
(* Proofs about VcpuThreads for every number of vCPUs.                     *)
(***************************************************************************)
EXTENDS VcpuThreads, FiniteSetTheorems, TLAPS

VcpuRecords == [pc : VcpuPcs, result : Results, next : 0..cpus]

WatchdogRecords == [pc : {"polling", "sleeping", "cancelling", "done"}, next : 0..cpus]

MainRecords ==
  [pc : {"spawning", "receiving", "stopping", "joinWatchdog", "joinVcpus", "returned"},
   spawned : 0..cpus, received : 0..cpus, expired : BOOLEAN,
   timed_out : BOOLEAN, reason : Results]

\* Handles are cancelled in order, within the array; a thread not spawned yet
\* has done nothing; the collector stops counting at the number of vCPUs.
InRange ==
  /\ \A v \in Vcpus : vcpu[v].pc \notin {"sending", "sent"} => vcpu[v].next < cpus
  /\ watchdog.pc # "done" => watchdog.next < cpus
  /\ main.pc = "spawning" =>
       /\ main.spawned < cpus
       /\ \A v \in Vcpus : v >= main.spawned => vcpu[v].pc = "new"
  /\ main.pc \in {"spawning", "receiving"} => main.received < cpus

TypeInv == TypeOK /\ InRange

---------------------------------------------------------------------------
(* Type correctness. *)

\* What a step of a vCPU thread does to the thread's record.
LEMMA GoToEffect ==
  ASSUME TypeInv, NEW v \in Vcpus, NEW pc \in VcpuPcs, GoTo(v, pc)
  PROVE  /\ vcpu' \in [Vcpus -> VcpuRecords]
         /\ vcpu'[v].pc = pc
         /\ vcpu'[v].next = vcpu[v].next
         /\ \A w \in Vcpus : w # v => vcpu'[w] = vcpu[w]
  BY DEF GoTo, TypeInv, TypeOK, VcpuRecords

\* The run loop of a vCPU returns with a result.
LEMMA EndsEffect ==
  ASSUME TypeInv, NEW v \in Vcpus, NEW result \in Results, Ends(v, result)
  PROVE  /\ vcpu' \in [Vcpus -> VcpuRecords]
         /\ vcpu'[v].pc = "ended"
         /\ vcpu'[v].next = vcpu[v].next
         /\ \A w \in Vcpus : w # v => vcpu'[w] = vcpu[w]
  BY DEF Ends, TypeInv, TypeOK, VcpuRecords, VcpuPcs

\* A run loop that goes on or ends, and touches nothing of the threads besides.
LEMMA LoopStepTyped ==
  ASSUME TypeInv, NEW v \in Vcpus,
         vcpu[v].pc \notin {"new", "sending", "sent"},
         \/ \E pc \in {"check", "poll", "guest", "device"} : GoTo(v, pc)
         \/ \E result \in Results : Ends(v, result),
         UNCHANGED <<cpus, stop, requested, watchdog, exits, main>>,
         cancel' \in [Vcpus -> BOOLEAN], poisoned' \in BOOLEAN
  PROVE  TypeInv'
<1>1. /\ vcpu' \in [Vcpus -> VcpuRecords]
      /\ vcpu'[v].next = vcpu[v].next
      /\ \A w \in Vcpus : w # v => vcpu'[w] = vcpu[w]
  BY GoToEffect, EndsEffect DEF VcpuPcs
<1>2. TypeOK'
  BY <1>1 DEF TypeInv, TypeOK, Vcpus, VcpuRecords
<1>3. InRange'
  BY <1>1 DEF TypeInv, InRange, Vcpus
<1> QED BY <1>2, <1>3 DEF TypeInv

LEMMA VcpuStepTyped ==
  ASSUME TypeInv, NEW v \in Vcpus, VcpuStep(v) \/ GuestExits(v)
  PROVE  TypeInv'
<1> USE DEF At
<1>1. CASE CheckStop(v)
  <2>1. \/ \E pc \in {"check", "poll", "guest", "device"} : GoTo(v, pc)
        \/ \E result \in Results : Ends(v, result)
    BY <1>1 DEF CheckStop, Results
  <2> QED BY <1>1, <2>1, LoopStepTyped DEF CheckStop, TypeInv, TypeOK
<1>2. CASE UseDevices(v)
  <2>1. \/ \E pc \in {"check", "poll", "guest", "device"} : GoTo(v, pc)
        \/ \E result \in Results : Ends(v, result)
    BY <1>2 DEF UseDevices, Results
  <2>2. vcpu[v].pc \in {"poll", "device"}
    BY <1>2 DEF UseDevices
  <2>3. poisoned' \in BOOLEAN
    BY <1>2 DEF UseDevices, TypeInv, TypeOK
  <2> QED BY <1>2, <2>1, <2>2, <2>3, LoopStepTyped DEF UseDevices, TypeInv, TypeOK
<1>3. CASE GuestExits(v)
  <2>1. \/ \E pc \in {"check", "poll", "guest", "device"} : GoTo(v, pc)
        \/ \E result \in Results : Ends(v, result)
    BY <1>3 DEF GuestExits, Results
  <2> QED BY <1>3, <2>1, LoopStepTyped DEF GuestExits, TypeInv, TypeOK
<1>4. CASE RunCanceled(v)
  <2>1. \/ \E pc \in {"check", "poll", "guest", "device"} : GoTo(v, pc)
        \/ \E result \in Results : Ends(v, result)
    BY <1>4 DEF RunCanceled, Results
  <2>2. cancel' \in [Vcpus -> BOOLEAN]
    BY <1>4 DEF RunCanceled, TypeInv, TypeOK
  <2> QED BY <1>4, <2>1, <2>2, LoopStepTyped DEF RunCanceled, TypeInv, TypeOK
<1>5. CASE ThreadEnds(v)
  <2>1. /\ \E pc \in {"cancelling", "sending"} : GoTo(v, pc)
        /\ stop' \in BOOLEAN
        /\ UNCHANGED <<cpus, requested, cancel, poisoned, watchdog, exits, main>>
        /\ vcpu[v].pc = "ended"
    BY <1>5 DEF ThreadEnds, TypeInv, TypeOK
  <2>2. /\ vcpu' \in [Vcpus -> VcpuRecords]
        /\ vcpu'[v].next = vcpu[v].next
        /\ \A w \in Vcpus : w # v => vcpu'[w] = vcpu[w]
    BY <2>1, GoToEffect DEF VcpuPcs
  <2>3. TypeOK'
    BY <2>1, <2>2 DEF TypeInv, TypeOK, Vcpus, VcpuRecords
  <2>4. InRange'
    BY <2>1, <2>2 DEF TypeInv, InRange, Vcpus
  <2> QED BY <2>3, <2>4 DEF TypeInv
<1>6. CASE CancelSibling(v)
  <2> DEFINE n == vcpu[v].next
  <2>1. n \in Vcpus /\ n + 1 \in 0..cpus /\ cpus \in Nat /\ vcpu[v] \in VcpuRecords
    BY <1>6 DEF CancelSibling, TypeInv, TypeOK, InRange, VcpuRecords, Vcpus
  <2>2. cancel' \in [Vcpus -> BOOLEAN]
    BY <1>6, <2>1 DEF CancelSibling, TypeInv, TypeOK
  <2>3. /\ vcpu' \in [Vcpus -> VcpuRecords]
        /\ vcpu'[v].next = n + 1
        /\ vcpu'[v].pc = IF n + 1 = cpus THEN "sending" ELSE "cancelling"
        /\ \A w \in Vcpus : w # v => vcpu'[w] = vcpu[w]
    BY <1>6, <2>1 DEF CancelSibling, LastHandle, TypeInv, TypeOK, VcpuRecords, VcpuPcs
  <2>4. TypeOK'
    BY <1>6, <2>2, <2>3 DEF CancelSibling, TypeInv, TypeOK, Vcpus, VcpuRecords
  <2>5. InRange'
    BY <1>6, <2>1, <2>3 DEF CancelSibling, TypeInv, InRange, Vcpus
  <2> QED BY <2>4, <2>5 DEF TypeInv
<1>7. CASE SendResult(v)
  <2>1. /\ vcpu' \in [Vcpus -> VcpuRecords]
        /\ vcpu'[v].pc = "sent"
        /\ \A w \in Vcpus : w # v => vcpu'[w] = vcpu[w]
    BY <1>7, GoToEffect DEF SendResult, VcpuPcs
  <2>2. exits' \in Seq(Results)
    BY <1>7 DEF SendResult, TypeInv, TypeOK
  <2>3. TypeOK'
    BY <1>7, <2>1, <2>2 DEF SendResult, TypeInv, TypeOK, Vcpus, VcpuRecords
  <2>4. InRange'
    BY <1>7, <2>1 DEF SendResult, TypeInv, InRange, Vcpus
  <2> QED BY <2>3, <2>4 DEF TypeInv
<1> QED BY <1>1, <1>2, <1>3, <1>4, <1>5, <1>6, <1>7 DEF VcpuStep

LEMMA WatchdogStepTyped ==
  ASSUME TypeInv, WatchdogStep
  PROVE  TypeInv'
<1>1. CASE WatchdogPolls
  <2>1. watchdog' \in WatchdogRecords /\ watchdog'.next = watchdog.next /\ watchdog.pc # "done"
    BY <1>1 DEF WatchdogPolls, TypeInv, TypeOK, WatchdogRecords
  <2> QED BY <1>1, <2>1 DEF WatchdogPolls, TypeInv, TypeOK, InRange, Vcpus, WatchdogRecords
<1>2. CASE WatchdogCancels
  <2>1. watchdog.next \in Vcpus /\ watchdog.next + 1 \in 0..cpus /\ cpus \in Nat
    BY <1>2 DEF WatchdogCancels, TypeInv, TypeOK, InRange, Vcpus
  <2>2. cancel' \in [Vcpus -> BOOLEAN]
    BY <1>2, <2>1 DEF WatchdogCancels, TypeInv, TypeOK
  <2>3. /\ watchdog' \in WatchdogRecords
        /\ watchdog'.pc # "done" => watchdog'.next < cpus
    BY <1>2, <2>1 DEF WatchdogCancels, LastHandle, WatchdogRecords
  <2> QED BY <1>2, <2>2, <2>3
          DEF WatchdogCancels, TypeInv, TypeOK, InRange, Vcpus, WatchdogRecords
<1> QED BY <1>1, <1>2 DEF WatchdogStep

LEMMA ResultsMerge ==
  ASSUME NEW old \in Results, NEW result \in Results
  PROVE  Merge(old, result) \in Results
  BY DEF Merge, AsReason, Results

LEMMA MainStepTyped ==
  ASSUME TypeInv, MainStep \/ DeadlineExpires \/ RequestStop
  PROVE  TypeInv'
<1>0. main \in MainRecords /\ cpus \in Nat /\ cpus > 0
  BY VcpuAssumptions DEF TypeInv, TypeOK, MainRecords
<1>1. CASE SpawnVcpu
  <2> DEFINE v == main.spawned
  <2>1. v \in Vcpus /\ v + 1 \in 0..cpus
    BY <1>0, <1>1 DEF SpawnVcpu, TypeInv, InRange, Vcpus, MainRecords
  <2>2. /\ vcpu' \in [Vcpus -> VcpuRecords]
        /\ vcpu'[v].pc = "check"
        /\ vcpu'[v].next = vcpu[v].next
        /\ \A w \in Vcpus : w # v => vcpu'[w] = vcpu[w]
    BY <1>1, <2>1, GoToEffect DEF SpawnVcpu, VcpuPcs
  <2>3. /\ main' \in MainRecords
        /\ main'.received = main.received
        /\ main'.pc = "spawning" => main'.spawned = v + 1 /\ v + 1 < cpus
    <3>1. CASE v + 1 = cpus
      <4>1. main' = [main EXCEPT !.spawned = v + 1, !.pc = "receiving"]
        BY <1>1, <3>1 DEF SpawnVcpu
      <4> QED BY <1>0, <2>1, <4>1 DEF MainRecords
    <3>2. CASE v + 1 # cpus
      <4>1. main' = [main EXCEPT !.spawned = v + 1, !.pc = main.pc]
        BY <1>1, <3>2 DEF SpawnVcpu
      <4>2. v + 1 < cpus
        BY <1>0, <2>1, <3>2
      <4>3. main' \in MainRecords
        BY <1>0, <2>1, <4>1 DEF MainRecords
      <4>4. main'.spawned = v + 1 /\ main'.received = main.received
        BY <1>0, <4>1 DEF MainRecords
      <4> QED BY <4>2, <4>3, <4>4
    <3> QED BY <3>1, <3>2
  <2>4. TypeOK'
    BY <1>1, <2>2, <2>3 DEF SpawnVcpu, TypeInv, TypeOK, Vcpus, VcpuRecords, MainRecords
  <2>5. InRange'
    <3>1. \A w \in Vcpus : vcpu'[w].pc \notin {"sending", "sent"} => vcpu'[w].next < cpus
      <4>1. vcpu[v].pc = "new"
        BY <1>1, <2>1 DEF SpawnVcpu, TypeInv, InRange, Vcpus
      <4>2. vcpu[v].next < cpus
        BY <2>1, <4>1 DEF TypeInv, InRange
      <4> QED BY <2>2, <4>2 DEF TypeInv, InRange
    <3>2. main.received < cpus
      BY <1>1 DEF SpawnVcpu, TypeInv, InRange
    <3>3. main'.pc = "spawning" => \A w \in Vcpus : w >= main'.spawned => vcpu'[w].pc = "new"
      <4> SUFFICES ASSUME main'.pc = "spawning", NEW w \in Vcpus, w >= v + 1
                   PROVE  vcpu'[w].pc = "new"
        BY <2>3
      <4>1. w # v /\ w >= v
        BY <2>1 DEF Vcpus
      <4> QED BY <1>1, <2>2, <4>1 DEF SpawnVcpu, TypeInv, InRange
    <3> QED BY <1>1, <2>3, <3>1, <3>2, <3>3 DEF SpawnVcpu, TypeInv, InRange, Vcpus
  <2> QED BY <2>4, <2>5 DEF TypeInv
<1>2. CASE SingleEnds
  <2>1. 0 \in Vcpus
    BY <1>0 DEF Vcpus
  <2>2. vcpu[0].result \in Results
    BY <2>1 DEF TypeInv, TypeOK
  <2>3. main' \in MainRecords /\ main'.pc \in {"returned", "joinWatchdog"} /\ stop' \in BOOLEAN
    BY <1>0, <1>2, <2>2 DEF SingleEnds, MainRecords, TypeInv, TypeOK
  <2> QED BY <1>2, <2>3 DEF SingleEnds, TypeInv, TypeOK, InRange, Vcpus, MainRecords
<1>3. CASE ReceiveExit
  <2>1. Head(exits) \in Results /\ Tail(exits) \in Seq(Results)
    BY <1>3 DEF ReceiveExit, TypeInv, TypeOK
  <2>2. Merge(main.reason, Head(exits)) \in Results
    BY <1>0, <2>1, ResultsMerge DEF MainRecords
  <2>3. main.received + 1 \in 0..cpus
    BY <1>0, <1>3 DEF ReceiveExit, TypeInv, InRange, MainRecords
  <2>4. /\ main' \in MainRecords
        /\ main'.pc \in {"receiving", "stopping"}
        /\ main'.pc = "receiving" => main'.received < cpus
    <3> DEFINE reason == Merge(main.reason, Head(exits))
               n == main.received + 1
    <3> HIDE DEF reason, n
    <3>1. CASE n = cpus
      <4>1. main' = [main EXCEPT !.reason = reason, !.received = n, !.pc = "stopping"]
        BY <1>3, <3>1 DEF ReceiveExit, reason, n
      <4> QED BY <1>0, <2>2, <2>3, <4>1 DEF MainRecords, reason, n
    <3>2. CASE n # cpus
      <4>1. main' = [main EXCEPT !.reason = reason, !.received = n, !.pc = "receiving"]
        BY <1>3, <3>2 DEF ReceiveExit, reason, n
      <4>2. reason \in Results /\ n \in 0..cpus /\ n < cpus
        BY <1>0, <2>2, <2>3, <3>2 DEF reason, n
      <4> QED BY <1>0, <4>1, <4>2 DEF MainRecords
    <3> QED BY <3>1, <3>2
  <2> QED BY <1>3, <2>1, <2>4 DEF ReceiveExit, TypeInv, TypeOK, InRange, Vcpus, MainRecords
<1>4. CASE ReceiveTimesOut \/ SetStop \/ JoinWatchdog \/ JoinVcpus
  <2>1. /\ main' \in MainRecords
        /\ main'.pc \notin {"spawning", "receiving"}
        /\ stop' \in BOOLEAN
        /\ UNCHANGED <<cpus, requested, cancel, vcpu, poisoned, watchdog, exits>>
    <3>1. CASE ReceiveTimesOut
      BY <1>0, <3>1 DEF ReceiveTimesOut, MainRecords, TypeInv, TypeOK
    <3>2. CASE SetStop
      BY <1>0, <3>2 DEF SetStop, MainRecords
    <3>3. CASE JoinWatchdog
      BY <1>0, <3>3 DEF JoinWatchdog, MainRecords, TypeInv, TypeOK
    <3>4. CASE JoinVcpus
      BY <1>0, <3>4 DEF JoinVcpus, MainRecords, TypeInv, TypeOK
    <3> QED BY <1>4, <3>1, <3>2, <3>3, <3>4
  <2> QED BY <2>1 DEF TypeInv, TypeOK, InRange, Vcpus, MainRecords
<1>5. CASE DeadlineExpires
  <2>1. /\ main' \in MainRecords
        /\ main'.pc = main.pc /\ main'.received = main.received /\ main'.spawned = main.spawned
    BY <1>0, <1>5 DEF DeadlineExpires, MainRecords
  <2> QED BY <1>5, <2>1 DEF DeadlineExpires, TypeInv, TypeOK, InRange, Vcpus, MainRecords
<1>6. CASE RequestStop
  BY <1>6 DEF RequestStop, TypeInv, TypeOK, InRange, Vcpus
<1> QED BY <1>1, <1>2, <1>3, <1>4, <1>5, <1>6 DEF MainStep

LEMMA TypeInductive ==
  ASSUME TypeInv, [Next]_vars
  PROVE  TypeInv'
<1>1. CASE UNCHANGED vars
  BY <1>1 DEF vars, TypeInv, TypeOK, InRange, Vcpus
<1> QED BY <1>1, VcpuStepTyped, WatchdogStepTyped, MainStepTyped DEF Next

\* The threads of a VM keep to their types: no handle beyond the last is
\* cancelled and no more results are received than there are vCPUs.
THEOREM Typing == Spec => []TypeInv
<1>1. Init => TypeInv
  <2> SUFFICES ASSUME Init PROVE TypeInv
    OBVIOUS
  <2>1. cpus \in Nat /\ cpus > 0 /\ cpus \in 1..MaxVcpus
    BY VcpuAssumptions DEF Init
  <2>2. main \in MainRecords /\ watchdog \in WatchdogRecords
    BY <2>1 DEF Init, MainRecords, WatchdogRecords, Results
  <2>3. vcpu \in [Vcpus -> VcpuRecords]
    BY <2>1 DEF Init, VcpuRecords, VcpuPcs, Results
  <2>4. TypeOK
    <3>1. exits \in Seq(Results) /\ cancel \in [Vcpus -> BOOLEAN]
      BY DEF Init
    <3>2. stop \in BOOLEAN /\ requested \in BOOLEAN /\ poisoned \in BOOLEAN
      BY DEF Init
    <3> QED BY <2>1, <2>2, <2>3, <3>1, <3>2 DEF TypeOK, MainRecords, WatchdogRecords, VcpuRecords
  <2>5. InRange
    BY <2>1 DEF Init, InRange
  <2> QED BY <2>4, <2>5 DEF TypeInv
<1>2. TypeInv /\ [Next]_vars => TypeInv'
  BY TypeInductive
<1> QED BY <1>1, <1>2, PTL DEF Spec

\* TypeOK, the type invariant of the runs, for every number of vCPUs.
THEOREM TypeCorrect == Spec => []TypeOK
<1>1. TypeInv => TypeOK
  BY DEF TypeInv
<1> QED BY <1>1, Typing, PTL

---------------------------------------------------------------------------
(* No thread is left behind. *)

\* How far the calling thread is tells which threads have ended.
Joined ==
  /\ main.expired => Multi
  /\ main.pc \in {"stopping", "joinVcpus"} => Multi
  /\ main.pc = "joinVcpus" => watchdog.pc = "done"
  /\ main.pc = "joinWatchdog" /\ ~Multi => vcpu[0].pc = "ended"
  /\ main.pc = "returned" /\ Multi =>
       watchdog.pc = "done" /\ \A v \in Vcpus : vcpu[v].pc = "sent"
  /\ main.pc = "returned" /\ ~Multi /\ main.reason \notin {"Error", "Panic"} =>
       watchdog.pc = "done" /\ vcpu[0].pc = "ended"

\* A step of a vCPU thread leaves the other threads alone, and only SendResult
\* makes a thread count as ended.
LEMMA VcpuStepEffect ==
  ASSUME TypeInv, NEW v \in Vcpus, VcpuStep(v) \/ GuestExits(v)
  PROVE  /\ UNCHANGED <<cpus, watchdog, main>>
         /\ vcpu[v].pc # "sent"
         /\ vcpu[v].pc = "ended" => Multi
         /\ \A w \in Vcpus : w # v => vcpu'[w] = vcpu[w]
         /\ SendResult(v) \/ (vcpu'[v].pc # "sent" /\ exits' = exits)
<1> USE DEF At
<1>0. vcpu \in [Vcpus -> VcpuRecords]
  BY DEF TypeInv, TypeOK, VcpuRecords
<1>1. CASE CheckStop(v) \/ UseDevices(v) \/ GuestExits(v) \/ RunCanceled(v)
  <2>1. /\ \/ \E pc \in {"check", "poll", "guest", "device"} : GoTo(v, pc)
           \/ \E result \in Results : Ends(v, result)
        /\ vcpu[v].pc \in {"check", "poll", "guest", "device"}
        /\ UNCHANGED <<cpus, watchdog, main, exits>>
    <3>1. CASE CheckStop(v)
      BY <3>1 DEF CheckStop, Results
    <3>2. CASE UseDevices(v)
      BY <3>2 DEF UseDevices, Results
    <3>3. CASE GuestExits(v)
      BY <3>3 DEF GuestExits, Results
    <3>4. CASE RunCanceled(v)
      BY <3>4 DEF RunCanceled, Results
    <3> QED BY <1>1, <3>1, <3>2, <3>3, <3>4
  <2>2. vcpu'[v].pc # "sent" /\ \A w \in Vcpus : w # v => vcpu'[w] = vcpu[w]
    BY <2>1, GoToEffect, EndsEffect DEF VcpuPcs
  <2> QED BY <2>1, <2>2
<1>2. CASE ThreadEnds(v)
  <2>1. \E pc \in {"cancelling", "sending"} : GoTo(v, pc)
    BY <1>2 DEF ThreadEnds
  <2>2. vcpu'[v].pc # "sent" /\ \A w \in Vcpus : w # v => vcpu'[w] = vcpu[w]
    BY <2>1, GoToEffect DEF VcpuPcs
  <2> QED BY <1>2, <2>2 DEF ThreadEnds
<1>3. CASE CancelSibling(v)
  BY <1>0, <1>3 DEF CancelSibling, VcpuRecords
<1>4. CASE SendResult(v)
  BY <1>0, <1>4 DEF SendResult, GoTo
<1> QED BY <1>1, <1>2, <1>3, <1>4 DEF VcpuStep

LEMMA JoinedInductive ==
  ASSUME TypeInv, Joined, [Next]_vars
  PROVE  Joined'
<1>0. /\ main \in MainRecords /\ cpus \in Nat /\ cpus > 0
      /\ 0 \in Vcpus
  BY VcpuAssumptions DEF TypeInv, TypeOK, MainRecords, Vcpus
<1>1. ASSUME NEW v \in Vcpus, VcpuStep(v) \/ GuestExits(v)
      PROVE  Joined'
  <2>1. /\ UNCHANGED <<cpus, watchdog, main>>
        /\ vcpu[v].pc # "sent"
        /\ vcpu[v].pc = "ended" => Multi
        /\ \A w \in Vcpus : w # v => vcpu'[w] = vcpu[w]
    BY <1>1, VcpuStepEffect
  <2> QED BY <1>0, <2>1 DEF Joined, Multi, Vcpus
<1>2. CASE WatchdogStep
  <2>1. watchdog.pc # "done" /\ UNCHANGED <<cpus, vcpu, main>>
    BY <1>2 DEF WatchdogStep, WatchdogPolls, WatchdogCancels
  <2> QED BY <2>1 DEF Joined, Multi, Vcpus
<1>3. CASE SpawnVcpu
  <2>1. /\ main'.pc \in {"spawning", "receiving"}
        /\ main'.expired = main.expired
        /\ cpus' = cpus
    BY <1>0, <1>3 DEF SpawnVcpu, MainRecords
  <2> QED BY <2>1 DEF Joined, Multi
<1>4. CASE SingleEnds
  <2>1. /\ UNCHANGED <<cpus, vcpu, watchdog>>
        /\ ~Multi /\ vcpu[0].pc = "ended"
        /\ main'.expired = main.expired
        /\ \/ main'.pc = "joinWatchdog"
           \/ main'.pc = "returned" /\ main'.reason \in {"Error", "Panic"}
    BY <1>0, <1>4 DEF SingleEnds, At, MainRecords
  <2> QED BY <2>1 DEF Joined, Multi
<1>5. CASE ReceiveExit
  <2>1. Multi /\ cpus' = cpus /\ main'.pc \in {"receiving", "stopping"}
    BY <1>0, <1>5 DEF ReceiveExit, MainRecords
  <2> QED BY <2>1 DEF Joined, Multi
<1>6. CASE ReceiveTimesOut
  <2>1. Multi /\ cpus' = cpus /\ main'.pc = "stopping"
    BY <1>0, <1>6 DEF ReceiveTimesOut, Joined, MainRecords
  <2> QED BY <2>1 DEF Joined, Multi
<1>7. CASE SetStop
  <2>1. Multi /\ cpus' = cpus /\ main'.pc = "joinWatchdog"
    BY <1>0, <1>7 DEF SetStop, Joined, MainRecords
  <2> QED BY <2>1 DEF Joined, Multi
<1>8. CASE JoinWatchdog
  <2>1. /\ UNCHANGED <<cpus, vcpu, watchdog>> /\ watchdog.pc = "done"
        /\ main.pc = "joinWatchdog" /\ main'.expired = main.expired
        /\ main'.pc = IF Multi THEN "joinVcpus" ELSE "returned"
    BY <1>0, <1>8 DEF JoinWatchdog, MainRecords
  <2> QED BY <2>1 DEF Joined, Multi
<1>9. CASE JoinVcpus
  <2>1. /\ UNCHANGED <<cpus, vcpu, watchdog>> /\ main.pc = "joinVcpus"
        /\ main'.pc = "returned" /\ main'.expired = main.expired
        /\ \A v \in Vcpus : vcpu[v].pc = "sent"
    BY <1>0, <1>9 DEF JoinVcpus, Joinable, At, MainRecords
  <2> QED BY <2>1 DEF Joined, Multi, Vcpus
<1>10. CASE DeadlineExpires
  <2>1. Multi /\ cpus' = cpus /\ main'.pc = "receiving"
    BY <1>0, <1>10 DEF DeadlineExpires, MainRecords
  <2> QED BY <2>1 DEF Joined, Multi
<1>11. CASE RequestStop \/ UNCHANGED vars
  <2>1. UNCHANGED <<cpus, vcpu, watchdog, main>>
    BY <1>11 DEF RequestStop, vars
  <2> QED BY <2>1 DEF Joined, Multi, Vcpus
<1> QED BY <1>1, <1>2, <1>3, <1>4, <1>5, <1>6, <1>7, <1>8, <1>9, <1>10, <1>11 DEF Next, MainStep

\* When boot_and_run returns an exit reason, its watchdog and all of its vCPU
\* threads have ended, for any number of vCPUs, and whether the collector has
\* timed out or not.
THEOREM ThreadsEnd == Spec => []NoHungThreads
<1>1. Init => Joined
  BY DEF Init, Joined
<1>2. TypeInv /\ Joined /\ [Next]_vars => Joined'
  BY JoinedInductive
<1>3. TypeInv /\ Joined => NoHungThreads
  <2> SUFFICES ASSUME TypeInv, Joined PROVE NoHungThreads
    OBVIOUS
  <2>1. CASE Multi
    BY <2>1 DEF Joined, NoHungThreads
  <2>2. CASE ~Multi
    <3>1. \A v \in Vcpus : v = 0
      BY <2>2, VcpuAssumptions DEF Multi, Vcpus, TypeInv, TypeOK
    <3> QED BY <2>2, <3>1 DEF Joined, NoHungThreads
  <2> QED BY <2>1, <2>2
<1> QED BY <1>1, <1>2, <1>3, Typing, PTL DEF Spec

---------------------------------------------------------------------------
(* The reported reason. *)

Sent == {v \in Vcpus : vcpu[v].pc = "sent"}

Accounted(v) ==
  \/ vcpu[v].result = "Canceled"
  \/ main.reason # "Canceled"
  \/ \E i \in 1..Len(exits) : exits[i] = vcpu[v].result

\* In a VM with several vCPUs: results in the channel and the reason come from
\* threads that have sent; no result other than Canceled gets lost between the
\* channel and the reason; every result sent is in the channel or received.
Collected ==
  Multi =>
    /\ \A i \in 1..Len(exits) : \E v \in Sent : exits[i] = vcpu[v].result
    /\ main.reason = "Canceled" \/ \E v \in Sent : main.reason = AsReason(vcpu[v].result)
    /\ \A v \in Sent : Accounted(v)
    /\ main.received + Len(exits) = Cardinality(Sent)
    /\ main.pc \notin {"spawning", "receiving"} /\ ~main.timed_out => main.received = cpus

LEMMA SentFinite ==
  ASSUME TypeInv
  PROVE  IsFiniteSet(Sent) /\ Cardinality(Sent) \in Nat /\ Cardinality(Sent) <= cpus
<1>1. cpus \in Nat /\ cpus > 0
  BY VcpuAssumptions DEF TypeInv, TypeOK
<1>2. IsFiniteSet(Vcpus) /\ Cardinality(Vcpus) = cpus
  BY <1>1, FS_Interval DEF Vcpus
<1>3. Sent \in SUBSET Vcpus
  BY DEF Sent
<1>4. IsFiniteSet(Sent) /\ Cardinality(Sent) <= cpus
  BY <1>2, <1>3, FS_Subset
<1> QED BY <1>4, FS_CardinalityType

\* Steps that neither send nor receive.
LEMMA CollectedKept ==
  ASSUME Collected, UNCHANGED <<cpus, exits>>,
         main'.reason = main.reason, main'.received = main.received,
         Multi /\ main'.pc \notin {"spawning", "receiving"} /\ ~main'.timed_out
           => main.received = cpus,
         Sent' = Sent, \A v \in Sent : vcpu'[v] = vcpu[v]
  PROVE  Collected'
<1> SUFFICES ASSUME Multi PROVE Collected'
  BY DEF Collected, Multi
<1>1. \A v \in Sent' : Accounted(v)'
  BY DEF Collected, Accounted
<1>2. \A i \in 1..Len(exits') : \E v \in Sent' : exits'[i] = vcpu'[v].result
  BY DEF Collected
<1>3. main'.reason = "Canceled" \/ \E v \in Sent' : main'.reason = AsReason(vcpu'[v].result)
  BY DEF Collected
<1> QED BY <1>1, <1>2, <1>3 DEF Collected, Multi

LEMMA CollectedSend ==
  ASSUME TypeInv, Collected, Multi, NEW v \in Vcpus, SendResult(v)
  PROVE  Collected'
<1> DEFINE res == vcpu[v].result
<1>0. exits \in Seq(Results) /\ res \in Results /\ vcpu \in [Vcpus -> VcpuRecords]
  BY DEF TypeInv, TypeOK, VcpuRecords
<1>1. /\ exits' = Append(exits, res)
      /\ Len(exits') = Len(exits) + 1
      /\ \A i \in 1..Len(exits) : exits'[i] = exits[i]
      /\ exits'[Len(exits) + 1] = res
      /\ Len(exits) \in Nat
  BY <1>0 DEF SendResult
<1>2. /\ vcpu'[v].pc = "sent" /\ vcpu'[v].result = res
      /\ \A w \in Vcpus : w # v => vcpu'[w] = vcpu[w]
      /\ vcpu[v].pc # "sent"
      /\ UNCHANGED <<cpus, main>>
  BY <1>0 DEF SendResult, GoTo, At, VcpuRecords
<1>3. Sent' = Sent \cup {v} /\ v \notin Sent
  BY <1>2 DEF Sent, Vcpus
<1>4. \A w \in Sent : vcpu'[w] = vcpu[w]
  BY <1>2, <1>3 DEF Sent
<1>5. \A i \in 1..Len(exits') : \E w \in Sent' : exits'[i] = vcpu'[w].result
  <2> SUFFICES ASSUME NEW i \in 1..Len(exits')
               PROVE  \E w \in Sent' : exits'[i] = vcpu'[w].result
    OBVIOUS
  <2>1. CASE i = Len(exits) + 1
    BY <1>1, <1>2, <1>3, <2>1
  <2>2. CASE i # Len(exits) + 1
    <3>1. i \in 1..Len(exits)
      BY <1>1, <2>2
    <3>2. PICK w \in Sent : exits[i] = vcpu[w].result
      BY <3>1 DEF Collected
    <3> QED BY <1>1, <1>3, <1>4, <3>1, <3>2
  <2> QED BY <2>1, <2>2
<1>6. main'.reason = "Canceled" \/ \E w \in Sent' : main'.reason = AsReason(vcpu'[w].result)
  BY <1>2, <1>3, <1>4 DEF Collected
<1>7. \A w \in Sent' : Accounted(w)'
  <2> SUFFICES ASSUME NEW w \in Sent' PROVE Accounted(w)'
    OBVIOUS
  <2>1. CASE w = v
    <3>1. Len(exits) + 1 \in 1..Len(exits')
      BY <1>1
    <3> QED BY <1>1, <1>2, <2>1, <3>1 DEF Accounted
  <2>2. CASE w # v
    <3>1. w \in Sent /\ Accounted(w)
      BY <1>3, <2>2 DEF Collected
    <3>2. \A i \in 1..Len(exits) : i \in 1..Len(exits')
      BY <1>1
    <3> QED BY <1>1, <1>2, <1>4, <3>1, <3>2 DEF Accounted
  <2> QED BY <2>1, <2>2
<1>8. main'.received + Len(exits') = Cardinality(Sent')
  <2>1. Cardinality(Sent') = Cardinality(Sent) + 1
    BY <1>3, SentFinite, FS_AddElement
  <2>2. main.received \in Nat
    BY VcpuAssumptions DEF TypeInv, TypeOK
  <2> QED BY <1>1, <1>2, <2>1, <2>2, SentFinite DEF Collected
<1> QED BY <1>2, <1>5, <1>6, <1>7, <1>8 DEF Collected, Multi

LEMMA CollectedReceive ==
  ASSUME TypeInv, Collected, ReceiveExit
  PROVE  Collected'
<1> DEFINE res == Head(exits)
<1>0. /\ exits \in Seq(Results) /\ exits # <<>> /\ Len(exits) \in Nat /\ Len(exits) > 0
      /\ main \in MainRecords /\ main.received \in Nat /\ cpus \in Nat
      /\ Multi /\ main.pc = "receiving"
  BY VcpuAssumptions DEF ReceiveExit, TypeInv, TypeOK, MainRecords
<1>1. /\ exits' = Tail(exits)
      /\ Len(exits') = Len(exits) - 1
      /\ \A i \in 1..Len(exits') : i + 1 \in 1..Len(exits) /\ exits'[i] = exits[i + 1]
      /\ res = exits[1] /\ 1 \in 1..Len(exits)
  BY <1>0 DEF ReceiveExit
<1>2. /\ main'.reason = Merge(main.reason, res)
      /\ main'.received = main.received + 1
      /\ main'.pc = IF main.received + 1 = cpus THEN "stopping" ELSE "receiving"
      /\ UNCHANGED <<cpus, vcpu>>
  BY <1>0 DEF ReceiveExit, MainRecords
<1>3. Sent' = Sent
  BY <1>2 DEF Sent, Vcpus
<1>4. \A i \in 1..Len(exits') : \E v \in Sent' : exits'[i] = vcpu'[v].result
  <2> SUFFICES ASSUME NEW i \in 1..Len(exits')
               PROVE  \E v \in Sent : exits'[i] = vcpu[v].result
    BY <1>2, <1>3
  <2>1. PICK v \in Sent : exits[i + 1] = vcpu[v].result
    BY <1>0, <1>1 DEF Collected
  <2> QED BY <1>1, <2>1
<1>5. main'.reason = "Canceled" \/ \E v \in Sent' : main'.reason = AsReason(vcpu'[v].result)
  <2>1. PICK v \in Sent : res = vcpu[v].result
    BY <1>0, <1>1 DEF Collected
  <2> QED BY <1>0, <1>2, <1>3, <2>1 DEF Collected, Merge
<1>6. \A v \in Sent' : Accounted(v)'
  <2> SUFFICES ASSUME NEW v \in Sent, vcpu[v].result # "Canceled", main'.reason = "Canceled"
               PROVE  \E i \in 1..Len(exits') : exits'[i] = vcpu[v].result
    BY <1>2, <1>3 DEF Accounted
  <2>1. main.reason = "Canceled" /\ AsReason(res) = "Canceled"
    BY <1>2 DEF Merge
  <2>2. res = "Canceled"
    BY <2>1 DEF AsReason
  <2>3. PICK i \in 1..Len(exits) : exits[i] = vcpu[v].result
    BY <1>0, <2>1 DEF Collected, Accounted
  <2>4. i # 1
    BY <1>1, <2>2, <2>3
  <2>5. i - 1 \in 1..Len(exits') /\ (i - 1) + 1 = i
    BY <1>0, <1>1, <2>4
  <2> QED BY <1>1, <2>3, <2>5
<1>7. main'.received + Len(exits') = Cardinality(Sent')
  BY <1>0, <1>1, <1>2, <1>3 DEF Collected
<1>8. main'.pc \notin {"spawning", "receiving"} => main'.received = cpus'
  BY <1>2
<1> QED BY <1>4, <1>5, <1>6, <1>7, <1>8 DEF Collected

LEMMA CollectedInductive ==
  ASSUME TypeInv, Joined, Collected, [Next]_vars
  PROVE  Collected'
<1>0. main \in MainRecords /\ vcpu \in [Vcpus -> VcpuRecords] /\ cpus \in Nat
  BY VcpuAssumptions DEF TypeInv, TypeOK, MainRecords, VcpuRecords
<1>1. ASSUME NEW v \in Vcpus, VcpuStep(v) \/ GuestExits(v)
      PROVE  Collected'
  <2>1. /\ UNCHANGED <<cpus, watchdog, main>>
        /\ vcpu[v].pc # "sent"
        /\ \A w \in Vcpus : w # v => vcpu'[w] = vcpu[w]
        /\ SendResult(v) \/ (vcpu'[v].pc # "sent" /\ exits' = exits)
    BY <1>1, VcpuStepEffect
  <2>2. CASE SendResult(v) /\ Multi
    BY <2>2, CollectedSend
  <2>3. CASE ~Multi
    BY <2>1, <2>3 DEF Collected, Multi
  <2>4. CASE ~SendResult(v)
    <3>1. Sent' = Sent /\ \A w \in Sent : vcpu'[w] = vcpu[w]
      BY <2>1, <2>4 DEF Sent, Vcpus
    <3> QED BY <2>1, <2>4, <3>1, CollectedKept DEF Collected
  <2> QED BY <2>2, <2>3, <2>4
<1>2. CASE WatchdogStep \/ RequestStop \/ UNCHANGED vars
  <2>1. UNCHANGED <<cpus, vcpu, main, exits>>
    BY <1>2 DEF WatchdogStep, WatchdogPolls, WatchdogCancels, RequestStop, vars
  <2>2. Sent' = Sent
    BY <2>1 DEF Sent, Vcpus
  <2> QED BY <2>1, <2>2, CollectedKept DEF Collected
<1>3. CASE SpawnVcpu
  <2> DEFINE v == main.spawned
  <2>1. v \in Vcpus /\ vcpu[v].pc = "new"
    BY <1>0, <1>3 DEF SpawnVcpu, TypeInv, InRange, Vcpus, MainRecords
  <2>2. vcpu'[v].pc = "check" /\ \A w \in Vcpus : w # v => vcpu'[w] = vcpu[w]
    BY <1>3, <2>1, GoToEffect DEF SpawnVcpu, VcpuPcs
  <2>3. /\ UNCHANGED <<cpus, exits>>
        /\ main'.reason = main.reason /\ main'.received = main.received
        /\ main'.pc \in {"spawning", "receiving"}
    BY <1>0, <1>3 DEF SpawnVcpu, MainRecords
  <2>4. Sent' = Sent /\ \A w \in Sent : vcpu'[w] = vcpu[w]
    BY <2>1, <2>2, <2>3 DEF Sent, Vcpus
  <2> QED BY <2>3, <2>4, CollectedKept
<1>4. CASE SingleEnds
  BY <1>4 DEF SingleEnds, Collected, Multi
<1>5. CASE ReceiveExit
  BY <1>5, CollectedReceive
<1>6. CASE ReceiveTimesOut \/ SetStop \/ JoinWatchdog \/ JoinVcpus \/ DeadlineExpires
  <2>1. /\ UNCHANGED <<cpus, exits, vcpu>>
        /\ main'.reason = main.reason /\ main'.received = main.received
        /\ \/ main'.timed_out
           \/ main'.pc = "receiving"
           \/ main'.timed_out = main.timed_out /\ main.pc \notin {"spawning", "receiving"}
    <3>1. CASE ReceiveTimesOut
      BY <1>0, <3>1 DEF ReceiveTimesOut, MainRecords
    <3>2. CASE SetStop
      BY <1>0, <3>2 DEF SetStop, MainRecords
    <3>3. CASE JoinWatchdog
      BY <1>0, <3>3 DEF JoinWatchdog, MainRecords
    <3>4. CASE JoinVcpus
      BY <1>0, <3>4 DEF JoinVcpus, MainRecords
    <3>5. CASE DeadlineExpires
      BY <1>0, <3>5 DEF DeadlineExpires, MainRecords
    <3> QED BY <1>6, <3>1, <3>2, <3>3, <3>4, <3>5
  <2>2. Sent' = Sent
    BY <2>1 DEF Sent, Vcpus
  <2> QED BY <2>1, <2>2, CollectedKept DEF Collected
<1> QED BY <1>1, <1>2, <1>3, <1>4, <1>5, <1>6 DEF Next, MainStep

\* A collector that has not timed out has seen every result: the VM counts as
\* canceled only when all of its vCPUs were, and never reports a reason no
\* vCPU had, whatever the order in which the threads send.
THEOREM ReasonIsAVcpus == Spec => []ReasonIsTrue
<1>1. Init => Joined /\ Collected
  <2> SUFFICES ASSUME Init PROVE Joined /\ Collected
    OBVIOUS
  <2>1. Joined
    BY DEF Init, Joined
  <2>2. Sent = {} /\ Len(exits) = 0 /\ main.received = 0 /\ main.pc = "spawning"
    BY DEF Init, Sent
  <2>3. Cardinality(Sent) = 0
    BY <2>2, FS_EmptySet
  <2> QED BY <2>1, <2>2, <2>3 DEF Init, Collected
<1>2. TypeInv /\ Joined /\ Collected /\ [Next]_vars => Joined' /\ Collected'
  BY JoinedInductive, CollectedInductive
<1>3. TypeInv /\ Joined /\ Collected => ReasonIsTrue
  <2> SUFFICES ASSUME TypeInv, Joined, Collected,
                      main.pc = "returned", Multi, ~main.timed_out
               PROVE  /\ main.reason \in {AsReason(vcpu[v].result) : v \in Vcpus}
                      /\ main.reason = "Canceled" =>
                           \A v \in Vcpus : vcpu[v].result = "Canceled"
    BY DEF ReasonIsTrue
  <2>1. Sent = Vcpus
    BY DEF Joined, Sent
  <2>2. exits \in Seq(Results) /\ main.received = cpus /\ cpus \in Nat
    BY VcpuAssumptions DEF Collected, TypeInv, TypeOK
  <2>3. Len(exits) = 0
    <3>1. Len(exits) \in Nat /\ cpus + Len(exits) = Cardinality(Sent)
      BY <2>2 DEF Collected
    <3> QED BY <2>2, <3>1, SentFinite
  <2>4. main.reason = "Canceled" => \A v \in Vcpus : vcpu[v].result = "Canceled"
    BY <2>1, <2>3 DEF Collected, Accounted
  <2>5. 0 \in Vcpus
    BY <2>2 DEF Multi, Vcpus
  <2>6. CASE main.reason = "Canceled"
    BY <2>4, <2>5, <2>6 DEF AsReason
  <2>7. CASE main.reason # "Canceled"
    BY <2>1, <2>7 DEF Collected
  <2> QED BY <2>4, <2>6, <2>7
<1> QED BY <1>1, <1>2, <1>3, Typing, PTL DEF Spec
=============================================================================
