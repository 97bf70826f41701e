-------------------------- MODULE VmServicesProofs --------------------------
(***************************************************************************)
(* Proofs about VmServices for every set of rules, every finite set of     *)
(* connections and every VM.                                               *)
(***************************************************************************)
EXTENDS VmServices, FiniteSetTheorems, SequenceTheorems, TLAPS

---------------------------------------------------------------------------
(* The port forwarder. *)

ListenerRecords ==
  [pc : {"none", "unbound", "accept", "hold", "push", "closed"}, aborted : BOOLEAN]

RelayRecords ==
  [pc : {"none", "relaying", "ended", "cancelled"}, rule : Rules \cup {0},
   handle : {"hand", "vec", "gone"}, aborted : BOOLEAN]

FwdType ==
  /\ fwd \in {"none", "binding", "started", "drained", "skipped"}
  /\ listener \in [Rules -> ListenerRecords]
  /\ relay \in [Conns -> RelayRecords]
  /\ lock \in Rules \cup {0}
  /\ relays_active \in Nat

\* The relays that the counter counts.
Counted == {c \in Conns : relay[c].pc \in {"relaying", "cancelled"}}

\* The relays of a rule that nobody has aborted.
Loose(r) == {c \in Conns : relay[c].rule = r /\ relay[c].pc = "relaying" /\ ~relay[c].aborted}

CountRight == relays_active = Cardinality(Counted)

\* A handle is in the hand of its listener, which holds one at a time.
InHand ==
  /\ \A c \in Conns : relay[c].handle = "hand" =>
       relay[c].rule \in Rules /\ listener[relay[c].rule].pc \in {"hold", "push"}
  /\ \A c, d \in Conns :
       relay[c].handle = "hand" /\ relay[d].handle = "hand" /\ relay[c].rule = relay[d].rule
         => c = d

\* Until the manager is dropped nothing is aborted, and the handle of every
\* relay is in a hand or in the vector.
BeforeDrop ==
  fwd \notin {"drained", "skipped"} =>
    /\ \A r \in Rules : ~listener[r].aborted
    /\ \A c \in Conns : relay[c].pc = "relaying" => relay[c].handle # "gone" /\ ~relay[c].aborted

\* After a drop that got the lock no listener accepts, and the relays that are
\* left were in the hands of their listeners.
AfterDrain ==
  fwd = "drained" =>
    /\ \A r \in Rules : listener[r].pc \in {"accept", "hold", "push"} => listener[r].aborted
    /\ \A c, d \in Conns :
         /\ relay[c].pc = "relaying" /\ ~relay[c].aborted
         /\ relay[d].pc = "relaying" /\ ~relay[d].aborted
         /\ relay[c].rule = relay[d].rule
         => c = d

\* The manager is dropped once, at the end of the task.
DroppedOnce == fwd = "skipped" => vm.pc = "done"

\* Nothing happens where nothing was started.
Idle ==
  fwd = "none" => /\ \A r \in Rules : listener[r].pc = "none"
                  /\ \A c \in Conns : relay[c].pc = "none"

FwdInv == FwdType /\ CountRight /\ Idle /\ InHand /\ BeforeDrop /\ AfterDrain /\ DroppedOnce

---------------------------------------------------------------------------

LEMMA FwdInitInv == Init => FwdInv
<1> SUFFICES ASSUME Init PROVE FwdInv
  OBVIOUS
<1>1. NoListener \in ListenerRecords /\ ~NoListener.aborted /\ NoListener.pc = "none"
  BY DEF NoListener, ListenerRecords
<1>2. NoRelay \in RelayRecords /\ NoRelay.pc = "none" /\ NoRelay.handle = "gone"
  BY DEF NoRelay, RelayRecords
<1>3. listener \in [Rules -> ListenerRecords] 
      /\ \A r \in Rules : ~listener[r].aborted /\ listener[r].pc = "none"
  BY <1>1 DEF Init, FwdInit
<1>4. relay \in [Conns -> RelayRecords]
      /\ \A c \in Conns : relay[c].pc = "none" /\ relay[c].handle = "gone"
  BY <1>2 DEF Init, FwdInit
<1>5. Counted = {}
  BY <1>4 DEF Counted
<1>6. CountRight
  BY <1>5, FS_EmptySet DEF Init, FwdInit, CountRight
<1>7. FwdType
  BY <1>3, <1>4 DEF Init, FwdInit, FwdType
<1>8. InHand /\ BeforeDrop
  BY <1>3, <1>4 DEF InHand, BeforeDrop
<1>9. Idle
  BY <1>3, <1>4 DEF Idle
<1> QED BY <1>6, <1>7, <1>8, <1>9 DEF Init, FwdInit, FwdInv, AfterDrain, DroppedOnce, Idle

\* The steps of everybody else.
LEMMA OthersFwdInv ==
  ASSUME FwdInv, UNCHANGED fwdVars, vm.pc = "done" => vm'.pc = "done"
  PROVE  FwdInv'
  BY DEF fwdVars, FwdInv, FwdType, CountRight, Counted, InHand, BeforeDrop, AfterDrain, DroppedOnce, Idle

\* A step after which no relay counts that did not.
LEMMA SameCount ==
  ASSUME CountRight, UNCHANGED relays_active,
         \A c \in Conns : relay'[c].pc \in {"relaying", "cancelled"}
                            <=> relay[c].pc \in {"relaying", "cancelled"}
  PROVE  CountRight'
<1>1. Counted' = Counted
  BY DEF Counted
<1> QED BY <1>1 DEF CountRight

LEMMA CountedFinite == ASSUME FwdInv PROVE IsFiniteSet(Counted)
  BY ForwardAssumptions, FS_Subset DEF Counted

LEMMA BindInv ==
  ASSUME FwdInv, NEW r \in Rules, BindRule(r), UNCHANGED vm
  PROVE  FwdInv'
<1>1. PICK pc \in {"accept", "unbound"} : listener' = [listener EXCEPT ![r].pc = pc]
  BY DEF BindRule
<1>2. /\ listener' \in [Rules -> ListenerRecords]
      /\ \A q \in Rules : listener'[q].aborted = listener[q].aborted
      /\ \A q \in Rules : q # r => listener'[q] = listener[q]
      /\ listener[r].pc = "none"
  BY <1>1 DEF BindRule, FwdInv, FwdType, ListenerRecords
<1>3. fwd = "binding" /\ fwd' \in {"started", "binding"} /\ UNCHANGED <<relay, lock, relays_active>>
  BY DEF BindRule
<1> QED BY <1>2, <1>3
        DEF FwdInv, FwdType, CountRight, Counted, InHand, BeforeDrop, AfterDrain, DroppedOnce, Idle

LEMMA AcceptInv ==
  ASSUME FwdInv, NEW r \in Rules, NEW c \in Conns, Accept(r, c), UNCHANGED vm
  PROVE  FwdInv'
<1> DEFINE new == [pc |-> "relaying", rule |-> r, handle |-> "hand", aborted |-> FALSE]
<1>1. /\ new \in RelayRecords /\ new.pc = "relaying" /\ new.rule = r /\ new.handle = "hand"
      /\ ~new.aborted
  BY DEF RelayRecords
<1>2. /\ relay' = [relay EXCEPT ![c] = new]
      /\ relays_active' = relays_active + 1 /\ UNCHANGED <<fwd, lock>>
      /\ listener' = [listener EXCEPT ![r].pc = "hold"]
      /\ relay[c].pc = "none" /\ listener[r].pc = "accept" /\ ~listener[r].aborted
  BY DEF Accept
<1> HIDE DEF new
<1>3. /\ relay' \in [Conns -> RelayRecords] /\ relay'[c] = new
      /\ \A d \in Conns : d # c => relay'[d] = relay[d]
  BY <1>1, <1>2 DEF FwdInv, FwdType
<1>4. /\ listener' \in [Rules -> ListenerRecords]
      /\ listener'[r].pc = "hold"
      /\ \A q \in Rules : listener'[q].aborted = listener[q].aborted
      /\ \A q \in Rules : q # r => listener'[q] = listener[q]
  BY <1>2 DEF FwdInv, FwdType, ListenerRecords
<1>5. CountRight'
  <2>1. Counted' = Counted \cup {c} /\ c \notin Counted
    BY <1>1, <1>2, <1>3 DEF Counted
  <2>2. Cardinality(Counted') = Cardinality(Counted) + 1
    BY <2>1, CountedFinite, FS_AddElement
  <2> QED BY <1>2, <2>2 DEF FwdInv, CountRight
<1>6. InHand'
  BY <1>1, <1>2, <1>3, <1>4 DEF FwdInv, InHand
<1>7. fwd # "drained" /\ fwd # "none"
  BY <1>2 DEF FwdInv, AfterDrain, Idle
<1>8. BeforeDrop' /\ AfterDrain' /\ DroppedOnce' /\ Idle'
  BY <1>1, <1>2, <1>3, <1>4, <1>7 DEF FwdInv, BeforeDrop, AfterDrain, DroppedOnce, Idle
<1>9. FwdType'
  BY <1>2, <1>3, <1>4 DEF FwdInv, FwdType
<1> QED BY <1>5, <1>6, <1>8, <1>9 DEF FwdInv

LEMMA TakeLockInv ==
  ASSUME FwdInv, NEW r \in Rules, TakeLock(r), UNCHANGED vm
  PROVE  FwdInv'
<1>1. /\ listener' \in [Rules -> ListenerRecords]
      /\ listener[r].pc = "hold" /\ listener'[r].pc = "push"
      /\ \A q \in Rules : listener'[q].aborted = listener[q].aborted
      /\ \A q \in Rules : q # r => listener'[q] = listener[q]
  BY DEF TakeLock, FwdInv, FwdType, ListenerRecords
<1>2. lock' = r /\ UNCHANGED <<fwd, relay, relays_active>>
  BY DEF TakeLock
<1> QED BY <1>1, <1>2
        DEF FwdInv, FwdType, CountRight, Counted, InHand, BeforeDrop, AfterDrain, DroppedOnce, Idle

\* The handle in a listener's hand is moved.
LEMMA HandMoved ==
  ASSUME FwdInv, NEW r \in Rules, NEW h \in {"vec", "gone"},
         relay' = [c \in Conns |->
                     IF relay[c].rule = r /\ relay[c].handle = "hand"
                     THEN [relay[c] EXCEPT !.handle = h] ELSE relay[c]]
  PROVE  /\ relay' \in [Conns -> RelayRecords]
         /\ \A c \in Conns :
              /\ relay'[c].pc = relay[c].pc /\ relay'[c].rule = relay[c].rule
              /\ relay'[c].aborted = relay[c].aborted
              /\ relay'[c].handle =
                   IF relay[c].rule = r /\ relay[c].handle = "hand" THEN h ELSE relay[c].handle
  BY DEF FwdInv, FwdType, RelayRecords

LEMMA PushInv ==
  ASSUME FwdInv, NEW r \in Rules, PushRelay(r), UNCHANGED vm
  PROVE  FwdInv'
<1>1. /\ relay' \in [Conns -> RelayRecords]
      /\ \A c \in Conns :
           /\ relay'[c].pc = relay[c].pc /\ relay'[c].rule = relay[c].rule
           /\ relay'[c].aborted = relay[c].aborted
           /\ relay'[c].handle =
                IF relay[c].rule = r /\ relay[c].handle = "hand" THEN "vec" ELSE relay[c].handle
  BY HandMoved DEF PushRelay
<1>2. /\ listener' \in [Rules -> ListenerRecords]
      /\ listener[r].pc = "push" /\ listener'[r].pc = "accept"
      /\ \A q \in Rules : listener'[q].aborted = listener[q].aborted
      /\ \A q \in Rules : q # r => listener'[q] = listener[q]
  BY DEF PushRelay, FwdInv, FwdType, ListenerRecords
<1>3. lock' = 0 /\ UNCHANGED <<fwd, relays_active>>
  BY DEF PushRelay
<1>4. CountRight'
  BY <1>1, <1>3, SameCount DEF FwdInv
<1>5. InHand'
  BY <1>1, <1>2 DEF FwdInv, InHand
<1>6. BeforeDrop' /\ DroppedOnce' /\ Idle'
  BY <1>1, <1>2, <1>3 DEF FwdInv, BeforeDrop, DroppedOnce, Idle
<1>7. AfterDrain'
  BY <1>1, <1>2, <1>3 DEF FwdInv, AfterDrain
<1>8. FwdType'
  BY <1>1, <1>2, <1>3 DEF FwdInv, FwdType
<1> QED BY <1>4, <1>5, <1>6, <1>7, <1>8 DEF FwdInv

LEMMA EndListenerInv ==
  ASSUME FwdInv, NEW r \in Rules, EndListener(r), UNCHANGED vm
  PROVE  FwdInv'
<1>1. /\ relay' \in [Conns -> RelayRecords]
      /\ \A c \in Conns :
           /\ relay'[c].pc = relay[c].pc /\ relay'[c].rule = relay[c].rule
           /\ relay'[c].aborted = relay[c].aborted
           /\ relay'[c].handle =
                IF relay[c].rule = r /\ relay[c].handle = "hand" THEN "gone" ELSE relay[c].handle
  BY HandMoved DEF EndListener
<1>2. /\ listener' \in [Rules -> ListenerRecords]
      /\ listener[r].aborted /\ listener'[r].pc = "closed"
      /\ \A q \in Rules : listener'[q].aborted = listener[q].aborted
      /\ \A q \in Rules : q # r => listener'[q] = listener[q]
  BY DEF EndListener, FwdInv, FwdType, ListenerRecords
<1>3. UNCHANGED <<fwd, lock, relays_active>>
  BY DEF EndListener
<1>4. CountRight'
  BY <1>1, <1>3, SameCount DEF FwdInv
<1>5. InHand'
  BY <1>1, <1>2 DEF FwdInv, InHand
<1>6. BeforeDrop' /\ DroppedOnce' /\ Idle'
  <2>1. listener[r].pc # "none"
    BY DEF EndListener
  <2> QED BY <1>2, <1>3, <2>1 DEF FwdInv, BeforeDrop, DroppedOnce, Idle
<1>7. AfterDrain'
  BY <1>1, <1>2, <1>3 DEF FwdInv, AfterDrain
<1>8. FwdType'
  BY <1>1, <1>2, <1>3 DEF FwdInv, FwdType
<1> QED BY <1>4, <1>5, <1>6, <1>7, <1>8 DEF FwdInv

\* A relay task ends.
LEMMA RelayGone ==
  ASSUME FwdInv, NEW c \in Conns, NEW pc \in {"ended", "cancelled"},
         relay' = [relay EXCEPT ![c].pc = pc], relay[c].pc = "relaying",
         UNCHANGED <<fwd, listener, lock, vm>>
  PROVE  /\ relay' \in [Conns -> RelayRecords]
         /\ relay'[c].pc = pc
         /\ \A d \in Conns : d # c => relay'[d] = relay[d]
         /\ InHand' /\ BeforeDrop' /\ AfterDrain' /\ DroppedOnce' /\ Idle'
<1>1. /\ relay' \in [Conns -> RelayRecords]
      /\ relay'[c].pc = pc /\ relay'[c].rule = relay[c].rule
      /\ relay'[c].handle = relay[c].handle /\ relay'[c].aborted = relay[c].aborted
      /\ \A d \in Conns : d # c => relay'[d] = relay[d]
  BY DEF FwdInv, FwdType, RelayRecords
<1>2. InHand'
  BY <1>1 DEF FwdInv, InHand
<1>3. BeforeDrop' /\ DroppedOnce' /\ Idle'
  BY <1>1 DEF FwdInv, BeforeDrop, DroppedOnce, Idle
<1>4. AfterDrain'
  BY <1>1 DEF FwdInv, AfterDrain
<1> QED BY <1>1, <1>2, <1>3, <1>4

LEMMA RelayEndsInv ==
  ASSUME FwdInv, NEW c \in Conns, RelayEnds(c), UNCHANGED vm
  PROVE  FwdInv'
<1>1. /\ relay' \in [Conns -> RelayRecords] /\ relay[c].pc = "relaying" /\ relay'[c].pc = "ended"
      /\ \A d \in Conns : d # c => relay'[d] = relay[d]
      /\ InHand' /\ BeforeDrop' /\ AfterDrain' /\ DroppedOnce' /\ Idle'
  BY RelayGone DEF RelayEnds
<1>2. Counted' = Counted \ {c} /\ c \in Counted
  BY <1>1 DEF Counted
<1>3. Cardinality(Counted') = Cardinality(Counted) - 1 /\ Cardinality(Counted') \in Nat
  BY <1>2, CountedFinite, FS_RemoveElement, FS_CardinalityType
<1>4. relays_active' = relays_active - 1 /\ UNCHANGED <<fwd, listener, lock>>
  BY DEF RelayEnds
<1> QED BY <1>1, <1>3, <1>4 DEF FwdInv, FwdType, CountRight

LEMMA RelayCancelledInv ==
  ASSUME FwdInv, NEW c \in Conns, RelayCancelled(c), UNCHANGED vm
  PROVE  FwdInv'
<1>1. /\ relay' \in [Conns -> RelayRecords] /\ relay[c].pc = "relaying" /\ relay'[c].pc = "cancelled"
      /\ \A d \in Conns : d # c => relay'[d] = relay[d]
      /\ InHand' /\ BeforeDrop' /\ AfterDrain' /\ DroppedOnce' /\ Idle'
  BY RelayGone DEF RelayCancelled
<1>2. UNCHANGED <<fwd, listener, lock, relays_active>>
  BY DEF RelayCancelled
<1>3. CountRight'
  BY <1>1, <1>2, SameCount DEF FwdInv
<1> QED BY <1>1, <1>2, <1>3 DEF FwdInv, FwdType

LEMMA DropInv ==
  ASSUME FwdInv, DropForwarding, vm.pc = "notified", vm'.pc = "done"
  PROVE  FwdInv'
<1>1. /\ listener' \in [Rules -> ListenerRecords]
      /\ \A r \in Rules :
           /\ listener'[r].pc = listener[r].pc
           /\ listener[r].pc \notin {"none", "unbound"} => listener'[r].aborted
           /\ listener[r].pc \in {"none", "unbound"} => listener'[r] = listener[r]
  BY DEF DropForwarding, FwdInv, FwdType, ListenerRecords
<1>2. UNCHANGED <<lock, relays_active>> /\ fwd # "skipped"
  BY DEF DropForwarding, FwdInv, DroppedOnce
<1>3. CASE lock = 0
  <2>1. relay' = [c \in Conns |-> IF relay[c].handle = "vec" THEN Abort(c) ELSE relay[c]]
        /\ fwd' = IF fwd = "none" THEN "none" ELSE "drained"
    BY <1>3 DEF DropForwarding
  <2>2. /\ relay' \in [Conns -> RelayRecords]
        /\ \A c \in Conns :
             /\ relay'[c].pc = relay[c].pc /\ relay'[c].rule = relay[c].rule
             /\ relay[c].handle = "vec" => relay'[c].handle = "gone" /\ relay'[c].aborted
             /\ relay[c].handle # "vec" => relay'[c] = relay[c]
    BY <2>1 DEF Abort, FwdInv, FwdType, RelayRecords
  <2>3. CountRight'
    BY <1>2, <2>2, SameCount DEF FwdInv
  <2>4. InHand'
    BY <1>1, <2>2 DEF FwdInv, InHand
  <2>5. AfterDrain'
    <3>1. CASE fwd = "drained"
      <4>1. \A c \in Conns : ~relay'[c].aborted => relay'[c] = relay[c]
        BY <2>2
      <4> QED BY <1>1, <2>1, <2>2, <3>1, <4>1 DEF FwdInv, AfterDrain
    <3>2. CASE fwd # "drained"
      <4>1. \A c \in Conns : relay'[c].pc = "relaying" /\ ~relay'[c].aborted =>
              relay[c].handle = "hand"
        BY <1>2, <2>2, <3>2 DEF FwdInv, FwdType, RelayRecords, BeforeDrop
      <4> QED BY <1>1, <2>2, <4>1 DEF FwdInv, AfterDrain, InHand
    <3> QED BY <3>1, <3>2
  <2>6. BeforeDrop' /\ Idle' /\ DroppedOnce'
    <3>1. CASE fwd = "none"
      BY <1>1, <2>1, <2>2, <3>1 DEF FwdInv, BeforeDrop, Idle, DroppedOnce
    <3>2. CASE fwd # "none"
      BY <2>1, <3>2 DEF BeforeDrop, Idle, DroppedOnce
    <3> QED BY <3>1, <3>2
  <2>7. FwdType'
    BY <1>1, <1>2, <2>1, <2>2 DEF FwdInv, FwdType
  <2> QED BY <2>3, <2>4, <2>5, <2>6, <2>7 DEF FwdInv
<1>4. CASE lock # 0
  <2>1. relay' = relay /\ fwd' = "skipped"
    BY <1>4 DEF DropForwarding
  <2> QED BY <1>1, <1>2, <2>1
          DEF FwdInv, FwdType, CountRight, Counted, InHand, BeforeDrop, AfterDrain, DroppedOnce, Idle
<1> QED BY <1>3, <1>4

LEMMA CancelInv ==
  ASSUME FwdInv, CancelForwarding,
         \A r \in Rules : listener[r].pc \notin {"hold", "push"}
  PROVE  FwdInv'
<1>1. /\ listener' \in [Rules -> ListenerRecords]
      /\ \A r \in Rules : listener'[r].pc \in {"none", "closed"}
  BY DEF CancelForwarding, NoListener, FwdInv, FwdType, ListenerRecords
<1>2. /\ relay' \in [Conns -> RelayRecords]
      /\ \A c \in Conns :
           /\ relay[c].pc = "relaying" => relay'[c].pc = "cancelled" /\ relay'[c].handle = "gone"
           /\ relay[c].pc # "relaying" => relay'[c] = relay[c]
  BY DEF CancelForwarding, FwdInv, FwdType, RelayRecords
<1>3. lock' = 0 /\ UNCHANGED relays_active /\ fwd' = IF fwd = "none" THEN "none" ELSE "drained"
  BY DEF CancelForwarding
<1>4. CountRight'
  BY <1>2, <1>3, SameCount DEF FwdInv
<1>5. InHand'
  BY <1>2 DEF FwdInv, InHand
<1>6. AfterDrain' /\ DroppedOnce'
  BY <1>1, <1>2, <1>3 DEF AfterDrain, DroppedOnce, Idle
<1>7. FwdType'
  BY <1>1, <1>2, <1>3 DEF FwdInv, FwdType
<1>8. BeforeDrop' /\ Idle'
  <2>1. CASE fwd = "none"
    <3>1. \A r \in Rules : listener'[r] = NoListener
      BY <2>1 DEF CancelForwarding, FwdInv, Idle
    <3> QED BY <1>2, <1>3, <2>1, <3>1 DEF FwdInv, BeforeDrop, Idle, NoListener
  <2>2. CASE fwd # "none"
    BY <1>3, <2>2 DEF BeforeDrop, Idle
  <2> QED BY <2>1, <2>2
<1> QED BY <1>4, <1>5, <1>6, <1>7, <1>8 DEF FwdInv

LEMMA FwdStepInv == ASSUME FwdInv, [Next]_vars PROVE FwdInv'
<1>1. ASSUME NEW k \in VmConfigs, Start(k) PROVE FwdInv'
  <2>1. UNCHANGED fwdVars /\ vm.pc # "done"
    BY <1>1 DEF Start, StartVm
  <2> QED BY <2>1, OthersFwdInv
<1>2. CASE Forward
  <2>1. StartForwarding(IF vm.config.net /\ vm.config.ports THEN Rules ELSE {})
    BY <1>2 DEF Forward, Task
  <2>2. fwd = "none" /\ fwd' \in {"none", "binding"} /\ UNCHANGED <<listener, relay, lock, relays_active>>
    BY <2>1 DEF StartForwarding
  <2> QED BY <2>2 DEF FwdInv, FwdType, CountRight, Counted, InHand, BeforeDrop, AfterDrain,
                      DroppedOnce, Idle
<1>3. CASE Task(fwd # "binding" /\ TaskBoots /\ UNCHANGED fwdVars)
  <2>1. UNCHANGED fwdVars /\ vm.pc # "done"
    BY <1>3 DEF Task, TaskBoots
  <2> QED BY <2>1, OthersFwdInv
<1>4. CASE Task((TaskRecords \/ TaskNotifies) /\ UNCHANGED fwdVars)
  <2>1. UNCHANGED fwdVars /\ vm.pc # "done"
    BY <1>4 DEF Task, TaskRecords, TaskNotifies
  <2> QED BY <2>1, OthersFwdInv
<1>5. CASE Task(TaskEnds /\ DropForwarding)
  <2>1. vm.pc = "notified" /\ vm' = [vm EXCEPT !.pc = "done"] /\ DropForwarding
    BY <1>5 DEF Task, TaskEnds
  <2>2. vm'.pc = "done"
    BY <2>1
  <2> QED BY <2>1, <2>2, DropInv
<1>6. CASE Boot \/ Exit \/ Return
  <2>1. UNCHANGED fwdVars /\ UNCHANGED vm
    BY <1>6 DEF Boot, Exit, Return, Thread, BootGuest, BootFails, GuestExits, BootReturns
  <2> QED BY <2>1, OthersFwdInv
<1>7. CASE RtShutdown
  BY <1>7, CancelInv DEF RtShutdown
<1>8. CASE Traffic
  <2>1. ASSUME NEW r \in Rules, NEW c \in Conns, Fwd(Accept(r, c)) PROVE FwdInv'
    BY <2>1, AcceptInv DEF Fwd, vmVars
  <2>2. ASSUME NEW c \in Conns, Fwd(RelayEnds(c)) PROVE FwdInv'
    BY <2>2, RelayEndsInv DEF Fwd, vmVars
  <2>3. CASE UNCHANGED <<fwdVars, vm>>
    BY <2>3, OthersFwdInv
  <2> QED BY <1>8, <2>1, <2>2, <2>3 DEF Traffic, Net, Agent, vmVars
<1>9. CASE ForwardTasks
  <2>1. ASSUME NEW r \in Rules, Fwd(ListenerStep(r)) PROVE FwdInv'
    BY <2>1, BindInv, TakeLockInv, PushInv, EndListenerInv DEF Fwd, vmVars, ListenerStep
  <2>2. ASSUME NEW c \in Conns, Fwd(RelayCancelled(c)) PROVE FwdInv'
    BY <2>2, RelayCancelledInv DEF Fwd, vmVars
  <2> QED BY <1>9, <2>1, <2>2 DEF ForwardTasks
<1>10. CASE MetricsSteps \/ MetricsReader \/ ShutdownSignal \/ Net(NetThread) \/ UNCHANGED vars
  <2>1. UNCHANGED fwdVars /\ UNCHANGED vm
    BY <1>10 DEF MetricsSteps, MetricsReader, ShutdownSignal, Met, Net, vars, vmVars
  <2> QED BY <2>1, OthersFwdInv
<1> QED BY <1>1, <1>2, <1>3, <1>4, <1>5, <1>6, <1>7, <1>8, <1>9, <1>10 DEF Next, TaskStep

\* A set in which any two elements are the same has at most one.
LEMMA AtMostOne ==
  ASSUME NEW S, \A c, d \in S : c = d
  PROVE  Cardinality(S) <= 1
<1>1. CASE S = {}
  BY <1>1, FS_EmptySet
<1>2. CASE S # {}
  <2>1. PICK c \in S : TRUE
    BY <1>2
  <2>2. S = {c}
    BY <2>1
  <2>3. Cardinality({c}) = 1
    BY FS_Singleton
  <2> QED BY <2>2, <2>3
<1> QED BY <1>1, <1>2

\* The exported counter and the relays that outlive the forwarder, whatever its
\* rules, its connections and the order in which the runtime, the manager and
\* the listeners go (port_forward.rs, accept loop and Drop).
THEOREM RelaysTrackedHolds == Spec => []RelaysTracked
<1>1. Spec => []FwdInv
  BY FwdInitInv, FwdStepInv, PTL DEF Spec
<1>2. FwdInv => RelaysTracked
  <2> SUFFICES ASSUME FwdInv PROVE RelaysTracked
    OBVIOUS
  <2>1. ASSUME fwd = "drained", NEW r \in Rules PROVE Cardinality(Loose(r)) <= 1
    <3>1. \A c, d \in Loose(r) : c = d
      BY <2>1 DEF FwdInv, AfterDrain, Loose
    <3> QED BY <3>1, AtMostOne
  <2> QED BY <2>1 DEF FwdInv, CountRight, Counted, Loose, RelaysTracked
<1> QED BY <1>1, <1>2, PTL

---------------------------------------------------------------------------
(* The metrics task. *)

Packets ==
  [op : {"request", "rw", "shutdown", "rst", "other"},
   len : Nat, word : Nat, rest : Int, snap : Nat]

\* A packet carries a snapshot if and only if it holds a whole frame, and its
\* length is that of its payload.
GoodPacket(p) ==
  /\ p \in Packets
  /\ p.snap # NoSnap <=> p.len = SnapLen + 4
  /\ p.snap # NoSnap => Frame(p)

MetType ==
  /\ agent \in [pc : {"off", "sleep", "connect"}, pushes : Nat, whole : BOOLEAN]
  /\ fromGuest \in Seq(Packets) /\ \A i \in 1..Len(fromGuest) : GoodPacket(fromGuest[i])
  /\ dequeued \in 0..Len(fromGuest)
  /\ published \in Seq(Nat)

\* Snapshots are sent in the order of the pushes, and a push that is waiting for
\* its connection has not sent its own.
SnapsInOrder ==
  /\ \A i \in 1..Len(fromGuest) :
       /\ fromGuest[i].snap <= agent.pushes
       /\ agent.pc = "connect" => fromGuest[i].snap < agent.pushes
  /\ \A i, j \in 1..Len(fromGuest) :
       i < j /\ fromGuest[i].snap # NoSnap /\ fromGuest[j].snap # NoSnap
         => fromGuest[i].snap < fromGuest[j].snap
  /\ agent.pc = "connect" => agent.pushes # 0

MetInv == MetType /\ SnapsInOrder

\* The snapshots of the first n packets are what is published, in order.
Published(n) ==
  /\ \A m \in 1..Len(published) :
       \E i \in 1..n : fromGuest[i].snap # NoSnap /\ published[m] = fromGuest[i].snap
  /\ \A i \in 1..n : fromGuest[i].snap # NoSnap =>
       \E m \in 1..Len(published) : published[m] = fromGuest[i].snap
  /\ \A l, m \in 1..Len(published) : l < m => published[l] < published[m]

\* Until the task is stopped, they are those of the packets that left the
\* channel, except one that the blocking thread holds.
PubInv ==
  \E n \in 0..dequeued :
    /\ Published(n)
    /\ task # "stopped" => n = IF reader = "got" THEN dequeued - 1 ELSE dequeued

\* The thread receives for a task that waits, and is left behind only by one
\* that is stopped.  The channel closes for good.
TaskInv ==
  /\ task \in {"none", "look", "wait", "closed", "stopped"}
  /\ reader \in {"none", "recv", "got", "closed"}
  /\ task \in {"none", "look"} => reader = "none"
  /\ task = "wait" => reader # "none"
  /\ reader = "got" => dequeued # 0
  /\ task = "closed" \/ reader = "closed" => dequeued = Len(fromGuest) /\ DevicesDropped
  /\ task = "closed" => reader \in {"none", "closed"}
  /\ vm.pc \in {"none", "forward", "binding"} => thread = "none"

MetricsInv == MetInv /\ PubInv /\ TaskInv

LEMMA MetInitInv == Init => MetricsInv
<1> SUFFICES ASSUME Init PROVE MetricsInv
  OBVIOUS
<1>1. /\ agent = [pc |-> "off", pushes |-> 0, whole |-> FALSE]
      /\ fromGuest = <<>> /\ dequeued = 0 /\ published = <<>>
      /\ task = "none" /\ reader = "none" /\ thread = "none"
  BY DEF Init, MetInit, VmInit
<1>2. agent \in [pc : {"off", "sleep", "connect"}, pushes : Nat, whole : BOOLEAN]
  BY <1>1
<1>3. Len(fromGuest) = 0 /\ Len(published) = 0
  BY <1>1
<1>4. MetInv
  BY <1>1, <1>2, <1>3 DEF MetInv, MetType, SnapsInOrder
<1>5. Published(0)
  BY <1>3 DEF Published
<1>6. PubInv
  BY <1>1, <1>5 DEF PubInv
<1>7. TaskInv
  BY <1>1 DEF TaskInv
<1> QED BY <1>4, <1>6, <1>7 DEF MetricsInv

\* The agent transmits packets of which at most one has a snapshot, that of the
\* current push, for which it had been waiting.
LEMMA TransmitInv ==
  ASSUME MetInv, PubInv, NEW packets \in Seq(Packets),
         \A i \in 1..Len(packets) : GoodPacket(packets[i]),
         Transmit(packets), UNCHANGED taskVars,
         agent' \in [pc : {"off", "sleep", "connect"}, pushes : Nat, whole : BOOLEAN],
         agent.pushes <= agent'.pushes,
         agent'.pc = "connect" => agent.pushes < agent'.pushes \/ agent' = agent,
         \A i \in 1..Len(packets) : packets[i].snap # NoSnap =>
           agent.pc = "connect" /\ agent'.pc # "connect" /\ packets[i].snap = agent.pushes,
         \A i, j \in 1..Len(packets) : i < j /\ packets[i].snap # NoSnap => packets[j].snap = NoSnap
  PROVE  MetInv' /\ PubInv'
<1> DEFINE n == Len(fromGuest)  k == Len(packets)
<1>1. n \in Nat /\ k \in Nat /\ fromGuest \in Seq(Packets) /\ dequeued \in 0..n
  BY DEF MetInv, MetType
<1>2. fromGuest' = fromGuest \o packets
  BY DEF Transmit
<1>3. /\ fromGuest' \in Seq(Packets) /\ Len(fromGuest') = n + k
      /\ \A i \in 1..(n + k) : fromGuest'[i] = IF i <= n THEN fromGuest[i] ELSE packets[i - n]
  BY <1>1, <1>2
<1> HIDE DEF n, k
<1>4. ASSUME NEW i \in 1..(n + k) PROVE GoodPacket(fromGuest'[i])
  <2>1. CASE i <= n
    <3>1. i \in 1..n /\ fromGuest'[i] = fromGuest[i]
      BY <1>1, <1>3, <2>1
    <3> QED BY <3>1 DEF MetInv, MetType, n
  <2>2. CASE ~(i <= n)
    <3>1. i - n \in 1..k
      BY <1>1, <2>2
    <3> QED BY <1>3, <2>2, <3>1 DEF k
  <2> QED BY <2>1, <2>2
<1>5. ASSUME NEW i \in 1..(n + k)
      PROVE  fromGuest'[i].snap <= agent'.pushes /\ (agent'.pc = "connect" => fromGuest'[i].snap < agent'.pushes)
  <2>1. CASE i <= n
    <3>1. i \in 1..n /\ fromGuest'[i] = fromGuest[i]
      BY <1>1, <1>3, <2>1
    <3>2. /\ fromGuest[i].snap \in Nat /\ fromGuest[i].snap <= agent.pushes
          /\ agent.pc = "connect" => fromGuest[i].snap < agent.pushes
      BY <1>1, <3>1 DEF MetInv, MetType, GoodPacket, SnapsInOrder, Packets, n
    <3>3. agent.pushes \in Nat /\ agent'.pushes \in Nat
      BY DEF MetInv, MetType
    <3> QED BY <3>1, <3>2, <3>3
  <2>2. CASE ~(i <= n)
    <3>1. i - n \in 1..k /\ fromGuest'[i] = packets[i - n]
      BY <1>1, <1>3, <2>2
    <3>2. agent.pushes \in Nat /\ agent'.pushes \in Nat
      BY DEF MetInv, MetType
    <3>3. packets[i - n].snap \in Nat
      BY <3>1 DEF GoodPacket, Packets, k
    <3>4. packets[i - n].snap # 0 => packets[i - n].snap = agent.pushes /\ agent'.pc # "connect"
      BY <3>1 DEF NoSnap, k
    <3>5. agent.pc = "connect" => agent.pushes # 0
      BY DEF MetInv, SnapsInOrder
    <3> QED BY <3>1, <3>2, <3>3, <3>4, <3>5
  <2> QED BY <2>1, <2>2
<1>6. ASSUME NEW i \in 1..(n + k), NEW j \in 1..(n + k), i < j,
             fromGuest'[i].snap # NoSnap, fromGuest'[j].snap # NoSnap
      PROVE  fromGuest'[i].snap < fromGuest'[j].snap
  <2>1. CASE j <= n
    <3>1. i \in 1..n /\ j \in 1..n /\ fromGuest'[i] = fromGuest[i] /\ fromGuest'[j] = fromGuest[j]
      BY <1>1, <1>3, <1>6, <2>1
    <3> QED BY <1>6, <3>1 DEF MetInv, SnapsInOrder, n
  <2>2. CASE ~(j <= n)
    <3>1. j - n \in 1..k /\ fromGuest'[j] = packets[j - n]
      BY <1>1, <1>3, <2>2
    <3>2. agent.pc = "connect" /\ fromGuest'[j].snap = agent.pushes
      BY <1>6, <3>1 DEF k
    <3>3. i <= n
      <4> SUFFICES ASSUME ~(i <= n) PROVE FALSE
        OBVIOUS
      <4>1. i - n \in 1..k /\ fromGuest'[i] = packets[i - n] /\ i - n < j - n
        BY <1>1, <1>3, <1>6
      <4> QED BY <1>6, <3>1, <4>1 DEF k
    <3>4. i \in 1..n /\ fromGuest'[i] = fromGuest[i]
      BY <1>1, <1>3, <3>3
    <3> QED BY <3>2, <3>4 DEF MetInv, SnapsInOrder, n
  <2> QED BY <2>1, <2>2
<1>7. SnapsInOrder'
  <2>1. agent.pushes \in Nat /\ agent'.pushes \in Nat
    BY DEF MetInv, MetType
  <2>2. agent'.pc = "connect" => agent'.pushes # 0
    BY <2>1 DEF MetInv, SnapsInOrder
  <2> QED BY <1>3, <1>5, <1>6, <2>2 DEF SnapsInOrder
<1>8. UNCHANGED <<dequeued, published, task, reader>>
  BY DEF taskVars
<1>9. ASSUME NEW d \in 0..dequeued, Published(d) PROVE Published(d)'
  <2>1. \A i \in 1..d : fromGuest'[i] = fromGuest[i]
    BY <1>1, <1>3
  <2>2. \A m \in 1..Len(published) :
          \E i \in 1..d : fromGuest'[i].snap # NoSnap /\ published[m] = fromGuest'[i].snap
    <3> TAKE m \in 1..Len(published)
    <3>1. PICK i \in 1..d : fromGuest[i].snap # NoSnap /\ published[m] = fromGuest[i].snap
      BY <1>9 DEF Published
    <3> QED BY <2>1, <3>1
  <2>3. \A i \in 1..d : fromGuest'[i].snap # NoSnap =>
          \E m \in 1..Len(published) : published[m] = fromGuest'[i].snap
    BY <1>9, <2>1 DEF Published
  <2>4. published' = published /\ (\A l, m \in 1..Len(published) : l < m => published[l] < published[m])
    BY <1>8, <1>9 DEF Published
  <2> QED BY <2>2, <2>3, <2>4 DEF Published
<1>10. PubInv'
  <2>1. PICK d \in 0..dequeued :
          /\ Published(d)
          /\ task # "stopped" => d = IF reader = "got" THEN dequeued - 1 ELSE dequeued
    BY DEF PubInv
  <2>2. Published(d)'
    BY <1>9, <2>1
  <2> QED BY <1>8, <2>1, <2>2 DEF PubInv
<1>11. MetType'
  <2>1. dequeued' \in 0..(n + k) /\ published' \in Seq(Nat)
    BY <1>1, <1>8 DEF MetInv, MetType
  <2> QED BY <1>3, <1>4, <2>1 DEF MetType
<1> QED BY <1>7, <1>10, <1>11 DEF MetInv

LEMMA PacketsGood ==
  /\ \A op \in {"request", "shutdown", "rst", "other"} :
       GoodPacket(Control(op)) /\ Control(op).snap = NoSnap
  /\ \A snap \in Nat \ {0} :
       /\ GoodPacket(Rw(SnapLen + 4, SnapLen, snap))
       /\ Rw(SnapLen + 4, SnapLen, snap).snap = snap
  /\ GoodPacket(Rw(4, SnapLen, NoSnap)) /\ Rw(4, SnapLen, NoSnap).snap = NoSnap
  /\ GoodPacket(Rw(SnapLen, BodyWord, NoSnap)) /\ Rw(SnapLen, BodyWord, NoSnap).snap = NoSnap
<1> USE SnapAssumptions DEF GoodPacket, Packets, Control, Rw, Frame, NoSnap
<1>1. ASSUME NEW op \in {"request", "shutdown", "rst", "other"}
      PROVE  GoodPacket(Control(op)) /\ Control(op).snap = NoSnap
  OBVIOUS
<1>2. ASSUME NEW snap \in Nat \ {0}
      PROVE  /\ GoodPacket(Rw(SnapLen + 4, SnapLen, snap))
             /\ Rw(SnapLen + 4, SnapLen, snap).snap = snap
  OBVIOUS
<1>3. GoodPacket(Rw(4, SnapLen, NoSnap)) /\ Rw(4, SnapLen, NoSnap).snap = NoSnap
  OBVIOUS
<1>4. GoodPacket(Rw(SnapLen, BodyWord, NoSnap)) /\ Rw(SnapLen, BodyWord, NoSnap).snap = NoSnap
  OBVIOUS
<1> QED BY <1>1, <1>2, <1>3, <1>4

LEMMA AgentInv ==
  ASSUME MetInv, PubInv, PushConnects \/ SendSnapshot \/ PushTimesOut \/ OthersSend
  PROVE  MetInv' /\ PubInv'
<1>1. agent \in [pc : {"off", "sleep", "connect"}, pushes : Nat, whole : BOOLEAN]
  BY DEF MetInv, MetType
<1>2. CASE PushConnects
  <2> DEFINE packets == <<Control("request")>>
  <2>1. /\ agent' = [agent EXCEPT !.pc = "connect", !.pushes = agent.pushes + 1]
        /\ Transmit(packets) /\ UNCHANGED taskVars
    BY <1>2 DEF PushConnects
  <2>2. /\ agent' \in [pc : {"off", "sleep", "connect"}, pushes : Nat, whole : BOOLEAN]
        /\ agent'.pushes = agent.pushes + 1
    <3>1. agent.pushes + 1 \in Nat
      BY <1>1
    <3> QED BY <1>1, <2>1, <3>1
  <2>3. GoodPacket(Control("request")) /\ Control("request").snap = NoSnap
    BY PacketsGood
  <2>4. /\ packets \in Seq(Packets) /\ Len(packets) = 1 /\ packets[1] = Control("request")
    BY <2>3 DEF GoodPacket
  <2> HIDE DEF packets
  <2>5. \A i \in 1..Len(packets) : GoodPacket(packets[i]) /\ packets[i].snap = NoSnap
    BY <2>3, <2>4
  <2>6. agent.pushes <= agent'.pushes /\ agent.pushes < agent'.pushes
    BY <1>1, <2>2
  <2> QED BY <2>1, <2>2, <2>4, <2>5, <2>6, TransmitInv
<1>3. CASE PushTimesOut
  <2> DEFINE packets == <<Control("rst")>>
  <2>1. /\ agent' = [agent EXCEPT !.pc = "sleep"]
        /\ Transmit(packets) /\ UNCHANGED taskVars
    BY <1>3 DEF PushTimesOut
  <2>2. /\ agent' \in [pc : {"off", "sleep", "connect"}, pushes : Nat, whole : BOOLEAN]
        /\ agent'.pushes = agent.pushes /\ agent'.pc = "sleep"
    BY <1>1, <2>1
  <2>3. GoodPacket(Control("rst")) /\ Control("rst").snap = NoSnap
    BY PacketsGood
  <2>4. packets \in Seq(Packets) /\ Len(packets) = 1 /\ packets[1] = Control("rst")
    BY <2>3 DEF GoodPacket
  <2> HIDE DEF packets
  <2>5. \A i \in 1..Len(packets) : GoodPacket(packets[i]) /\ packets[i].snap = NoSnap
    BY <2>3, <2>4
  <2>6. agent.pushes <= agent'.pushes
    BY <1>1, <2>2
  <2> QED BY <2>1, <2>2, <2>4, <2>5, <2>6, TransmitInv
<1>4. CASE SendSnapshot
  <2> DEFINE frame == Rw(SnapLen + 4, SnapLen, agent.pushes)
             head == Rw(4, SnapLen, NoSnap)
             body == Rw(SnapLen, BodyWord, NoSnap)
             end == Control("shutdown")
             packets == (IF agent.whole THEN <<frame>> ELSE <<head, body>>) \o <<end>>
  <2>1. /\ agent' = [agent EXCEPT !.pc = "sleep"] /\ agent.pc = "connect"
        /\ Transmit(packets) /\ UNCHANGED taskVars
    BY <1>4 DEF SendSnapshot
  <2>2. /\ agent' \in [pc : {"off", "sleep", "connect"}, pushes : Nat, whole : BOOLEAN]
        /\ agent'.pushes = agent.pushes /\ agent'.pc = "sleep"
    BY <1>1, <2>1
  <2>3. GoodPacket(head) /\ GoodPacket(body) /\ GoodPacket(end)
        /\ head.snap = NoSnap /\ body.snap = NoSnap /\ end.snap = NoSnap
    BY PacketsGood
  <2>4. agent.whole \in BOOLEAN /\ agent.pushes \in Nat
    BY <1>1
  <2>5. agent.pushes # 0 /\ GoodPacket(frame) /\ frame.snap = agent.pushes
    <3>1. agent.pushes # 0
      BY <2>1 DEF MetInv, SnapsInOrder
    <3> QED BY <2>4, <3>1, PacketsGood
  <2>6. agent.pushes <= agent'.pushes
    BY <2>2, <2>4
  <2> HIDE DEF frame, head, body, end
  <2>7. end \in Packets /\ <<end>> \in Seq(Packets) /\ Len(<<end>>) = 1 /\ <<end>>[1] = end
    BY <2>3 DEF GoodPacket
  <2>8. CASE agent.whole
    <3> DEFINE s == <<frame>>  t == <<end>>
    <3>1. packets = s \o t
      BY <2>8
    <3>2. s \in Seq(Packets) /\ Len(s) = 1 /\ s[1] = frame
      BY <2>5 DEF GoodPacket
    <3>3. t \in Seq(Packets) /\ Len(t) = 1 /\ t[1] = end
      BY <2>7
    <3> HIDE DEF packets, s, t
    <3>4. packets \in Seq(Packets) /\ Len(packets) = 2 /\ packets[1] = frame /\ packets[2] = end
      BY <3>1, <3>2, <3>3, ConcatProperties
    <3>5. \A i \in 1..Len(packets) :
            GoodPacket(packets[i]) /\ (packets[i].snap # NoSnap => i = 1 /\ packets[i].snap = agent.pushes)
      BY <2>3, <2>5, <3>4
    <3>6. \A i, j \in 1..Len(packets) :
            i < j /\ packets[i].snap # NoSnap => packets[j].snap = NoSnap
      BY <3>5
    <3> QED BY <2>1, <2>2, <2>6, <3>4, <3>5, <3>6, TransmitInv
  <2>9. CASE ~agent.whole
    <3> DEFINE s == <<head, body>>  t == <<end>>
    <3>1. packets = s \o t
      BY <2>9
    <3>2. s \in Seq(Packets) /\ Len(s) = 2 /\ s[1] = head /\ s[2] = body
      BY <2>3 DEF GoodPacket
    <3>3. t \in Seq(Packets) /\ Len(t) = 1 /\ t[1] = end
      BY <2>7
    <3> HIDE DEF packets, s, t
    <3>4. packets \in Seq(Packets) /\ Len(packets) = 3
          /\ packets[1] = head /\ packets[2] = body /\ packets[3] = end
      <4>1. /\ s \o t \in Seq(Packets) /\ Len(s \o t) = Len(s) + Len(t)
            /\ \A i \in 1..(Len(s) + Len(t)) :
                 (s \o t)[i] = IF i <= Len(s) THEN s[i] ELSE t[i - Len(s)]
        BY <3>2, <3>3, ConcatProperties
      <4>2. Len(s) + Len(t) = 3 /\ 1 \in 1..3 /\ 2 \in 1..3 /\ 3 \in 1..3 /\ 3 - 2 = 1
        BY <3>2, <3>3
      <4>3. (s \o t)[1] = s[1] /\ (s \o t)[2] = s[2] /\ (s \o t)[3] = t[1]
        BY <3>2, <4>1, <4>2
      <4> QED BY <3>1, <3>2, <3>3, <4>1, <4>2, <4>3
    <3>5. \A i \in 1..Len(packets) : GoodPacket(packets[i]) /\ packets[i].snap = NoSnap
      BY <2>3, <3>4
    <3> QED BY <2>1, <2>2, <2>6, <3>4, <3>5, TransmitInv
  <2> QED BY <2>4, <2>8, <2>9
<1>5. CASE OthersSend
  <2> DEFINE packets == <<Control("other")>>
  <2>1. /\ agent' = agent
        /\ Transmit(packets) /\ UNCHANGED taskVars
    BY <1>5 DEF OthersSend
  <2>2. /\ agent' \in [pc : {"off", "sleep", "connect"}, pushes : Nat, whole : BOOLEAN]
        /\ agent'.pushes = agent.pushes
    BY <1>1, <2>1
  <2>3. GoodPacket(Control("other")) /\ Control("other").snap = NoSnap
    BY PacketsGood
  <2>4. packets \in Seq(Packets) /\ Len(packets) = 1 /\ packets[1] = Control("other")
    BY <2>3 DEF GoodPacket
  <2> HIDE DEF packets
  <2>5. \A i \in 1..Len(packets) : GoodPacket(packets[i]) /\ packets[i].snap = NoSnap
    BY <2>3, <2>4
  <2>6. agent.pushes <= agent'.pushes
    BY <1>1, <2>2
  <2> QED BY <2>1, <2>2, <2>4, <2>5, <2>6, TransmitInv
<1> QED BY <1>2, <1>3, <1>4, <1>5

\* One more packet is handled.
LEMMA HandleInv ==
  ASSUME MetInv, NEW k \in 0..Len(fromGuest), k < Len(fromGuest), Published(k),
         NEW open, HandlePacket(fromGuest[k + 1], open), UNCHANGED agentVars
  PROVE  published' \in Seq(Nat) /\ Published(k + 1)'
<1> DEFINE p == fromGuest[k + 1]
<1>1. /\ fromGuest' = fromGuest
      /\ published' = IF Frame(p) THEN Append(published, p.snap) ELSE published
  BY DEF HandlePacket, agentVars
<1>2. /\ k \in Nat /\ k + 1 \in 1..Len(fromGuest) /\ GoodPacket(p)
      /\ published \in Seq(Nat)
  BY DEF MetInv, MetType
<1>6. p.snap \in Nat /\ (Frame(p) <=> p.snap # NoSnap)
  BY <1>2 DEF GoodPacket, Packets, Frame
<1> HIDE DEF p
<1>7. CASE p.snap # NoSnap
  <2> DEFINE n == Len(published)
  <2>1. published' = Append(published, p.snap)
    BY <1>1, <1>6, <1>7
  <2>2. /\ published' \in Seq(Nat) /\ n \in Nat /\ Len(published') = n + 1 /\ published'[n + 1] = p.snap
        /\ \A m \in 1..n : published'[m] = published[m]
    BY <1>2, <1>6, <2>1
  <2>3. \A m \in 1..n : published[m] < p.snap
    <3> SUFFICES ASSUME NEW m \in 1..n PROVE published[m] < p.snap
      OBVIOUS
    <3>1. PICK i \in 1..k : fromGuest[i].snap # NoSnap /\ published[m] = fromGuest[i].snap
      BY DEF Published
    <3>2. i \in 1..Len(fromGuest) /\ i < k + 1
      BY <1>2
    <3> QED BY <1>2, <1>7, <3>1, <3>2 DEF MetInv, SnapsInOrder, p
  <2> HIDE DEF n
  <2>4. ASSUME NEW m \in 1..(n + 1)
        PROVE  \E i \in 1..(k + 1) : fromGuest[i].snap # NoSnap /\ published'[m] = fromGuest[i].snap
    <3>1. CASE m = n + 1
      BY <1>2, <1>7, <2>2, <3>1 DEF p
    <3>2. CASE m # n + 1
      <4>1. m \in 1..n
        BY <2>2, <3>2
      <4>2. PICK i \in 1..k : fromGuest[i].snap # NoSnap /\ published[m] = fromGuest[i].snap
        BY <4>1 DEF Published, n
      <4>3. i \in 1..(k + 1)
        BY <1>2
      <4> QED BY <2>2, <4>1, <4>2, <4>3
    <3> QED BY <3>1, <3>2
  <2>5. ASSUME NEW i \in 1..(k + 1), fromGuest[i].snap # NoSnap
        PROVE  \E m \in 1..(n + 1) : published'[m] = fromGuest[i].snap
    <3>1. CASE i = k + 1
      <4>1. n + 1 \in 1..(n + 1)
        BY <2>2
      <4> QED BY <2>2, <3>1, <4>1 DEF p
    <3>2. CASE i # k + 1
      <4>1. i \in 1..k
        BY <1>2, <3>2
      <4>2. PICK m \in 1..n : published[m] = fromGuest[i].snap
        BY <2>5, <4>1 DEF Published, n
      <4>3. m \in 1..(n + 1)
        BY <2>2
      <4> QED BY <2>2, <4>2, <4>3
    <3> QED BY <3>1, <3>2
  <2>6. ASSUME NEW l \in 1..(n + 1), NEW m \in 1..(n + 1), l < m
        PROVE  published'[l] < published'[m]
    <3>1. l \in 1..n
      BY <2>2, <2>6
    <3>2. CASE m = n + 1
      BY <2>2, <2>3, <3>1, <3>2 DEF n
    <3>3. CASE m # n + 1
      <4>1. m \in 1..n
        BY <2>2, <3>3
      <4> QED BY <2>2, <2>6, <3>1, <4>1 DEF Published, n
    <3> QED BY <3>2, <3>3
  <2>7. Published(k + 1)'
    <3>1. fromGuest' = fromGuest /\ Len(published') = n + 1
      BY <1>1, <2>2
    <3> QED BY <2>4, <2>5, <2>6, <3>1 DEF Published
  <2> QED BY <2>2, <2>7
<1>8. CASE p.snap = NoSnap
  <2>1. published' = published
    BY <1>1, <1>6, <1>8
  <2>2. ASSUME NEW m \in 1..Len(published)
        PROVE  \E i \in 1..(k + 1) : fromGuest[i].snap # NoSnap /\ published[m] = fromGuest[i].snap
    <3>1. PICK i \in 1..k : fromGuest[i].snap # NoSnap /\ published[m] = fromGuest[i].snap
      BY DEF Published
    <3>2. i \in 1..(k + 1)
      BY <1>2
    <3> QED BY <3>1, <3>2
  <2>3. ASSUME NEW i \in 1..(k + 1), fromGuest[i].snap # NoSnap
        PROVE  \E m \in 1..Len(published) : published[m] = fromGuest[i].snap
    <3>1. i \in 1..k
      BY <1>2, <1>8, <2>3 DEF p
    <3> QED BY <2>3, <3>1 DEF Published
  <2>4. Published(k + 1)'
    <3>1. fromGuest' = fromGuest
      BY <1>1
    <3>2. \A m, n \in 1..Len(published) : m < n => published[m] < published[n]
      BY DEF Published
    <3> QED BY <2>1, <2>2, <2>3, <3>1, <3>2 DEF Published
  <2> QED BY <1>2, <2>1, <2>4
<1> QED BY <1>7, <1>8

\* The task handles the packet that it found, or the one that the thread holds.
LEMMA TakesInv ==
  ASSUME MetInv, PubInv, TaskInv, NEW open, TryRecv(open) \/ Received(open)
  PROVE  MetInv' /\ PubInv'
<1>1. dequeued \in 0..Len(fromGuest) /\ Len(fromGuest) \in Nat
  BY DEF MetInv, MetType
<1>2. PICK k \in 0..dequeued :
        /\ Published(k)
        /\ task # "stopped" => k = IF reader = "got" THEN dequeued - 1 ELSE dequeued
  BY DEF PubInv
<1>3. UNCHANGED agentVars /\ fromGuest' = fromGuest /\ agent' = agent
  BY DEF TryRecv, Received, agentVars
<1>4. /\ k < Len(fromGuest) /\ HandlePacket(fromGuest[k + 1], open)
      /\ task' = "look" /\ reader' = "none" /\ dequeued' = k + 1 /\ dequeued' \in 0..Len(fromGuest)
  <2>1. CASE TryRecv(open)
    <3>1. task = "look" /\ reader = "none" /\ k = dequeued
      BY <1>2, <2>1 DEF TryRecv, TaskInv
    <3> QED BY <1>1, <2>1, <3>1 DEF TryRecv
  <2>2. CASE Received(open)
    <3>1. task = "wait" /\ reader = "got" /\ dequeued # 0 /\ k = dequeued - 1
      BY <1>2, <2>2 DEF Received, TaskInv
    <3>2. k + 1 = dequeued
      BY <1>1, <3>1
    <3> QED BY <1>1, <2>2, <3>1, <3>2 DEF Received
  <2> QED BY <2>1, <2>2
<1>5. published' \in Seq(Nat) /\ Published(k + 1)'
  <2>1. k \in 0..Len(fromGuest)
    BY <1>1, <1>2
  <2> QED BY <1>2, <1>3, <1>4, <2>1, HandleInv
<1>6. MetInv'
  BY <1>3, <1>4, <1>5 DEF MetInv, MetType, SnapsInOrder
<1>7. k + 1 \in 0..dequeued'
  BY <1>1, <1>2, <1>4
<1>8. PubInv'
  BY <1>4, <1>5, <1>7 DEF PubInv
<1> QED BY <1>6, <1>8

\* The thread takes a packet for the task, or finds the channel closed.
LEMMA ReaderInv ==
  ASSUME MetInv, PubInv, TaskInv, NEW open, ReaderStep(open)
  PROVE  MetInv' /\ PubInv'
<1>1. dequeued \in 0..Len(fromGuest) /\ Len(fromGuest) \in Nat
  BY DEF MetInv, MetType
<1>2. PICK k \in 0..dequeued : Published(k) /\ (task # "stopped" => k = dequeued)
  BY DEF PubInv, ReaderStep
<1>3. /\ UNCHANGED <<agent, fromGuest, published, task>>
      /\ \/ dequeued' = dequeued + 1 /\ reader' = "got" /\ dequeued < Len(fromGuest)
         \/ dequeued' = dequeued /\ reader' = "closed"
  BY DEF ReaderStep, agentVars
<1>4. dequeued' \in 0..Len(fromGuest) /\ k \in 0..dequeued'
  BY <1>1, <1>2, <1>3
<1>5. MetInv'
  BY <1>3, <1>4 DEF MetInv, MetType, SnapsInOrder
<1>6. Published(k)'
  BY <1>2, <1>3 DEF Published
<1>7. task' # "stopped" => k = IF reader' = "got" THEN dequeued' - 1 ELSE dequeued'
  BY <1>1, <1>2, <1>3
<1> QED BY <1>4, <1>5, <1>6, <1>7 DEF PubInv

\* The task ends, begins or begins to wait, and no packet moves.
LEMMA IdleInv ==
  ASSUME MetInv, PubInv, UNCHANGED <<agent, fromGuest, dequeued, published>>,
         \/ task' = "stopped"
         \/ /\ task' # "stopped" => task # "stopped"
            /\ reader = "got" <=> reader' = "got"
  PROVE  MetInv' /\ PubInv'
<1>1. MetInv'
  BY DEF MetInv, MetType, SnapsInOrder
<1>2. PICK k \in 0..dequeued :
        /\ Published(k)
        /\ task # "stopped" => k = IF reader = "got" THEN dequeued - 1 ELSE dequeued
  BY DEF PubInv
<1>3. Published(k)'
  BY <1>2 DEF Published
<1> QED BY <1>1, <1>2, <1>3 DEF PubInv

LEMMA MetStepInv == ASSUME MetricsInv, [Next]_vars PROVE MetInv' /\ PubInv'
<1> USE DEF MetricsInv
<1>1. CASE UNCHANGED <<agent, fromGuest, dequeued, published, task, reader>>
  BY <1>1, IdleInv
<1>2. ASSUME NEW whole \in BOOLEAN, AgentStarts(whole) PROVE MetInv' /\ PubInv'
  <2>1. /\ agent' \in [pc : {"off", "sleep", "connect"}, pushes : Nat, whole : BOOLEAN]
        /\ agent'.pc = "sleep" /\ agent'.pushes = agent.pushes
    BY <1>2 DEF AgentStarts, MetInv, MetType
  <2>2. UNCHANGED <<fromGuest, dequeued, published, task, reader>>
    BY <1>2 DEF AgentStarts, taskVars
  <2>3. MetInv'
    BY <2>1, <2>2 DEF MetInv, MetType, SnapsInOrder
  <2> QED BY <2>2, <2>3 DEF PubInv, Published
<1>3. ASSUME NEW k \in VmConfigs, Start(k) PROVE MetInv' /\ PubInv'
  <2>1. CASE UNCHANGED metVars
    BY <1>1, <2>1 DEF metVars, agentVars, taskVars
  <2>2. CASE StartMetrics
    BY <2>2, IdleInv DEF StartMetrics, agentVars
  <2> QED BY <1>3, <2>1, <2>2 DEF Start
<1>4. CASE TaskStep \/ Boot \/ Exit \/ Return \/ ForwardTasks \/ Net(NetThread) \/ UNCHANGED vars
  BY <1>1, <1>4 DEF TaskStep, Forward, Task, Boot, Exit, Return, Thread, ForwardTasks, Fwd, Net,
                    vars, metVars, agentVars, taskVars
<1>5. CASE RtShutdown
  BY <1>5, IdleInv DEF RtShutdown, CancelMetrics, agentVars
<1>6. CASE Traffic
  <2>1. CASE UNCHANGED metVars
    BY <1>1, <2>1 DEF metVars, agentVars, taskVars
  <2>2. CASE PushConnects \/ SendSnapshot \/ PushTimesOut \/ OthersSend
    BY <2>2, AgentInv
  <2>3. CASE AgentStarts(vm.config.agent = "custom")
    BY <1>2, <2>3
  <2> QED BY <1>6, <2>1, <2>2, <2>3 DEF Traffic, Net, Fwd, Agent
<1>7. CASE MetricsSteps
  <2> DEFINE open == ~DevicesDropped
  <2>1. TaskSteps(open)
    BY <1>7 DEF MetricsSteps, Met
  <2> HIDE DEF open
  <2>2. CASE TryRecv(open) \/ Received(open)
    BY <2>2, TakesInv
  <2>3. CASE SeesShutdown \/ ShutdownChanges
    BY <2>3, IdleInv DEF SeesShutdown, ShutdownChanges, agentVars
  <2>4. CASE FindsClosed
    BY <2>4, IdleInv DEF FindsClosed, agentVars
  <2>5. CASE FindsEmpty(open)
    <3>1. task # "stopped" /\ reader = "none" /\ reader' # "got"
      BY <2>5 DEF FindsEmpty, TaskInv
    <3> QED BY <2>5, <3>1, IdleInv DEF FindsEmpty, agentVars
  <2> QED BY <2>1, <2>2, <2>3, <2>4, <2>5 DEF TaskSteps
<1>8. CASE MetricsReader
  BY <1>8, ReaderInv DEF MetricsReader
<1>9. CASE ShutdownSignal
  <2>1. UNCHANGED <<agent, fromGuest, dequeued, published, task, reader>>
    BY <1>9 DEF ShutdownSignal, Met, Signal, agentVars
  <2> QED BY <1>1, <2>1
<1> QED BY <1>3, <1>4, <1>5, <1>6, <1>7, <1>8, <1>9 DEF Next

\* Steps of the VM and its task leave the task of the metrics alone, and do not
\* bring the devices back.
LEMMA VmStepsTask ==
  ASSUME TaskInv, UNCHANGED <<task, reader, dequeued, fromGuest>>,
         vm'.pc \in {"none", "forward", "binding"} => thread' = "none",
         DevicesDropped => DevicesDropped'
  PROVE  TaskInv'
BY DEF TaskInv

LEMMA TaskStepInv == ASSUME MetricsInv, [Next]_vars PROVE TaskInv'
<1> USE DEF MetricsInv
<1>1. CASE UNCHANGED <<task, reader, dequeued, fromGuest, vm, thread>>
  BY <1>1, VmStepsTask DEF TaskInv, DevicesDropped
<1>2. ASSUME NEW k \in VmConfigs, Start(k) PROVE TaskInv'
  <2>1. thread = "none" /\ thread' = "none" /\ ~DevicesDropped
    BY <1>2 DEF Start, StartVm, TaskInv, DevicesDropped
  <2>2. CASE UNCHANGED metVars
    BY <2>1, <2>2, VmStepsTask DEF metVars, agentVars, taskVars
  <2>3. CASE StartMetrics
    BY <2>1, <2>3 DEF StartMetrics, agentVars, TaskInv
  <2> QED BY <1>2, <2>2, <2>3 DEF Start
<1>3. CASE TaskStep
  <2>1. UNCHANGED <<task, reader, dequeued, fromGuest>>
    BY <1>3 DEF TaskStep, Forward, Task, metVars, agentVars, taskVars
  <2>2. CASE Forward
    <3>1. thread = "none" /\ thread' = "none"
      BY <2>2 DEF Forward, Task, TaskForwards, TaskInv
    <3> QED BY <2>1, <3>1, VmStepsTask DEF DevicesDropped
  <2>3. CASE Task(fwd # "binding" /\ TaskBoots /\ UNCHANGED fwdVars)
    <3>1. thread = "none" /\ vm' = [vm EXCEPT !.pc = "run"]
      BY <2>3 DEF Task, TaskBoots, TaskInv
    <3>2. vm'.pc \notin {"none", "forward", "binding"}
      BY <2>3, <3>1 DEF Task, TaskBoots
    <3> QED BY <2>1, <3>1, <3>2, VmStepsTask DEF DevicesDropped
  <2>4. CASE Task((TaskRecords \/ TaskNotifies) /\ UNCHANGED fwdVars) \/ Task(TaskEnds /\ DropForwarding)
    <3>1. /\ thread' = thread
          /\ vm.pc \in {"run", "recorded", "notified"}
          /\ \E pc \in {"recorded", "notified", "done"} : vm' = [vm EXCEPT !.pc = pc]
      BY <2>4 DEF Task, TaskRecords, TaskNotifies, TaskEnds
    <3>2. vm'.pc \notin {"none", "forward", "binding"}
      BY <3>1
    <3> QED BY <2>1, <3>1, <3>2, VmStepsTask DEF DevicesDropped
  <2> QED BY <1>3, <2>2, <2>3, <2>4 DEF TaskStep
<1>4. CASE Boot \/ Exit \/ Return
  <2>1. UNCHANGED <<task, reader, dequeued, fromGuest, vm>> /\ thread # "none"
    BY <1>4 DEF Boot, Exit, Return, Thread, BootGuest, BootFails, GuestExits, BootReturns,
                metVars, agentVars, taskVars
  <2>2. DevicesDropped => DevicesDropped'
    BY <1>4 DEF Boot, Exit, Return, Thread, BootGuest, BootFails, GuestExits, BootReturns,
                DevicesDropped
  <2>3. vm'.pc \notin {"none", "forward", "binding"}
    BY <2>1 DEF TaskInv
  <2> QED BY <2>1, <2>2, <2>3, VmStepsTask
<1>5. CASE RtShutdown
  <2>1. /\ UNCHANGED <<reader, dequeued, fromGuest, thread>>
        /\ task' = IF task \in {"look", "wait"} THEN "stopped" ELSE task
        /\ vm' = vm \/ vm' = [vm EXCEPT !.pc = "cancelled"]
    BY <1>5 DEF RtShutdown, CancelMetrics, CancelTask, agentVars
  <2>2. vm'.pc \in {"none", "forward", "binding"} => vm.pc \in {"none", "forward", "binding"}
    <3>1. CASE vm' = vm
      BY <3>1
    <3>2. CASE vm' # vm
      <4>1. vm.pc \notin {"none", "done"} /\ vm' = [vm EXCEPT !.pc = "cancelled"]
        BY <1>5, <3>2 DEF RtShutdown, CancelTask
      <4> QED BY <4>1
    <3> QED BY <3>1, <3>2
  <2> QED BY <2>1, <2>2 DEF TaskInv, DevicesDropped
<1>6. CASE Traffic
  <2>1. CASE UNCHANGED <<metVars, vm, thread>>
    BY <1>1, <2>1 DEF metVars, agentVars, taskVars
  <2>2. CASE UNCHANGED <<taskVars, vm, thread>> /\ thread = "guest"
    <3>1. task # "closed" /\ reader # "closed"
      BY <2>2 DEF TaskInv, DevicesDropped
    <3> QED BY <2>2, <3>1 DEF TaskInv, taskVars, DevicesDropped
  <2>3. Traffic => UNCHANGED <<metVars, vm, thread>> \/ (UNCHANGED <<taskVars, vm, thread>> /\ thread = "guest")
    BY DEF Traffic, Net, Fwd, Agent, vmVars, PushConnects, SendSnapshot, PushTimesOut, OthersSend,
           AgentStarts
  <2> QED BY <1>6, <2>1, <2>2, <2>3
<1>7. CASE MetricsSteps
  <2>1. UNCHANGED <<vm, thread, fromGuest>> /\ TaskSteps(~DevicesDropped)
    BY <1>7 DEF MetricsSteps, Met, vmVars, TaskSteps, SeesShutdown, TryRecv, FindsEmpty, Received,
                FindsClosed, ShutdownChanges, agentVars
  <2>2. CASE SeesShutdown \/ FindsClosed \/ ShutdownChanges
    BY <2>1, <2>2 DEF SeesShutdown, FindsClosed, ShutdownChanges, TaskInv, DevicesDropped
  <2>3. CASE FindsEmpty(~DevicesDropped)
    BY <2>1, <2>3 DEF FindsEmpty, TaskInv, DevicesDropped
  <2>4. CASE TryRecv(~DevicesDropped)
    BY <2>1, <2>4 DEF TryRecv, TaskInv, DevicesDropped
  <2>5. CASE Received(~DevicesDropped)
    BY <2>1, <2>5 DEF Received, TaskInv, DevicesDropped
  <2> QED BY <2>1, <2>2, <2>3, <2>4, <2>5 DEF TaskSteps
<1>8. CASE MetricsReader
  <2>1. /\ ReaderStep(~DevicesDropped) /\ UNCHANGED <<vm, thread, fromGuest, task>>
        /\ dequeued \in Nat
    BY <1>8 DEF MetricsReader, vmVars, ReaderStep, agentVars, MetInv, MetType
  <2>2. task \notin {"none", "look", "closed"}
    BY <2>1 DEF TaskInv, ReaderStep
  <2>3. CASE dequeued' = dequeued + 1 /\ reader' = "got"
    BY <2>1, <2>2, <2>3 DEF TaskInv, DevicesDropped
  <2>4. CASE DevicesDropped /\ dequeued = Len(fromGuest) /\ reader' = "closed" /\ dequeued' = dequeued
    BY <2>1, <2>2, <2>4 DEF TaskInv, DevicesDropped
  <2> QED BY <2>1, <2>3, <2>4 DEF ReaderStep
<1>9. CASE ShutdownSignal
  <2>1. UNCHANGED <<task, reader, dequeued, fromGuest, vm, thread>>
    BY <1>9 DEF ShutdownSignal, Met, Signal, agentVars, vmVars
  <2> QED BY <1>1, <2>1
<1>10. CASE ForwardTasks \/ Net(NetThread) \/ UNCHANGED vars
  <2>1. UNCHANGED <<task, reader, dequeued, fromGuest, vm, thread>>
    BY <1>10 DEF ForwardTasks, Fwd, Net, vars, metVars, agentVars, taskVars, vmVars
  <2> QED BY <1>1, <2>1
<1> QED BY <1>2, <1>3, <1>4, <1>5, <1>6, <1>7, <1>8, <1>9, <1>10 DEF Next

\* Whatever the agent and the other programs of the guest send, whenever the
\* blocking thread receives, the shutdown is signalled, the VM exits and the
\* runtime ends: snapshots are published in order and once, none is lost to a
\* receive that was given up, and those that were queued when the VM exited are
\* published (run_metrics_task and handle_packet, vsock_server.rs:15-94).
THEOREM MetricsHonestHolds == Spec => []MetricsHonest
<1>1. Spec => []MetricsInv
  <2>1. MetricsInv /\ [Next]_vars => MetricsInv'
    BY MetStepInv, TaskStepInv DEF MetricsInv
  <2> QED BY <2>1, MetInitInv, PTL DEF Spec
<1>2. MetricsInv => MetricsHonest
  <2> SUFFICES ASSUME MetricsInv PROVE MetricsHonest
    OBVIOUS
  <2> DEFINE whole == {i \in 1..dequeued : fromGuest[i].len = SnapLen + 4}
             held == {i \in {dequeued} : task = "wait" /\ reader = "got"}
  <2>1. /\ DOMAIN published = 1..Len(published)
        /\ dequeued \in Nat
        /\ \A i \in 1..dequeued : i \in 1..Len(fromGuest)
    BY DEF MetricsInv, MetInv, MetType
  <2>2. \A i \in 1..dequeued : fromGuest[i].len = SnapLen + 4 <=> fromGuest[i].snap # NoSnap
    BY <2>1 DEF MetricsInv, MetInv, MetType, GoodPacket
  <2>3. whole = {i \in 1..dequeued : fromGuest[i].snap # NoSnap}
    BY <2>2
  <2> HIDE DEF whole
  <2>4. PICK n \in 0..dequeued :
          /\ Published(n)
          /\ task # "stopped" => n = IF reader = "got" THEN dequeued - 1 ELSE dequeued
    BY DEF MetricsInv, PubInv
  <2>5. ASSUME NEW x \in Range(published) PROVE \E i \in whole : x = fromGuest[i].snap
    <3>1. PICK m \in 1..Len(published) : x = published[m]
      BY <2>1, <2>5 DEF Range
    <3>2. PICK i \in 1..n : fromGuest[i].snap # NoSnap /\ published[m] = fromGuest[i].snap
      BY <2>4, <3>1 DEF Published
    <3>3. i \in 1..dequeued
      BY <2>1, <2>4
    <3> QED BY <2>3, <3>1, <3>2, <3>3
  <2>6. ASSUME task # "stopped", NEW i \in whole \ held
        PROVE  fromGuest[i].snap \in Range(published)
    <3>1. i \in 1..n
      <4>1. i \in 1..dequeued
        BY <2>3, <2>6
      <4>2. CASE reader = "got"
        <5>1. task = "wait"
          BY <2>6, <4>2 DEF MetricsInv, TaskInv
        <5>2. i # dequeued /\ n = dequeued - 1
          BY <2>4, <2>6, <4>2, <5>1
        <5> QED BY <2>1, <4>1, <5>2
      <4>3. CASE reader # "got"
        BY <2>4, <2>6, <4>1, <4>3
      <4> QED BY <4>2, <4>3
    <3>2. fromGuest[i].snap # NoSnap
      BY <2>3, <2>6
    <3>3. PICK m \in 1..Len(published) : published[m] = fromGuest[i].snap
      BY <2>4, <3>1, <3>2 DEF Published
    <3> QED BY <2>1, <3>3 DEF Range
  <2>7. \A l, m \in DOMAIN published : l < m => published[l] < published[m]
    BY <2>1, <2>4 DEF Published
  <2>8. task = "closed" => dequeued = Len(fromGuest)
    BY DEF MetricsInv, TaskInv
  <2> QED BY <2>5, <2>6, <2>7, <2>8 DEF MetricsHonest, whole
<1> QED BY <1>1, <1>2, PTL

---------------------------------------------------------------------------
(* The network thread. *)

AskedIn(s, n) == {j \in 1..n : Asks(s[j])}
IpsIn(s, n) == {j \in 1..n : CarriesIp(s[j])}
Replies(g) == {i \in DOMAIN g : g[i].type = "arp"}

\* The three parts of FramesRight, of a sequence s of which n elements were
\* taken, and of what the guest (g) or the host (h) got.
Replied(s, n, g) ==
  \E m \in InOrder(Surjection(Replies(g), AskedIn(s, n))) :
    \A i \in Replies(g) : Answers(g[i], s[m[i]])

Packed(s, n, g) ==
  \E m \in InOrder(Surjection(DOMAIN g \ Replies(g), 1..n)) :
    \A i \in DOMAIN g \ Replies(g) : Carries(g[i], s[m[i]])

Injected(s, n, h) ==
  \E m \in InOrder([DOMAIN h -> IpsIn(s, n)]) :
    \A i \in DOMAIN h : h[i] = Fitted(s[m[i]].body)

\* A map that keeps the order goes on with a later index and a later value.
LEMMA OrderExtends ==
  ASSUME NEW D \in SUBSET Int, NEW E \in SUBSET Int, NEW m \in InOrder([D -> E]),
         NEW x \in Int, NEW y \in Int, \A d \in D : d < x, \A e \in E : e < y
  PROVE  [i \in D \cup {x} |-> IF i = x THEN y ELSE m[i]] \in InOrder([D \cup {x} -> E \cup {y}])
<1> DEFINE k == [i \in D \cup {x} |-> IF i = x THEN y ELSE m[i]]
<1>1. m \in [D -> E] /\ \A i, j \in D : i < j => m[i] < m[j]
  BY DEF InOrder
<1>2. k \in [D \cup {x} -> E \cup {y}]
  BY <1>1
<1>3. ASSUME NEW i \in D \cup {x}, NEW j \in D \cup {x}, i < j PROVE k[i] < k[j]
  <2>1. i \in D /\ i # x
    BY <1>3
  <2>2. k[i] = m[i] /\ m[i] \in E
    BY <1>1, <2>1
  <2>3. CASE j = x
    BY <2>2, <2>3
  <2>4. CASE j # x
    BY <1>1, <1>3, <2>1, <2>2, <2>4
  <2> QED BY <2>3, <2>4
<1> HIDE DEF k
<1>4. k \in InOrder([D \cup {x} -> E \cup {y}])
  BY <1>2, <1>3 DEF InOrder
<1> QED BY <1>4 DEF k

LEMMA OntoExtends ==
  ASSUME NEW D \in SUBSET Int, NEW E \in SUBSET Int, NEW m \in InOrder(Surjection(D, E)),
         NEW x \in Int, NEW y \in Int, \A d \in D : d < x, \A e \in E : e < y
  PROVE  [i \in D \cup {x} |-> IF i = x THEN y ELSE m[i]]
           \in InOrder(Surjection(D \cup {x}, E \cup {y}))
<1> DEFINE k == [i \in D \cup {x} |-> IF i = x THEN y ELSE m[i]]
<1>1. m \in InOrder([D -> E]) /\ \A e \in E : \E d \in D : m[d] = e
  BY DEF InOrder, Surjection
<1>2. k \in InOrder([D \cup {x} -> E \cup {y}])
  BY <1>1, OrderExtends
<1>3. \A e \in E \cup {y} : \E d \in D \cup {x} : k[d] = e
  <2>1. ASSUME NEW e \in E PROVE \E d \in D \cup {x} : k[d] = e
    <3>1. PICK d \in D : m[d] = e
      BY <1>1
    <3>2. d # x
      OBVIOUS
    <3> QED BY <3>1, <3>2
  <2>2. k[x] = y
    OBVIOUS
  <2> QED BY <2>1, <2>2
<1> HIDE DEF k
<1>4. k \in InOrder(Surjection(D \cup {x}, E \cup {y}))
  BY <1>2, <1>3 DEF InOrder, Surjection
<1> QED BY <1>4 DEF k

\* What one more element adds.
LEMMA OneMore ==
  ASSUME NEW s, NEW n \in Nat
  PROVE  /\ 1..(n + 1) = (1..n) \cup {n + 1}
         /\ AskedIn(s, n + 1) = AskedIn(s, n) \cup (IF Asks(s[n + 1]) THEN {n + 1} ELSE {})
         /\ IpsIn(s, n + 1) = IpsIn(s, n) \cup (IF CarriesIp(s[n + 1]) THEN {n + 1} ELSE {})
         /\ n + 1 \in Int
         /\ AskedIn(s, n) \in SUBSET Int /\ \A e \in AskedIn(s, n) : e < n + 1
         /\ IpsIn(s, n) \in SUBSET Int /\ \A e \in IpsIn(s, n) : e < n + 1
         /\ 1..n \in SUBSET Int /\ \A e \in 1..n : e < n + 1
<1>1. 1..(n + 1) = (1..n) \cup {n + 1}
  OBVIOUS
<1>2. AskedIn(s, n + 1) = AskedIn(s, n) \cup (IF Asks(s[n + 1]) THEN {n + 1} ELSE {})
  BY <1>1 DEF AskedIn
<1>3. IpsIn(s, n + 1) = IpsIn(s, n) \cup (IF CarriesIp(s[n + 1]) THEN {n + 1} ELSE {})
  BY <1>1 DEF IpsIn
<1>4. AskedIn(s, n) \in SUBSET Int /\ \A e \in AskedIn(s, n) : e < n + 1
  BY DEF AskedIn
<1>5. IpsIn(s, n) \in SUBSET Int /\ \A e \in IpsIn(s, n) : e < n + 1
  BY DEF IpsIn
<1> QED BY <1>1, <1>2, <1>3, <1>4, <1>5

\* What one more frame adds.
LEMMA OneLonger ==
  ASSUME NEW S, NEW g \in Seq(S), NEW x
  PROVE  LET l == Len(g) + 1
             h == Append(g, x)
         IN /\ l \in Int /\ h[l] = x
            /\ DOMAIN h = DOMAIN g \cup {l} /\ l \notin DOMAIN g
            /\ \A i \in DOMAIN g : h[i] = g[i] /\ i < l
            /\ DOMAIN g \in SUBSET Int
            /\ h \in Seq(S \cup {x})
<1>1. g \in Seq(S \cup {x}) /\ Len(g) \in Nat /\ DOMAIN g = 1..Len(g)
  OBVIOUS
<1>2. Append(g, x) \in Seq(S \cup {x}) /\ Len(Append(g, x)) = Len(g) + 1
  BY <1>1
<1>3. Append(g, x)[Len(g) + 1] = x
  OBVIOUS
<1>4. \A i \in 1..Len(g) : Append(g, x)[i] = g[i]
  OBVIOUS
<1>5. DOMAIN Append(g, x) = 1..(Len(g) + 1)
  BY <1>2
<1>6. 1..(Len(g) + 1) = 1..Len(g) \cup {Len(g) + 1}
  BY <1>1
<1> QED BY <1>1, <1>2, <1>3, <1>4, <1>5, <1>6

LEMMA RepliesLonger ==
  ASSUME NEW S, NEW g \in Seq(S), NEW x
  PROVE  /\ Replies(Append(g, x)) = Replies(g) \cup (IF x.type = "arp" THEN {Len(g) + 1} ELSE {})
         /\ DOMAIN Append(g, x) \ Replies(Append(g, x))
              = (DOMAIN g \ Replies(g)) \cup (IF x.type = "arp" THEN {} ELSE {Len(g) + 1})
         /\ Replies(g) \in SUBSET Int /\ DOMAIN g \ Replies(g) \in SUBSET Int
<1> DEFINE l == Len(g) + 1
           h == Append(g, x)
<1>1. /\ h[l] = x /\ DOMAIN h = DOMAIN g \cup {l} /\ l \notin DOMAIN g
      /\ \A i \in DOMAIN g : h[i] = g[i]
      /\ DOMAIN g \in SUBSET Int
  BY OneLonger
<1> HIDE DEF l, h
<1>2. Replies(h) = Replies(g) \cup (IF x.type = "arp" THEN {l} ELSE {})
  BY <1>1 DEF Replies
<1>3. Replies(g) \subseteq DOMAIN g
  BY DEF Replies
<1>4. DOMAIN h \ Replies(h) = (DOMAIN g \ Replies(g)) \cup (IF x.type = "arp" THEN {} ELSE {l})
  BY <1>1, <1>2, <1>3
<1> QED BY <1>1, <1>2, <1>3, <1>4 DEF l, h

\* A frame that is no request for the gateway changes nothing.
LEMMA RepliedOthers ==
  ASSUME NEW s, NEW n \in Nat, NEW g, Replied(s, n, g), ~Asks(s[n + 1])
  PROVE  Replied(s, n + 1, g)
<1>1. AskedIn(s, n + 1) = AskedIn(s, n) \cup (IF Asks(s[n + 1]) THEN {n + 1} ELSE {})
  BY OneMore
<1>2. AskedIn(s, n + 1) = AskedIn(s, n)
  BY <1>1
<1> QED BY <1>2 DEF Replied

\* A request is answered.
LEMMA RepliedMore ==
  ASSUME NEW s, NEW n \in Nat, NEW S, NEW g \in Seq(S), Replied(s, n, g),
         Asks(s[n + 1]), NEW x, x.type = "arp", Answers(x, s[n + 1])
  PROVE  Replied(s, n + 1, Append(g, x))
<1> DEFINE l == Len(g) + 1
           h == Append(g, x)
<1>1. PICK m \in InOrder(Surjection(Replies(g), AskedIn(s, n))) :
        \A i \in Replies(g) : Answers(g[i], s[m[i]])
  BY DEF Replied
<1>2. /\ AskedIn(s, n + 1) = AskedIn(s, n) \cup {n + 1} /\ n + 1 \in Int
      /\ AskedIn(s, n) \in SUBSET Int /\ \A e \in AskedIn(s, n) : e < n + 1
  BY OneMore
<1>3. Replies(h) = Replies(g) \cup {l} /\ Replies(g) \in SUBSET Int
  BY RepliesLonger
<1>4. l \in Int /\ h[l] = x /\ \A i \in DOMAIN g : h[i] = g[i] /\ i < l
  BY OneLonger
<1>5. \A i \in Replies(g) : i \in DOMAIN g
  BY DEF Replies
<1> HIDE DEF l, h
<1> DEFINE k == [i \in Replies(g) \cup {l} |-> IF i = l THEN n + 1 ELSE m[i]]
<1>6. k \in InOrder(Surjection(Replies(h), AskedIn(s, n + 1)))
  <2> DEFINE D == Replies(g)
             E == AskedIn(s, n)
  <2>1. /\ D \in SUBSET Int /\ E \in SUBSET Int /\ m \in InOrder(Surjection(D, E))
        /\ l \in Int /\ n + 1 \in Int /\ (\A d \in D : d < l) /\ (\A e \in E : e < n + 1)
    BY <1>2, <1>3, <1>4, <1>5
  <2> HIDE DEF D, E
  <2>2. [i \in D \cup {l} |-> IF i = l THEN n + 1 ELSE m[i]] \in InOrder(Surjection(D \cup {l}, E \cup {n + 1}))
    BY <2>1, OntoExtends
  <2> QED BY <1>2, <1>3, <2>2 DEF D, E
<1>7. ASSUME NEW i \in Replies(h) PROVE Answers(h[i], s[k[i]])
  <2>1. CASE i = l
    <3>1. k[i] = n + 1
      BY <2>1
    <3> QED BY <1>4, <2>1, <3>1
  <2>2. CASE i # l
    <3>1. i \in Replies(g) /\ i \in DOMAIN g
      BY <1>3, <1>5, <2>2
    <3>2. k[i] = m[i] /\ h[i] = g[i]
      BY <1>4, <2>2, <3>1
    <3> QED BY <1>1, <3>1, <3>2
  <2> QED BY <2>1, <2>2
<1> HIDE DEF k
<1>8. Replied(s, n + 1, h)
  BY <1>6, <1>7 DEF Replied
<1> QED BY <1>8 DEF h

\* A frame that carries a packet is no reply.
LEMMA RepliedPacket ==
  ASSUME NEW s, NEW n \in Nat, NEW S, NEW g \in Seq(S), Replied(s, n, g),
         NEW x, x.type # "arp"
  PROVE  Replied(s, n, Append(g, x))
<1>1. Replies(Append(g, x)) = Replies(g)
  BY RepliesLonger
<1>2. \A i \in Replies(g) : Append(g, x)[i] = g[i]
  BY OneLonger DEF Replies
<1>3. PICK m \in InOrder(Surjection(Replies(g), AskedIn(s, n))) :
        \A i \in Replies(g) : Answers(g[i], s[m[i]])
  BY DEF Replied
<1>4. \A i \in Replies(Append(g, x)) : Answers(Append(g, x)[i], s[m[i]])
  BY <1>1, <1>2, <1>3
<1> QED BY <1>1, <1>3, <1>4 DEF Replied

\* A packet of the host goes into a frame.
LEMMA PackedMore ==
  ASSUME NEW s, NEW n \in Nat, NEW S, NEW g \in Seq(S), Packed(s, n, g),
         NEW x, x.type # "arp", Carries(x, s[n + 1])
  PROVE  Packed(s, n + 1, Append(g, x))
<1> DEFINE l == Len(g) + 1
           h == Append(g, x)
           P == DOMAIN g \ Replies(g)
           Q == DOMAIN h \ Replies(h)
<1>1. PICK m \in InOrder(Surjection(P, 1..n)) : \A i \in P : Carries(g[i], s[m[i]])
  BY DEF Packed
<1>2. /\ 1..(n + 1) = (1..n) \cup {n + 1} /\ n + 1 \in Int
      /\ 1..n \in SUBSET Int /\ \A e \in 1..n : e < n + 1
  BY OneMore
<1>3. Q = P \cup {l} /\ P \in SUBSET Int
  BY RepliesLonger
<1>4. l \in Int /\ h[l] = x /\ \A i \in P : h[i] = g[i] /\ i < l
  BY OneLonger
<1> HIDE DEF l, h, P, Q
<1> DEFINE k == [i \in P \cup {l} |-> IF i = l THEN n + 1 ELSE m[i]]
<1>5. k \in InOrder(Surjection(P \cup {l}, (1..n) \cup {n + 1}))
  BY <1>2, <1>3, <1>4, OntoExtends
<1>6. ASSUME NEW i \in Q PROVE Carries(h[i], s[k[i]])
  <2>1. CASE i = l
    <3>1. k[i] = n + 1
      BY <2>1
    <3> QED BY <1>4, <2>1, <3>1
  <2>2. CASE i # l
    <3>1. i \in P
      BY <1>3, <2>2
    <3>2. k[i] = m[i] /\ h[i] = g[i]
      BY <1>4, <2>2, <3>1
    <3> QED BY <1>1, <3>1, <3>2
  <2> QED BY <2>1, <2>2
<1> HIDE DEF k
<1>7. k \in InOrder(Surjection(Q, 1..(n + 1)))
  BY <1>2, <1>3, <1>5
<1>8. Packed(s, n + 1, h)
  BY <1>6, <1>7 DEF Packed, Q
<1> QED BY <1>8 DEF h

\* A reply is no packet.
LEMMA PackedReply ==
  ASSUME NEW s, NEW n \in Nat, NEW S, NEW g \in Seq(S), Packed(s, n, g),
         NEW x, x.type = "arp"
  PROVE  Packed(s, n, Append(g, x))
<1> DEFINE h == Append(g, x)
           P == DOMAIN g \ Replies(g)
           Q == DOMAIN h \ Replies(h)
<1>1. Q = P
  BY RepliesLonger
<1>2. \A i \in P : h[i] = g[i]
  BY OneLonger
<1>3. PICK m \in InOrder(Surjection(P, 1..n)) : \A i \in P : Carries(g[i], s[m[i]])
  BY DEF Packed
<1> HIDE DEF h, P, Q
<1>4. m \in InOrder(Surjection(Q, 1..n)) /\ \A i \in Q : Carries(h[i], s[m[i]])
  BY <1>1, <1>2, <1>3
<1>5. Packed(s, n, h)
  BY <1>4 DEF Packed, Q
<1> QED BY <1>5 DEF h

\* A frame that does not reach the adapter.
LEMMA InjectedNone ==
  ASSUME NEW s, NEW n \in Nat, NEW h, Injected(s, n, h)
  PROVE  Injected(s, n + 1, h)
<1>1. PICK m \in InOrder([DOMAIN h -> IpsIn(s, n)]) :
        \A i \in DOMAIN h : h[i] = Fitted(s[m[i]].body)
  BY DEF Injected
<1>2. IpsIn(s, n) \subseteq IpsIn(s, n + 1)
  BY OneMore
<1>3. m \in InOrder([DOMAIN h -> IpsIn(s, n + 1)])
  BY <1>2 DEF InOrder
<1> QED BY <1>1, <1>3 DEF Injected

\* A packet of the guest reaches the adapter.
LEMMA InjectedMore ==
  ASSUME NEW s, NEW n \in Nat, NEW S, NEW h \in Seq(S), Injected(s, n, h),
         CarriesIp(s[n + 1]), NEW x, x = Fitted(s[n + 1].body)
  PROVE  Injected(s, n + 1, Append(h, x))
<1> DEFINE l == Len(h) + 1
           w == Append(h, x)
<1>1. PICK m \in InOrder([DOMAIN h -> IpsIn(s, n)]) :
        \A i \in DOMAIN h : h[i] = Fitted(s[m[i]].body)
  BY DEF Injected
<1>2. /\ IpsIn(s, n + 1) = IpsIn(s, n) \cup {n + 1} /\ n + 1 \in Int
      /\ IpsIn(s, n) \in SUBSET Int /\ \A e \in IpsIn(s, n) : e < n + 1
  BY OneMore
<1>3. /\ DOMAIN w = DOMAIN h \cup {l} /\ DOMAIN h \in SUBSET Int
      /\ l \in Int /\ w[l] = x /\ \A i \in DOMAIN h : w[i] = h[i] /\ i < l
  BY OneLonger
<1> HIDE DEF l, w
<1> DEFINE k == [i \in DOMAIN h \cup {l} |-> IF i = l THEN n + 1 ELSE m[i]]
<1> DEFINE D == DOMAIN h
           E == IpsIn(s, n)
<1>4. k \in InOrder([D \cup {l} -> E \cup {n + 1}])
  <2>1. /\ D \in SUBSET Int /\ E \in SUBSET Int /\ m \in InOrder([D -> E])
        /\ l \in Int /\ n + 1 \in Int /\ (\A d \in D : d < l) /\ (\A e \in E : e < n + 1)
    BY <1>2, <1>3
  <2> HIDE DEF D, E
  <2>2. [i \in D \cup {l} |-> IF i = l THEN n + 1 ELSE m[i]] \in InOrder([D \cup {l} -> E \cup {n + 1}])
    BY <2>1, OrderExtends
  <2> QED BY <2>2 DEF D, E
<1>5. ASSUME NEW i \in DOMAIN w PROVE w[i] = Fitted(s[k[i]].body)
  <2>1. CASE i = l
    <3>1. k[i] = n + 1
      BY <2>1
    <3> QED BY <1>3, <2>1, <3>1
  <2>2. CASE i # l
    <3>1. i \in DOMAIN h
      BY <1>3, <1>5, <2>2
    <3>2. k[i] = m[i] /\ w[i] = h[i]
      BY <1>3, <2>2, <3>1
    <3> QED BY <1>1, <3>1, <3>2
  <2> QED BY <2>1, <2>2
<1> HIDE DEF k
<1>6. k \in InOrder([DOMAIN w -> IpsIn(s, n + 1)])
  BY <1>2, <1>3, <1>4
<1>7. Injected(s, n + 1, w)
  BY <1>5, <1>6 DEF Injected
<1> QED BY <1>7 DEF w

\* What was taken is not changed by what comes after it.
LEMMA NetPrefix ==
  ASSUME NEW s, NEW r, NEW n \in Nat, \A j \in 1..n : r[j] = s[j]
  PROVE  /\ \A g : Replied(s, n, g) => Replied(r, n, g)
         /\ \A g : Packed(s, n, g) => Packed(r, n, g)
         /\ \A h : Injected(s, n, h) => Injected(r, n, h)
<1>1. AskedIn(r, n) = AskedIn(s, n) /\ \A j \in AskedIn(s, n) : r[j] = s[j]
  BY DEF AskedIn
<1>2. IpsIn(r, n) = IpsIn(s, n) /\ \A j \in IpsIn(s, n) : r[j] = s[j]
  BY DEF IpsIn
<1>3. ASSUME NEW g, Replied(s, n, g) PROVE Replied(r, n, g)
  <2>1. PICK m \in InOrder(Surjection(Replies(g), AskedIn(s, n))) :
          \A i \in Replies(g) : Answers(g[i], s[m[i]])
    BY <1>3 DEF Replied
  <2>2. \A i \in Replies(g) : m[i] \in AskedIn(s, n)
    BY DEF InOrder, Surjection
  <2>3. \A i \in Replies(g) : Answers(g[i], r[m[i]])
    BY <1>1, <2>1, <2>2
  <2> QED BY <1>1, <2>1, <2>3 DEF Replied
<1>4. ASSUME NEW g, Packed(s, n, g) PROVE Packed(r, n, g)
  <2> DEFINE P == DOMAIN g \ Replies(g)
  <2>1. PICK m \in InOrder(Surjection(P, 1..n)) : \A i \in P : Carries(g[i], s[m[i]])
    BY <1>4 DEF Packed
  <2>2. \A i \in P : m[i] \in 1..n
    BY DEF InOrder, Surjection
  <2>3. \A i \in P : Carries(g[i], r[m[i]])
    BY <2>1, <2>2
  <2> QED BY <2>1, <2>3 DEF Packed
<1>5. ASSUME NEW h, Injected(s, n, h) PROVE Injected(r, n, h)
  <2>1. PICK m \in InOrder([DOMAIN h -> IpsIn(s, n)]) :
          \A i \in DOMAIN h : h[i] = Fitted(s[m[i]].body)
    BY <1>5 DEF Injected
  <2>2. \A i \in DOMAIN h : m[i] \in IpsIn(s, n)
    BY DEF InOrder
  <2>3. \A i \in DOMAIN h : h[i] = Fitted(r[m[i]].body)
    BY <1>2, <2>1, <2>2
  <2> QED BY <1>2, <2>1, <2>3 DEF Injected
<1> QED BY <1>3, <1>4, <1>5

\* What the thread has taken is there, and it was treated right.
NetInv ==
  /\ sent \in Seq(GuestFrames) /\ taken \in 0..Len(sent)
  /\ arrived \in Seq(HostPackets) /\ wrapped \in 0..Len(arrived)
  /\ \E S : toGuest \in Seq(S)
  /\ \E S : toHost \in Seq(S)
  /\ Replied(sent, taken, toGuest)
  /\ Packed(arrived, wrapped, toGuest)
  /\ Injected(sent, taken, toHost)

LEMMA NetInitInv == Init => NetInv
<1> SUFFICES ASSUME Init PROVE NetInv
  OBVIOUS
<1>1. /\ sent = <<>> /\ taken = 0 /\ arrived = <<>> /\ wrapped = 0
      /\ toGuest = <<>> /\ toHost = <<>>
  BY DEF Init, NetInit
<1>2. \A S : <<>> \in Seq(S) /\ Len(<<>>) = 0 /\ DOMAIN <<>> = {}
  OBVIOUS
<1>3. 1..0 = {}
  OBVIOUS
<1>4. Replies(<<>>) = {} /\ AskedIn(<<>>, 0) = {} /\ IpsIn(<<>>, 0) = {}
  BY <1>2, <1>3 DEF Replies, AskedIn, IpsIn
<1> DEFINE m == [i \in {} |-> 0]
<1>5. m \in [{} -> {}] /\ DOMAIN m = {}
  OBVIOUS
<1> HIDE DEF m
<1>6. m \in InOrder([{} -> {}]) /\ m \in InOrder(Surjection({}, {}))
  BY <1>5 DEF InOrder, Surjection
<1>7. Replied(<<>>, 0, <<>>)
  BY <1>4, <1>6 DEF Replied
<1>8. Packed(<<>>, 0, <<>>)
  <2>1. DOMAIN <<>> \ Replies(<<>>) = {}
    BY <1>2
  <2> QED BY <1>3, <1>6, <2>1 DEF Packed
<1>9. Injected(<<>>, 0, <<>>)
  BY <1>2, <1>4, <1>6 DEF Injected
<1> QED BY <1>1, <1>2, <1>7, <1>8, <1>9 DEF NetInv

\* Steps that touch neither the channels nor the adapter.
LEMMA OthersNetInv ==
  ASSUME NetInv, UNCHANGED <<sent, taken, arrived, wrapped, toGuest, toHost>>
  PROVE  NetInv'
  BY DEF NetInv

LEMMA GuestSendsInv ==
  ASSUME NetInv, NEW f \in GuestFrames, GuestSends(f)
  PROVE  NetInv'
<1>1. sent' = Append(sent, f) /\ UNCHANGED <<taken, arrived, wrapped, toGuest, toHost>>
  BY DEF GuestSends
<1>2. sent \in Seq(GuestFrames) /\ taken \in 0..Len(sent) /\ taken \in Nat
  BY DEF NetInv
<1>3. sent' \in Seq(GuestFrames) /\ Len(sent') = Len(sent) + 1
      /\ \A j \in 1..Len(sent) : sent'[j] = sent[j]
  BY <1>1, <1>2
<1>4. taken \in 0..Len(sent') /\ \A j \in 1..taken : sent'[j] = sent[j]
  BY <1>2, <1>3
<1>5. Replied(sent', taken, toGuest) /\ Injected(sent', taken, toHost)
  BY <1>2, <1>4, NetPrefix DEF NetInv
<1> QED BY <1>1, <1>3, <1>4, <1>5 DEF NetInv

LEMMA HostSendsInv ==
  ASSUME NetInv, NEW p \in HostPackets, HostSends(p)
  PROVE  NetInv'
<1>1. arrived' = Append(arrived, p) /\ UNCHANGED <<sent, taken, wrapped, toGuest, toHost>>
  BY DEF HostSends
<1>2. arrived \in Seq(HostPackets) /\ wrapped \in 0..Len(arrived) /\ wrapped \in Nat
  BY DEF NetInv
<1>3. arrived' \in Seq(HostPackets) /\ Len(arrived') = Len(arrived) + 1
      /\ \A j \in 1..Len(arrived) : arrived'[j] = arrived[j]
  BY <1>1, <1>2
<1>4. wrapped \in 0..Len(arrived') /\ \A j \in 1..wrapped : arrived'[j] = arrived[j]
  BY <1>2, <1>3
<1>5. Packed(arrived', wrapped, toGuest)
  BY <1>2, <1>4, NetPrefix DEF NetInv
<1> QED BY <1>1, <1>3, <1>4, <1>5 DEF NetInv

\* The parser and the ARP responder agree with what a request is.
LEMMA AsksIsRequest ==
  ASSUME NEW f, f.len \in Int
  PROVE  /\ Asks(f) <=> ParseEthHeader(f) = "arp" /\ IsGatewayRequest(f)
         /\ ParseEthHeader(f) \in {"ipv4", "ipv6"} <=> CarriesIp(f)
<1>1. LET a == Arp("request", f.body.sha, f.body.spa, f.body.tha, GatewayIp)
      IN /\ a.hw = <<"ethernet", 6>> /\ a.proto = <<"ipv4", 4>>
         /\ a.op = "request" /\ a.tpa = GatewayIp
  BY DEF Arp
<1>2. Asks(f) <=> IsGatewayRequest(f)
  BY <1>1 DEF Asks, IsGatewayRequest, EthHeaderLen, ArpBodyLen
<1>3. IsGatewayRequest(f) => ParseEthHeader(f) = "arp"
  BY DEF IsGatewayRequest, ParseEthHeader, EthHeaderLen, ArpBodyLen
<1>4. ParseEthHeader(f) \in {"ipv4", "ipv6"} <=> CarriesIp(f)
  BY DEF ParseEthHeader, CarriesIp, EthHeaderLen
<1> QED BY <1>2, <1>3, <1>4

LEMMA ReplyAnswers ==
  ASSUME NEW f
  PROVE  BuildArpReply(f).type = "arp" /\ Answers(BuildArpReply(f), f)
  BY DEF BuildArpReply, BuildEthFrame, Arp, Answers

LEMMA FrameCarries ==
  ASSUME NEW p
  PROVE  LET g == BuildEthFrame(GatewayMac, GuestMac, EthertypeFromIp(p), p)
         IN g.type # "arp" /\ Carries(g, p)
  BY DEF BuildEthFrame, EthertypeFromIp, Carries, StripEthHeader

\* What send_to_wintun leaves of a packet.
LEMMA CutIsFitted ==
  ASSUME NEW p \in [version : 0..15, len : Nat]
  PROVE  (IF p.len > U16Max THEN [p EXCEPT !.len = U16Max] ELSE p) = Fitted(p)
  BY DEF Fitted, U16Max

\* One frame of the guest is answered, handed on or dropped.
LEMMA DrainFrameInv ==
  ASSUME NetInv, DrainFrame
  PROVE  NetInv'
<1> DEFINE f == sent[taken + 1]
<1>1. /\ taken < Len(sent) /\ taken' = taken + 1
      /\ UNCHANGED <<sent, arrived, wrapped>>
  BY DEF DrainFrame
<1>2. /\ sent \in Seq(GuestFrames) /\ taken \in Nat /\ Len(sent) \in Nat
      /\ wrapped \in Nat
      /\ Replied(sent, taken, toGuest) /\ Packed(arrived, wrapped, toGuest)
      /\ Injected(sent, taken, toHost)
  BY DEF NetInv
<1>3. taken' \in 0..Len(sent) /\ f \in GuestFrames
  BY <1>1, <1>2
<1>4. f.len \in Int
  BY <1>3, FramesAssumption
<1>5. PICK S : toGuest \in Seq(S)
  BY DEF NetInv
<1>6. PICK T : toHost \in Seq(T)
  BY DEF NetInv
<1>7. /\ Asks(f) <=> ParseEthHeader(f) = "arp" /\ IsGatewayRequest(f)
      /\ ParseEthHeader(f) \in {"ipv4", "ipv6"} <=> CarriesIp(f)
  BY <1>4, AsksIsRequest
<1>8. /\ Asks(f) => toGuest' = Append(toGuest, BuildArpReply(f)) /\ toHost' = toHost
      /\ ~Asks(f) /\ CarriesIp(f) => SendToWintun(StripEthHeader(f)) /\ toGuest' = toGuest
      /\ ~Asks(f) /\ ~CarriesIp(f) => UNCHANGED <<toGuest, toHost>>
  BY <1>7 DEF DrainFrame
<1>9. CarriesIp(f) => ~Asks(f)
  BY DEF CarriesIp, Asks
<1> HIDE DEF f
<1>10. Injected(sent, taken + 1, toHost)
  BY <1>2, InjectedNone
<1>11. ~Asks(f) => Replied(sent, taken + 1, toGuest)
  BY <1>2, RepliedOthers DEF f
<1>12. CASE Asks(f)
  <2> DEFINE g == BuildArpReply(f)
  <2>1. g.type = "arp" /\ Answers(g, f)
    BY ReplyAnswers
  <2> HIDE DEF g
  <2>2. Replied(sent, taken + 1, Append(toGuest, g))
    BY <1>2, <1>5, <1>12, <2>1, RepliedMore DEF f
  <2>3. Packed(arrived, wrapped, Append(toGuest, g))
    BY <1>2, <1>5, <2>1, PackedReply
  <2>4. Append(toGuest, g) \in Seq(S \cup {g})
    BY <1>5, OneLonger
  <2>5. toGuest' = Append(toGuest, g) /\ toHost' = toHost
    BY <1>8, <1>12 DEF g
  <2> QED BY <1>1, <1>2, <1>3, <1>6, <1>10, <2>2, <2>3, <2>4, <2>5 DEF NetInv
<1>13. CASE CarriesIp(f) /\ toHost' # toHost
  <2> DEFINE p == Fitted(f.body)
  <2>1. f.body \in [version : 0..15, len : Nat]
    BY <1>3, <1>13, FramesAssumption DEF CarriesIp
  <2>2. toHost' = Append(toHost, p) /\ toGuest' = toGuest
    BY <1>8, <1>9, <1>13, <2>1, CutIsFitted DEF SendToWintun, StripEthHeader
  <2> HIDE DEF p
  <2>3. Injected(sent, taken + 1, Append(toHost, p))
    BY <1>2, <1>6, <1>13, InjectedMore DEF f, p
  <2>4. Append(toHost, p) \in Seq(T \cup {p})
    BY <1>6, OneLonger
  <2> QED BY <1>1, <1>2, <1>3, <1>5, <1>9, <1>11, <1>13, <2>2, <2>3, <2>4 DEF NetInv
<1>14. CASE ~Asks(f) /\ UNCHANGED <<toGuest, toHost>>
  BY <1>1, <1>2, <1>3, <1>5, <1>6, <1>10, <1>11, <1>14 DEF NetInv
<1> QED BY <1>8, <1>9, <1>12, <1>13, <1>14

LEMMA ReceiveInv ==
  ASSUME NetInv, Receive
  PROVE  NetInv'
<1>1. UNCHANGED <<sent, taken, arrived, toHost>>
  BY DEF Receive
<1>2. CASE ~(wrapped < Len(arrived))
  <2>1. UNCHANGED <<wrapped, toGuest>>
    BY <1>2 DEF Receive
  <2> QED BY <1>1, <2>1, OthersNetInv
<1>3. CASE wrapped < Len(arrived)
  <2> DEFINE p == arrived[wrapped + 1]
             g == BuildEthFrame(GatewayMac, GuestMac, EthertypeFromIp(p), p)
  <2>1. wrapped' = wrapped + 1 /\ toGuest' = Append(toGuest, g)
    BY <1>3 DEF Receive
  <2>2. /\ arrived \in Seq(HostPackets) /\ wrapped \in Nat /\ taken \in Nat
        /\ Replied(sent, taken, toGuest) /\ Packed(arrived, wrapped, toGuest)
        /\ Len(arrived) \in Nat
    BY DEF NetInv
  <2>3. g.type # "arp" /\ Carries(g, p)
    BY FrameCarries
  <2> HIDE DEF g
  <2>4. PICK S : toGuest \in Seq(S)
    BY DEF NetInv
  <2>5. Replied(sent, taken, Append(toGuest, g))
    BY <2>2, <2>3, <2>4, RepliedPacket
  <2>6. Packed(arrived, wrapped + 1, Append(toGuest, g))
    BY <2>2, <2>3, <2>4, PackedMore
  <2>7. Append(toGuest, g) \in Seq(S \cup {g})
    BY <2>4, OneLonger
  <2>8. wrapped' \in 0..Len(arrived)
    BY <1>3, <2>1, <2>2
  <2> QED BY <1>1, <2>1, <2>5, <2>6, <2>7, <2>8 DEF NetInv
<1> QED BY <1>2, <1>3

LEMMA NetStepInv ==
  ASSUME NetInv, [Next]_vars
  PROVE  NetInv'
<1>1. CASE UNCHANGED netVars
  BY <1>1, OthersNetInv DEF netVars
<1>2. CASE Boot \/ Exit
  <2>1. UNCHANGED netVars \/ UNCHANGED <<sent, taken, arrived, wrapped, toGuest, toHost>>
    BY <1>2 DEF Boot, Exit, Thread, StartNetIo, StopNetIo
  <2> QED BY <1>1, <2>1, OthersNetInv
<1>3. CASE Traffic
  <2>1. ASSUME NEW f \in GuestFrames, Net(GuestSends(f)) PROVE NetInv'
    BY <2>1, GuestSendsInv DEF Net
  <2>2. ASSUME NEW p \in HostPackets, Net(HostSends(p)) PROVE NetInv'
    BY <2>2, HostSendsInv DEF Net
  <2>3. CASE Net(ReceiveFails)
    BY <2>3, OthersNetInv DEF Net, ReceiveFails
  <2> QED BY <1>1, <1>3, <2>1, <2>2, <2>3 DEF Traffic, Fwd, Agent
<1>4. CASE Net(NetThread)
  <2>1. CASE CheckStop \/ Drained
    BY <2>1, OthersNetInv DEF CheckStop, Drained
  <2> QED BY <1>4, <2>1, DrainFrameInv, ReceiveInv DEF Net, NetThread
<1>5. CASE \E k \in VmConfigs : Start(k)
  BY <1>1, <1>5 DEF Start
<1>6. CASE \/ TaskStep \/ Return \/ RtShutdown \/ ForwardTasks
           \/ MetricsSteps \/ MetricsReader \/ ShutdownSignal
  <2>1. UNCHANGED netVars
    BY <1>6 DEF TaskStep, Forward, Task, Return, Thread, RtShutdown, ForwardTasks, Fwd,
                MetricsSteps, MetricsReader, ShutdownSignal, Met
  <2> QED BY <1>1, <2>1
<1>7. CASE UNCHANGED vars
  BY <1>1, <1>7 DEF vars
<1> QED BY <1>2, <1>3, <1>4, <1>5, <1>6, <1>7 DEF Next

\* Whatever a guest and the host send, and whenever the thread runs: the guest
\* gets one reply for every request for the gateway and every packet of the host
\* once, both in their order, and the adapter gets packets of the guest in their
\* order and none twice (wintun_io.rs, net_io_loop; ethernet.rs).
THEOREM FramesRightHolds == Spec => []FramesRight
<1>1. Spec => []NetInv
  BY NetInitInv, NetStepInv, PTL DEF Spec
<1>2. NetInv => FramesRight
  BY DEF NetInv, Replied, Packed, Injected, AskedIn, IpsIn, Replies, FramesRight
<1> QED BY <1>1, <1>2, PTL
=============================================================================
