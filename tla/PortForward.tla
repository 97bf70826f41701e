---------------------------- MODULE PortForward -----------------------------
(***************************************************************************)
(* The TCP port forwarder of a VM (hitz-daemon: port_forward.rs): one      *)
(* listener task per rule, one relay task per connection.  Listeners push  *)
(* the handles of their relays into a vector behind an async mutex, which  *)
(* Drop empties if it gets the lock at once.  A task is aborted only where *)
(* it awaits.  Errors of accept are retried and change nothing.            *)
(***************************************************************************)
EXTENDS Naturals, FiniteSets

CONSTANTS
  Rules,   \* forwarding rules: 1..n
  Conns    \* TCP connections that may be made to the host ports

ASSUME ForwardAssumptions == Rules \subseteq Nat \ {0} /\ IsFiniteSet(Conns)

VARIABLES
  fwd,           \* the manager: "none", "binding", "started"; after Drop
                 \* "drained", or "skipped" when the lock was taken
  listener,      \* the listener tasks
  relay,         \* the relay tasks
  lock,          \* the rule whose listener holds relay_handles, or 0
  relays_active  \* the up-down counter that telemetry exports

fwdVars == <<fwd, listener, relay, lock, relays_active>>

NoListener == [pc |-> "none", aborted |-> FALSE]

\* `handle`: "hand" while the listener holds the JoinHandle, "vec" in
\* relay_handles, "gone" otherwise.
NoRelay == [pc |-> "none", rule |-> 0, handle |-> "gone", aborted |-> FALSE]

FwdInit ==
  /\ fwd = "none"
  /\ listener = [r \in Rules |-> NoListener]
  /\ relay = [c \in Conns |-> NoRelay]
  /\ lock = 0
  /\ relays_active = 0

---------------------------------------------------------------------------
(* start: the rules in turn, from the first to the last. *)

\* The rule to bind next: rules below it are bound, or were skipped because
\* the port is taken.
StartForwarding(rules) ==
  /\ fwd = "none"
  /\ fwd' = IF rules = {} THEN "none" ELSE "binding"
  /\ UNCHANGED <<listener, relay, lock, relays_active>>

BindRule(r) ==
  /\ fwd = "binding"
  /\ listener[r].pc = "none"
  /\ \A q \in Rules : q < r => listener[q].pc # "none"
  /\ \E pc \in {"accept", "unbound"} : listener' = [listener EXCEPT ![r].pc = pc]
  /\ fwd' = IF \A q \in Rules : q <= r THEN "started" ELSE "binding"
  /\ UNCHANGED <<relay, lock, relays_active>>

---------------------------------------------------------------------------
(* The listener and the relay tasks. *)

Accept(r, c) ==
  /\ listener[r] = [pc |-> "accept", aborted |-> FALSE]
  /\ relay[c].pc = "none"
  /\ relay' = [relay EXCEPT ![c] =
                 [pc |-> "relaying", rule |-> r, handle |-> "hand", aborted |-> FALSE]]
  /\ relays_active' = relays_active + 1
  /\ listener' = [listener EXCEPT ![r].pc = "hold"]
  /\ UNCHANGED <<fwd, lock>>

TakeLock(r) ==
  /\ listener[r].pc = "hold" /\ lock = 0
  /\ lock' = r
  /\ listener' = [listener EXCEPT ![r].pc = "push"]
  /\ UNCHANGED <<fwd, relay, relays_active>>

\* The vector outlives the manager as long as a listener does.
PushRelay(r) ==
  /\ listener[r].pc = "push"
  /\ lock' = 0
  /\ relay' = [c \in Conns |->
                 IF relay[c].rule = r /\ relay[c].handle = "hand"
                 THEN [relay[c] EXCEPT !.handle = "vec"] ELSE relay[c]]
  /\ listener' = [listener EXCEPT ![r].pc = "accept"]
  /\ UNCHANGED <<fwd, relays_active>>

\* An aborted listener ends where it waits: in accept, or for the lock.  The
\* relay in its hand goes on without a handle.
EndListener(r) ==
  /\ listener[r].aborted
  /\ listener[r].pc = "accept" \/ (listener[r].pc = "hold" /\ lock # 0)
  /\ listener' = [listener EXCEPT ![r].pc = "closed"]
  /\ relay' = [c \in Conns |->
                 IF relay[c].rule = r /\ relay[c].handle = "hand"
                 THEN [relay[c] EXCEPT !.handle = "gone"] ELSE relay[c]]
  /\ UNCHANGED <<fwd, lock, relays_active>>

\* The connection to the guest failed, or one side closed.
RelayEnds(c) ==
  /\ relay[c].pc = "relaying"
  /\ relay' = [relay EXCEPT ![c].pc = "ended"]
  /\ relays_active' = relays_active - 1
  /\ UNCHANGED <<fwd, listener, lock>>

\* An aborted relay ends without counting itself out.
RelayCancelled(c) ==
  /\ relay[c].pc = "relaying" /\ relay[c].aborted
  /\ relay' = [relay EXCEPT ![c].pc = "cancelled"]
  /\ UNCHANGED <<fwd, listener, lock, relays_active>>

ListenerStep(r) ==
  BindRule(r) \/ TakeLock(r) \/ PushRelay(r) \/ EndListener(r)

---------------------------------------------------------------------------
(* Drop. *)

\* A bug to be caught: the relays are left to themselves.
Abort_ListenersOnly(c) == [relay[c] EXCEPT !.handle = "gone"]

\* A relay that Drop finds in the vector.
Abort(c) == [relay[c] EXCEPT !.handle = "gone", !.aborted = TRUE]

DropForwarding ==
  /\ listener' = [r \in Rules |->
                    IF listener[r].pc \in {"none", "unbound"} THEN listener[r]
                    ELSE [listener[r] EXCEPT !.aborted = TRUE]]
  /\ IF lock = 0
     THEN /\ relay' = [c \in Conns |-> IF relay[c].handle = "vec" THEN Abort(c) ELSE relay[c]]
          /\ fwd' = IF fwd = "none" THEN "none" ELSE "drained"
     ELSE relay' = relay /\ fwd' = "skipped"
  /\ UNCHANGED <<lock, relays_active>>

\* The runtime goes away and takes every task with it.
CancelForwarding ==
  /\ fwd' = IF fwd = "none" THEN "none" ELSE "drained"
  /\ listener' = [r \in Rules |->
                    IF listener[r].pc = "none" THEN NoListener
                    ELSE [pc |-> "closed", aborted |-> TRUE]]
  /\ relay' = [c \in Conns |->
                 IF relay[c].pc = "relaying"
                 THEN [relay[c] EXCEPT !.pc = "cancelled", !.handle = "gone"]
                 ELSE relay[c]]
  /\ lock' = 0
  /\ UNCHANGED relays_active

---------------------------------------------------------------------------
(* Properties. *)

\* The exported number of active relays never falls below the relays that are
\* there, and exceeds it by those that were aborted.  A manager that was
\* dropped and got the lock has aborted all relays but those a listener had
\* not pushed yet, at most one for each rule (port_forward.rs:16-17).
RelaysTracked ==
  /\ relays_active = Cardinality({c \in Conns : relay[c].pc \in {"relaying", "cancelled"}})
  /\ fwd = "drained" => \A r \in Rules :
       Cardinality({c \in Conns : /\ relay[c].rule = r
                                  /\ relay[c].pc = "relaying"
                                  /\ ~relay[c].aborted}) <= 1
=============================================================================
