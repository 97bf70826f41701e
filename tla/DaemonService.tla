--------------------------- MODULE DaemonService ----------------------------
(***************************************************************************)
(* The daemon process (hitz-cli: main.rs; hitz-daemon: server.rs,          *)
(* telemetry.rs): started in the foreground or by the Service Control      *)
(* Manager, its pipe and TCP listeners, and its way down.  What it does to *)
(* VMs while it stops is the business of the module that composes this     *)
(* one with a VM.                                                          *)
(***************************************************************************)
EXTENDS Naturals

CONSTANTS
  MaxConns   \* connections accepted in a run

VARIABLES
  installed, \* the service has its entry in the registry
  svc,       \* the main thread (or the service's thread) of the process
  scm,       \* what the Service Control Manager was told last
  stop,      \* Ctrl+C, or the watch channel of the control handler
  shut,      \* the shutdown channel of the listeners
  pipe, tcp, \* the listener tasks
  conns,     \* open connections
  accepted   \* connections accepted so far

svcVars == <<installed, svc, scm, stop, shut, pipe, tcp, conns, accepted>>

SvcInit ==
  /\ installed = FALSE
  /\ svc = [pc |-> "off", service |-> FALSE, tcp |-> FALSE, result |-> "ok",
            timed_out |-> FALSE]
  /\ scm = "Stopped"
  /\ stop = FALSE /\ shut = FALSE
  /\ pipe = "none" /\ tcp = "none"
  /\ conns = 0 /\ accepted = 0

GoTo(pc) == svc' = [svc EXCEPT !.pc = pc]

---------------------------------------------------------------------------
(* hitz daemon install and remove. *)

\* An entry that is deleted while its service runs is in the way until it stops.
InstallService ==
  /\ ~installed /\ scm = "Stopped"
  /\ installed' = TRUE
  /\ UNCHANGED <<svc, scm, stop, shut, pipe, tcp, conns, accepted>>

\* Stop is sent and its failure ignored: a service that is still starting does
\* not accept it, and goes on without its entry.
RemoveService ==
  /\ installed
  /\ installed' = FALSE
  /\ stop' = (stop \/ scm = "Running")
  /\ UNCHANGED <<svc, scm, shut, pipe, tcp, conns, accepted>>

---------------------------------------------------------------------------
(* Start.  "abandoned": run_service has returned an error without having    *)
(* reported Stopped, so that the dispatcher keeps waiting for the service. *)

\* run_daemon without the Service Control Manager (error 1063).
StartForeground(tcp_listen) ==
  /\ svc.pc = "off"
  /\ svc' = [svc EXCEPT !.pc = "runtime", !.tcp = tcp_listen]
  /\ UNCHANGED <<installed, scm, stop, shut, pipe, tcp, conns, accepted>>

\* The dispatcher calls service_main, which registers its control handler and
\* reports StartPending.
StartService ==
  /\ svc.pc = "off" /\ installed
  /\ svc' = [svc EXCEPT !.pc = "parse", !.service = TRUE]
  /\ scm' = "StartPending"
  /\ UNCHANGED <<installed, stop, shut, pipe, tcp, conns, accepted>>

\* service_main parses what the Service Control Manager hands it, which may be
\* the launch arguments of the entry or what the caller of a start has given:
\* whatever follows the first "daemon" in it.  It may not parse, or be another
\* command than daemon start.
ParseServiceArgs ==
  /\ svc.pc = "parse"
  /\ \/ /\ \E tcp_listen \in BOOLEAN :
            svc' = [svc EXCEPT !.pc = "runtime", !.tcp = tcp_listen]
        /\ scm' = "Running"
     \/ /\ GoTo("abandoned")
        /\ scm' = scm
  /\ UNCHANGED <<installed, stop, shut, pipe, tcp, conns, accepted>>

\* TelemetryGuard::init cannot fail: without exporters the daemon runs without
\* telemetry.  Then the runtime is created.
NewRuntime ==
  /\ svc.pc = "runtime"
  /\ \/ GoTo("inner")
     \/ IF svc.service THEN GoTo("abandoned")
        ELSE svc' = [svc EXCEPT !.pc = "end", !.result = "error"]
  /\ UNCHANGED <<installed, scm, stop, shut, pipe, tcp, conns, accepted>>

\* run_daemon_inner up to its wait: the hypervisor, the state store, the
\* server task.
EnterInner ==
  /\ svc.pc = "inner"
  /\ \/ /\ GoTo("serving")
        /\ pipe' = "create"
        /\ tcp' = IF svc.tcp THEN "bind" ELSE "none"
     \/ /\ svc' = [svc EXCEPT !.pc = "rt_shutdown", !.result = "error"]
        /\ UNCHANGED <<pipe, tcp>>
  /\ UNCHANGED <<installed, scm, stop, shut, conns, accepted>>

---------------------------------------------------------------------------
(* Stop requests. *)

\* The service accepts only Stop, and only while it reports Running.
StopControl ==
  /\ scm = "Running" /\ ~stop
  /\ stop' = TRUE
  /\ UNCHANGED <<installed, svc, scm, shut, pipe, tcp, conns, accepted>>

\* Before ctrl_c() is polled the signal has its default effect.
CtrlC ==
  /\ ~svc.service /\ svc.pc \notin {"off", "end"} /\ ~stop
  /\ IF svc.pc \in {"runtime", "inner"}
     THEN GoTo("end") /\ stop' = stop
     ELSE stop' = TRUE /\ svc' = svc
  /\ UNCHANGED <<installed, scm, shut, pipe, tcp, conns, accepted>>

---------------------------------------------------------------------------
(* server.rs.  The watch channel remembers a change that nobody waited for. *)

CreatePipe ==
  /\ pipe = "create"
  /\ pipe' \in {"wait", "ended"}
  /\ UNCHANGED <<installed, svc, scm, stop, shut, tcp, conns, accepted>>

BindTcp ==
  /\ tcp = "bind"
  /\ tcp' \in {"wait", "ended"}
  /\ UNCHANGED <<installed, svc, scm, stop, shut, pipe, conns, accepted>>

Connected == conns' = conns + 1 /\ accepted' = accepted + 1

\* A client, or an error that ends the listener and nobody reports.
PipeConnects ==
  /\ pipe = "wait"
  /\ \/ accepted < MaxConns /\ Connected /\ pipe' = "create"
     \/ UNCHANGED <<conns, accepted>> /\ pipe' = "ended"
  /\ UNCHANGED <<installed, svc, scm, stop, shut, tcp>>

TcpConnects ==
  /\ tcp = "wait"
  /\ \/ accepted < MaxConns /\ Connected /\ tcp' = tcp
     \/ UNCHANGED <<conns, accepted>> /\ tcp' = "ended"
  /\ UNCHANGED <<installed, svc, scm, stop, shut, pipe>>

\* A bug to be caught: the pipe listener does not look at the channel.
PipeShutsDown_Never == FALSE /\ UNCHANGED svcVars

PipeShutsDown ==
  /\ pipe = "wait" /\ shut
  /\ pipe' = "ended"
  /\ UNCHANGED <<installed, svc, scm, stop, shut, tcp, conns, accepted>>

TcpShutsDown ==
  /\ tcp = "wait" /\ shut
  /\ tcp' = "ended"
  /\ UNCHANGED <<installed, svc, scm, stop, shut, pipe, conns, accepted>>

Disconnect ==
  /\ conns > 0
  /\ conns' = conns - 1
  /\ UNCHANGED <<installed, svc, scm, stop, shut, pipe, tcp, accepted>>

---------------------------------------------------------------------------
(* The way down. *)

\* The shutdown future resolves; the listeners are told.
SignalListeners ==
  /\ svc.pc = "serving" /\ stop
  /\ GoTo("stop_all")
  /\ shut' = TRUE
  /\ UNCHANGED <<installed, scm, stop, pipe, tcp, conns, accepted>>

\* Not bounded by a timeout.
JoinServer ==
  /\ svc.pc = "join" /\ pipe = "ended"
  /\ GoTo("rt_shutdown")
  /\ UNCHANGED <<installed, scm, stop, shut, pipe, tcp, conns, accepted>>

\* shutdown_timeout begins: every task of the runtime is dropped.
CancelServer ==
  /\ svc.pc = "rt_shutdown"
  /\ GoTo("rt_wait")
  /\ pipe' = IF pipe = "none" THEN "none" ELSE "ended"
  /\ tcp' = IF tcp = "none" THEN "none" ELSE "ended"
  /\ conns' = 0
  /\ UNCHANGED <<installed, scm, stop, shut, accepted>>

\* The telemetry guard is dropped, the service reports Stopped, the
\* dispatcher and main return.
Finish ==
  /\ svc.pc = "flush"
  /\ GoTo("end")
  /\ scm' = IF svc.service THEN "Stopped" ELSE scm
  /\ UNCHANGED <<installed, stop, shut, pipe, tcp, conns, accepted>>

MainStep ==
  \/ ParseServiceArgs \/ NewRuntime \/ EnterInner
  \/ SignalListeners \/ JoinServer \/ Finish

Listening == CreatePipe \/ BindTcp
=============================================================================
