----------------------------- MODULE CliClient -----------------------------
(***************************************************************************)
(* The command line client, `hitz vm ...' (hitz-cli/src/main.rs and         *)
(* pipe_client.rs), one command after the other, against a daemon whose     *)
(* answers may be lost, refused or unreadable and whose VM changes between  *)
(* two requests.  A request is served in one step and its answer handled in *)
(* a later one.  Metrics are the snapshots of the constant Data, by number; *)
(* the file of `vm record' outlives the command.                            *)
(*                                                                          *)
(* The daemon of this version refuses every request for metrics             *)
(* (request_metrics_snapshot is a stub): that is MetricsServed = FALSE.     *)
(* With TRUE the client meets a daemon of the same API that has snapshots,  *)
(* the one its commands are written for.                                    *)
(***************************************************************************)
EXTENDS Metrics

CONSTANTS
    Data,           \* snapshots, by number
    MetricsServed,  \* whether the daemon has snapshots to give
    MaxCommands,    \* how many, one after the other
    MaxFetches,     \* requests of one command
    MaxLines        \* appends to the recording

VARIABLES
    vm,             \* the daemon's state of the VM, or Absent
    cmd,            \* the command that runs
    pc,             \* where it is
    answer,         \* what the last request came to
    said,           \* what the user was told
    code,           \* the exit code
    effects,        \* how often the daemon has carried the request out
    unsaved,        \* what it carried out it could not save
    term,           \* the terminal: [raw, alt, built, failed]
    view,           \* what a screen that refreshes shows: [shown, err]
    latest,         \* the last answer that a screen received
    created,        \* the file of the recording is there
    file,           \* its lines of pieces
    samples,        \* the appends that `vm record' has counted
    recorded,       \* the snapshots it was given, over all commands
    broken,         \* an append has failed part of the way
    rows,           \* the rows of the last timeline
    ran, fetches    \* bounds

client == <<cmd, pc, answer, said, code, effects, unsaved, ran, fetches>>
screen == <<term, view, latest>>
record == <<created, file, samples, recorded, broken, rows>>
vars == <<vm, client, screen, record>>

VmStates == {"Created", "Running", "Stopped", "Failed"}
None == 0

(* What a request comes to: no connection or no answer, a status that is    *)
(* not a success, a success whose body cannot be parsed, or a value.        *)
NoAnswer == [kind |-> "err", value |-> None]
Refused  == [kind |-> "status", value |-> None]
Garbage  == [kind |-> "garbage", value |-> None]
Good(v)  == [kind |-> "good", value |-> v]

Mutations == {"create", "clone", "start", "stop", "restart", "delete"}

(* The subcommands of `hitz vm'.                                            *)
VmCommand == Mutations \cup
    {"status", "list", "metrics", "export", "serial", "analyze",
     "top", "dashboard", "record", "timeline"}

(* pipe_request and request_stream: one request on a connection of its own. *)
PipeRequest == pc' = "sent"

--------------------------------------------------------------------------
(* The daemon.                                                              *)

(* Which states a request is accepted in, and the state it leads to.        *)
Accepted(c) ==
    CASE c = "create"  -> vm = "Absent"
      [] c = "clone"   -> vm # "Absent"
      [] c = "start"   -> vm = "Created"
      [] c = "stop"    -> vm = "Running"
      [] c = "restart" -> vm = "Running"
      [] c = "delete"  -> vm \in {"Created", "Stopped", "Failed"}

Outcome(c) ==
    CASE c = "create" -> "Created" [] c = "clone" -> vm [] c = "start" -> "Running"
      [] c \in {"stop", "restart"} -> "Stopped" [] c = "delete" -> "Absent"

(* start_vm and delete_vm change the VM first and then save; create_vm and  *)
(* clone_vm save first; a stop saves nothing.                               *)
SavesAfter  == {"start", "delete"}
SavesBefore == {"create", "clone"}

(* What the daemon answers to a request that it has carried out: the second *)
(* half of a restart, the start, is always refused.                         *)
Answers(c) == {IF c = "restart" THEN Refused ELSE Good(None), NoAnswer}

(* The handlers of create, clone, start, stop, restart and delete: carried  *)
(* out and answered, or with the answer lost; carried out and answered with *)
(* the error of a save that comes after the change; refused in this state;  *)
(* or refused for a save that comes before it.                              *)
CarryOut(c) ==
    \/ /\ Accepted(c) /\ vm' = Outcome(c) /\ effects' = effects + 1
       /\ \/ answer' \in Answers(c) /\ unsaved' = FALSE
          \/ c \in SavesAfter /\ answer' \in {Refused, NoAnswer} /\ unsaved' = TRUE
    \/ /\ ~Accepted(c) \/ c \in SavesBefore
       /\ answer' = Refused /\ UNCHANGED <<vm, effects, unsaved>>

(* GET /vms/{id} and GET /vms.                                              *)
InfoAnswers == {Garbage, Good(vm), IF vm = "Absent" THEN Refused ELSE Garbage}

(* GET /vms/{id}/metrics, and the serial console's stream.                  *)
MetricsAnswers ==
    IF MetricsServed /\ vm = "Running"
    THEN {Garbage, Refused} \cup {Good(k) : k \in DOMAIN Data}
    ELSE {Refused}

SerialAnswers == IF vm = "Running" THEN {Good(None), Garbage} ELSE {Refused}

(* The daemon answers a request: GET /vms and /vms/{id} with the state,     *)
(* GET /vms/{id}/metrics with the snapshot if the VM runs.                  *)
Serve ==
    /\ pc = "sent"
    /\ pc' = "answered"
    /\ \/ answer' = NoAnswer /\ UNCHANGED <<vm, effects, unsaved>>
       \/ cmd \in Mutations /\ CarryOut(cmd)
       \/ /\ cmd \in {"status", "list", "dashboard", "analyze"}
          /\ answer' \in InfoAnswers
          /\ UNCHANGED <<vm, effects, unsaved>>
       \/ /\ cmd \in {"metrics", "export", "top", "record", "analyze2"}
          /\ answer' \in MetricsAnswers
          /\ UNCHANGED <<vm, effects, unsaved>>
       \/ /\ cmd = "serial"
          /\ answer' \in SerialAnswers
          /\ UNCHANGED <<vm, effects, unsaved>>
    /\ UNCHANGED <<cmd, said, code, ran, fetches, screen, record>>

(* Other clients, before the daemon comes to the request: Serve is the only *)
(* step that reads what they change.                                        *)
World ==
    /\ pc = "sent"
    /\ vm' = CASE vm = "Absent" -> "Created" [] vm = "Created" -> "Running"
               [] vm = "Running" -> "Stopped" [] OTHER -> "Absent"
    /\ UNCHANGED <<client, screen, record>>

--------------------------------------------------------------------------
(* The client's ends.                                                       *)

(* main: an error that reached run_vm_command is printed, exit code 1.      *)
Bail == pc' = "done" /\ code' = 1 /\ said' = "error"
(* The handler returned Ok, whatever it had to say.                         *)
Finish(what) == pc' = "done" /\ code' = 0 /\ said' = what

(* pipe_request's error goes up with `?' in every command but the           *)
(* dashboard.                                                               *)
Unanswered == answer.kind = "err" /\ Bail

(* print_action_result.                                                     *)
PrintActionResult ==
    IF answer.kind = "good" THEN Finish("success") ELSE Finish("failure")

(* Mutant: a request that got no answer is sent once more.                  *)
Report_Retries(commands) ==
    /\ pc = "answered" /\ cmd \in commands
    /\ \/ answer.kind = "err" /\ PipeRequest /\ UNCHANGED <<said, code>>
       \/ answer.kind # "err" /\ PrintActionResult
    /\ UNCHANGED <<vm, cmd, answer, effects, unsaved, ran, fetches, screen, record>>

(* The answer to a command that changes a VM: handle_vm_action, for start,  *)
(* stop and restart; the other three handlers end in the same way.          *)
Report(commands) ==
    /\ pc = "answered" /\ cmd \in commands
    /\ Unanswered \/ (answer.kind # "err" /\ PrintActionResult)
    /\ UNCHANGED <<vm, cmd, answer, effects, unsaved, ran, fetches, screen, record>>

HandleVmAction == Report({"start", "stop", "restart"})
HandleVmCreate == Report({"create"})
HandleVmClone  == Report({"clone"})
HandleVmDelete == Report({"delete"})

(* The answer to a question about VMs: an unreadable body is reported and   *)
(* the exit code is still 0.                                                *)
Show(command) ==
    /\ pc = "answered" /\ cmd = command
    /\ Unanswered \/ (answer.kind # "err"
                        /\ Finish(IF answer.kind = "good" THEN "shown" ELSE "failure"))
    /\ UNCHANGED <<vm, cmd, answer, effects, unsaved, ran, fetches, screen, record>>

HandleVmStatus == Show("status")
HandleVmList   == Show("list")

(* handle_vm_metrics: an unreadable body is an error.                       *)
HandleVmMetrics ==
    /\ pc = "answered" /\ cmd = "metrics"
    /\ CASE answer.kind \in {"err", "garbage"} -> Bail
         [] answer.kind = "status" -> Finish("failure")
         [] answer.kind = "good" -> Finish("shown")
    /\ UNCHANGED <<vm, cmd, answer, effects, unsaved, ran, fetches, screen, record>>

(* handle_vm_export_metrics, which may also fail to write its file.         *)
HandleVmExportMetrics ==
    /\ pc = "answered" /\ cmd = "export"
    /\ CASE answer.kind \in {"err", "garbage"} -> Bail
         [] answer.kind = "status" -> PrintActionResult
         [] answer.kind = "good" -> Finish("shown") \/ Bail
    /\ UNCHANGED <<vm, cmd, answer, effects, unsaved, ran, fetches, screen, record>>

(* handle_vm_serial: a refusal is an error, a broken stream is not.         *)
HandleVmSerial ==
    /\ pc = "answered" /\ cmd = "serial"
    /\ IF answer.kind \in {"err", "status"} THEN Bail ELSE Finish("shown")
    /\ UNCHANGED <<vm, cmd, answer, effects, unsaved, ran, fetches, screen, record>>

(* handle_vm_analyze: the VM's state first, its metrics only if it runs.    *)
ReceiveAnalyzeInfo ==
    /\ pc = "answered" /\ cmd = "analyze"
    /\ CASE answer.kind = "err" -> Bail /\ UNCHANGED cmd
         [] answer.kind \in {"status", "garbage"} -> Finish("failure") /\ UNCHANGED cmd
         [] answer.kind = "good" ->
                IF answer.value = "Running"
                THEN PipeRequest /\ cmd' = "analyze2" /\ UNCHANGED <<said, code>>
                ELSE Finish("failure") /\ UNCHANGED cmd
    /\ UNCHANGED <<vm, answer, effects, unsaved, ran, fetches, screen, record>>

ReceiveAnalyzeMetrics == Show("analyze2")

--------------------------------------------------------------------------
(* The screens that refresh.                                                *)

(* enable_raw_mode, the alternate screen, the terminal: each may fail and   *)
(* none is undone when a later one does.                                    *)
SetUp ==
    /\ pc = "setup" /\ cmd \in {"top", "dashboard"}
    /\ \/ /\ term' = [term EXCEPT !.raw = TRUE, !.alt = TRUE, !.built = TRUE]
          /\ pc' = "loop" /\ UNCHANGED <<said, code>>
       \/ /\ Bail
          /\ term' \in {term, [term EXCEPT !.raw = TRUE], [term EXCEPT !.raw = TRUE, !.alt = TRUE]}
    /\ UNCHANGED <<vm, cmd, answer, effects, unsaved, ran, fetches, view, latest, record>>

(* The tick of either loop.                                                 *)
Tick ==
    /\ pc = "loop" /\ cmd \in {"top", "dashboard"} /\ fetches < MaxFetches
    /\ PipeRequest /\ fetches' = fetches + 1
    /\ UNCHANGED <<vm, cmd, answer, said, code, effects, unsaved, ran, screen, record>>

(* The end of the loop, by a key or, in `vm top', by an error of the loop:   *)
(* the terminal is restored and only then the error passed on.  The first    *)
(* call that fails, disable_raw_mode, LeaveAlternateScreen or, in `vm top',  *)
(* show_cursor, is the error of the command.                                 *)
Cooked == [term EXCEPT !.raw = FALSE]
Restored == [Cooked EXCEPT !.alt = FALSE]

Restore(what, exit) ==
    \/ pc' = "done" /\ said' = what /\ code' = exit /\ term' = Restored
    \/ /\ Bail
       /\ \E left \in {term, Cooked} \cup (IF cmd = "top" THEN {Restored} ELSE {}) :
              term' = [left EXCEPT !.failed = TRUE]

(* q or Esc; in `vm top' also an event that cannot be read.                  *)
Leave ==
    /\ pc = "loop" /\ cmd \in {"top", "dashboard"}
    /\ Restore("shown", 0) \/ (cmd = "top" /\ Restore("error", 1))
    /\ UNCHANGED <<vm, cmd, answer, effects, unsaved, ran, fetches, view, latest, record>>

(* Mutant: a body that cannot be parsed passes in silence.                   *)
Refreshed_IgnoresGarbage(v) ==
    IF answer.kind = "good" THEN [shown |-> answer.value, err |-> FALSE]
    ELSE [v EXCEPT !.err = answer.kind # "garbage"]

(* The fetch in either loop: a value replaces the old one and clears the     *)
(* error, everything else keeps the old value and sets the error.            *)
Refreshed(v) ==
    IF answer.kind = "good" THEN [shown |-> answer.value, err |-> FALSE]
    ELSE [v EXCEPT !.err = TRUE]

ReceiveTop ==
    /\ pc = "answered" /\ cmd = "top"
    /\ latest' = answer
    /\ IF answer.kind = "err"
       THEN Restore("error", 1) /\ UNCHANGED view
       ELSE pc' = "loop" /\ view' = Refreshed(view) /\ UNCHANGED <<said, code, term>>
    /\ UNCHANGED <<vm, cmd, answer, effects, unsaved, ran, fetches, record>>

ReceiveDashboard ==
    /\ pc = "answered" /\ cmd = "dashboard"
    /\ latest' = answer
    /\ pc' = "loop" /\ view' = Refreshed(view)
    /\ UNCHANGED <<vm, cmd, answer, said, code, effects, unsaved, ran, fetches, term, record>>

(* draw_vm_top_ui shows the error instead of the numbers; the dashboard's    *)
(* drawing shows it above the table.                                         *)
DrawVmTopUi == IF view.err THEN [error |-> TRUE, value |-> None]
               ELSE [error |-> FALSE, value |-> view.shown]
DrawDashboard == [error |-> view.err, value |-> view.shown]

(* The tables of `vm metrics': color_for_pct, make_bar, and the rows.         *)
ColorForPct(part, whole) ==
    IF Exceeds(part, whole, 90) THEN "Red"
    ELSE IF Exceeds(part, whole, 75) THEN "Yellow" ELSE "Green"

MakeBar(part, whole, width) ==
    IF whole = 0 THEN 0 ELSE Least((part * width * 2 + whole) \div (2 * whole), width)

(* Memory is cut to whole MiB before the quotient.                           *)
FormatMetricsSnapshot(s) ==
    LET used_mib == s.memory.used \div MiB
        total_mib == s.memory.total \div MiB
    IN
    [cpu |-> [bar |-> MakeBar(s.cpu, 100, 15), color |-> ColorForPct(s.cpu, 100)],
     memory |-> [bar |-> MakeBar(used_mib, total_mib, 15),
                 color |-> ColorForPct(used_mib, total_mib)],
     disks |-> [n \in DOMAIN s.disks |->
                  [s.disks[n] EXCEPT !.read_bytes = @ \div 1024, !.write_bytes = @ \div 1024]],
     networks |-> [n \in DOMAIN s.networks |->
                  [s.networks[n] EXCEPT !.rx_bytes = @ \div 1024, !.tx_bytes = @ \div 1024]],
     processes |-> [k \in DOMAIN s.processes |-> ColorForPct(s.processes[k], 100)]]

--------------------------------------------------------------------------
(* The recording and its timeline.  A line holds the pieces that were       *)
(* written before its end: snapshots, or a part of one, which may end       *)
(* within a character (a process or an interface has any name).             *)

Half == -1
Torn == -2
Appended(f, piece, ended) ==
    IF f = <<>> \/ f[Len(f)].ended
    THEN Append(f, [pieces |-> <<piece>>, ended |-> ended])
    ELSE [f EXCEPT ![Len(f)] = [pieces |-> Append(@.pieces, piece), ended |-> ended]]

(* serde_json::from_str of a line: one whole snapshot and nothing else.      *)
Parses(line) == Len(line.pieces) = 1 /\ line.pieces[1] \notin {Half, Torn}

(* reader.lines(): what is not UTF-8 is an error and no line.                *)
Decodes(line) == Torn \notin ToSet(line.pieces)

(* The head of handle_vm_record: the file is there from now on, whatever     *)
(* becomes of the handler of Ctrl-C.                                         *)
OpenRecording ==
    /\ pc = "setup" /\ cmd = "record"
    /\ \/ created' = TRUE /\ pc' = "loop" /\ UNCHANGED <<said, code>>
       \/ created' \in {created, TRUE} /\ Bail
    /\ UNCHANGED <<vm, cmd, answer, effects, unsaved, ran, fetches, screen,
                   file, samples, recorded, broken, rows>>

(* The head of handle_vm_record's loop: Ctrl-C, the duration, the next tick. *)
RecordLoop ==
    /\ pc = "loop" /\ cmd = "record"
    /\ \/ fetches < MaxFetches /\ PipeRequest /\ fetches' = fetches + 1
          /\ UNCHANGED <<said, code>>
       \/ Finish("shown") /\ UNCHANGED fetches
    /\ UNCHANGED <<vm, cmd, answer, effects, unsaved, ran, screen, record>>

(* An answer of the daemon becomes a line.  write_all may fail with part of  *)
(* the line, or all of it but its end, in the file.                          *)
ReceiveRecord ==
    /\ pc = "answered" /\ cmd = "record"
    /\ CASE answer.kind \in {"err", "garbage"} ->
                Bail /\ UNCHANGED <<file, samples, recorded, broken>>
         [] answer.kind = "status" ->
                Finish("failure") /\ UNCHANGED <<file, samples, recorded, broken>>
         [] answer.kind = "good" ->
                /\ Len(recorded) < MaxLines
                /\ recorded' = Append(recorded, answer.value)
                /\ \/ /\ file' = Appended(file, answer.value, TRUE)
                      /\ samples' = samples + 1 /\ pc' = "loop"
                      /\ UNCHANGED <<said, code, broken>>
                   \/ /\ \E piece \in {Half, Torn, answer.value} : file' = Appended(file, piece, FALSE)
                      /\ Bail /\ broken' = TRUE /\ UNCHANGED samples
    /\ UNCHANGED <<vm, cmd, answer, effects, unsaved, ran, fetches, screen, created, rows>>

(* Mutant: the reasons of the first line are never replaced.                  *)
TimelineLine_KeepsReasons(was, line) ==
    IF ~Parses(line) THEN was
    ELSE LET health == AssessHealth(Data[line.pieces[1]])
             added == ToSet(health.reasons) \ ToSet(was.reasons)
             removed == ToSet(was.reasons) \ ToSet(health.reasons)
         IN  [status |-> health.status, reasons |-> was.reasons,
              rows |-> IF was.status # health.status \/ added # {} \/ removed # {}
                       THEN Append(was.rows, [status |-> health.status, added |-> added,
                                              removed |-> removed])
                       ELSE was.rows]

(* One line of handle_vm_timeline: a row when the status or the set of       *)
(* reasons has changed; lines that do not parse are passed over.             *)
NoTimeline == [status |-> "None", reasons |-> <<>>, rows |-> <<>>]

Row(was, health) ==
    [status |-> health.status,
     added |-> ToSet(health.reasons) \ ToSet(was.reasons),
     removed |-> ToSet(was.reasons) \ ToSet(health.reasons)]

TimelineLine(was, line) ==
    IF ~Parses(line) THEN was
    ELSE LET health == AssessHealth(Data[line.pieces[1]])
             row == Row(was, health)
             changed == was.status # health.status
         IN  IF ~changed /\ was.reasons = health.reasons THEN was
             ELSE [status |-> health.status, reasons |-> health.reasons,
                   rows |-> IF changed \/ row.added # {} \/ row.removed # {}
                            THEN Append(was.rows, row) ELSE was.rows]

Timeline(f) == FoldLeft(TimelineLine, NoTimeline, f)

(* The table is printed after the last line: an error on the way, a file     *)
(* that is not there, a read that fails or a line that does not decode,      *)
(* leaves none.  A recording without a line has no transitions.              *)
ShowTimeline ==
    /\ pc = "setup" /\ cmd = "timeline"
    /\ \/ Bail /\ UNCHANGED rows
       \/ /\ created /\ \A k \in DOMAIN file : Decodes(file[k])
          /\ Finish("shown") /\ rows' = Timeline(file).rows
    /\ UNCHANGED <<vm, cmd, answer, effects, unsaved, ran, fetches, screen,
                   created, file, samples, recorded, broken>>

--------------------------------------------------------------------------
(* The terminal as a command finds it.                                      *)
Shell == [raw |-> FALSE, alt |-> FALSE, built |-> FALSE, failed |-> FALSE]

(* run_vm_command: the next command.                                        *)
Invoke ==
    /\ pc \in {"idle", "done"} /\ ran < MaxCommands
    /\ ran' = ran + 1 /\ fetches' = 0 /\ effects' = 0 /\ unsaved' = FALSE /\ samples' = 0
    /\ cmd' \in VmCommand
    /\ pc' = IF cmd' \in {"top", "dashboard", "record", "timeline"} THEN "setup" ELSE "sent"
    /\ said' = "" /\ code' = 0 /\ answer' = NoAnswer
    /\ term' = Shell
    /\ view' = [shown |-> None, err |-> FALSE] /\ latest' = NoAnswer
    /\ UNCHANGED <<vm, created, file, recorded, broken, rows>>

Init ==
    /\ vm \in {"Absent", "Running"} 
    /\ cmd = "" /\ pc = "idle" /\ answer = NoAnswer /\ said = "" /\ code = 0
    /\ effects = 0 /\ unsaved = FALSE /\ ran = 0 /\ fetches = 0
    /\ term = Shell
    /\ view = [shown |-> None, err |-> FALSE] /\ latest = NoAnswer
    /\ created = FALSE /\ file = <<>> /\ samples = 0 /\ recorded = <<>> /\ broken = FALSE /\ rows = <<>>

Receive ==
    \/ HandleVmAction \/ HandleVmCreate \/ HandleVmClone \/ HandleVmDelete
    \/ HandleVmStatus \/ HandleVmList \/ HandleVmMetrics \/ HandleVmExportMetrics
    \/ HandleVmSerial \/ ReceiveAnalyzeInfo \/ ReceiveAnalyzeMetrics
    \/ ReceiveTop \/ ReceiveDashboard \/ ReceiveRecord

Next == Invoke \/ SetUp \/ Tick \/ Leave \/ OpenRecording \/ RecordLoop \/ ShowTimeline
        \/ Serve \/ World \/ Receive

Spec == Init /\ [][Next]_vars

--------------------------------------------------------------------------
(* A command that changes a VM is carried out at most once: exactly once    *)
(* when it reports success, and when it reports a failure not at all, but   *)
(* for a restart, whose refusal comes after the stop, and for a start or a  *)
(* deletion that the daemon has carried out and could not save.  Only an    *)
(* answer that never came leaves exit code 1.                               *)
ActionsReported ==
    /\ effects <= 1
    /\ pc = "done" /\ cmd \in Mutations =>
           /\ said = "success" => effects = 1 /\ ~unsaved
           /\ said = "failure" /\ effects = 1 =>
                  cmd = "restart" \/ (cmd \in SavesAfter /\ unsaved)
           /\ code = 1 <=> answer.kind = "err"

(* A screen without an error on it shows what the last request returned,    *)
(* never an older value.  When `vm top' or the dashboard has ended, by a    *)
(* key or by an error, it has given back the terminal it had set up, or a   *)
(* call that was to give it back has failed and the command reports that.   *)
ScreenIsHonest ==
    /\ cmd \in {"top", "dashboard"} /\ pc = "loop" /\ fetches > 0 =>
           LET drawn == IF cmd = "top" THEN DrawVmTopUi ELSE DrawDashboard
           IN  ~drawn.error => latest.kind = "good" /\ latest.value = drawn.value
    /\ pc = "done" /\ term.built =>
           IF term.failed THEN code = 1 /\ (term.raw => term.alt) ELSE ~term.raw /\ ~term.alt

(* A timeline that is shown tells the story of the recording: its rows are  *)
(* the health of the snapshots that `vm record' was given, in their order,  *)
(* one row per change, less those that an append which failed has spoilt,   *)
(* and all of them when none has failed.  An append torn within a character *)
(* spoils more: from then on the command ends in an error and shows none.   *)
Story(snaps) ==
    LET health == [k \in DOMAIN snaps |->
                      LET h == AssessHealth(Data[snaps[k]])
                      IN  <<h.status, ToSet(h.reasons)>>]
    IN  SelectSeq([k \in DOMAIN health |->
                      IF k > 1 /\ health[k] = health[k - 1] THEN <<>> ELSE health[k]],
                  LAMBDA h : h # <<>>)

Readable == SelectSeq(file, Parses)

Told(told) ==
        LET step(acc, row) == Append(acc, <<row.status,
                IF acc = <<>> THEN row.added
                ELSE (acc[Len(acc)][2] \ row.removed) \cup row.added>>)
        IN  FoldLeft(step, <<>>, told)

Kept(kept) == LET at == SetToSortSeq(kept, LAMBDA a, b : a < b)
              IN  [k \in DOMAIN at |-> recorded[at[k]]]

TimelineReplays ==
    LET read == [k \in DOMAIN Readable |-> Readable[k].pieces[1]]
    IN  /\ cmd = "record" =>
               /\ Told(Timeline(file).rows) = Story(read)
               /\ IF broken THEN \E kept \in SUBSET DOMAIN recorded : read = Kept(kept)
                  ELSE read = recorded
        /\ cmd = "timeline" /\ said = "shown" =>
               /\ Told(rows) = Story(read)
               /\ \A k \in DOMAIN file : Torn \notin ToSet(file[k].pieces)

(* The analyses of a snapshot that was fetched do not contradict each       *)
(* other: the client's insights grade CPU and memory as the health check    *)
(* does, and the colours of its tables as well, but for memory within a MiB *)
(* of a threshold; a critical CPU is a compute-bound workload and trips a   *)
(* rule at the same threshold, advice to shrink a VM is never taken back    *)
(* for the same load, a VM called overprovisioned is advised to shrink, a   *)
(* VM of full marks is not; the busiest process is the one that the         *)
(* insights judge; and a counter that the guest has reset since the         *)
(* snapshot before is no burst of traffic.                                  *)
LevelOf(what, list) ==
    IF \E k \in DOMAIN list : list[k].what = what
    THEN list[CHOOSE k \in DOMAIN list : list[k].what = what].level ELSE "Info"

(* The colour for a level is due a MiB above its threshold at the latest,   *)
(* and no sooner than a MiB below it.                                       *)
ColorWithinMiB(m, color, colors, percent) ==
    m.total > MiB => /\ Exceeds(m.used - MiB, m.total, percent) => color \in colors
                     /\ color \in colors => Exceeds(m.used, m.total - MiB, percent)

GradesAgree(s, insights) ==
    LET level == LevelOf("cpu", AssessHealth(s).reasons)
        cell == FormatMetricsSnapshot(s)
    IN  /\ \A what \in {"cpu", "memory"} :
               LevelOf(what, insights) = LevelOf(what, AssessHealth(s).reasons)
        /\ cell.cpu.color = CASE level = "Critical" -> "Red" [] level = "Warning" -> "Yellow"
                               [] level = "Info" -> "Green"
        /\ level = "Critical" => cell.cpu.bar >= 14
        /\ ColorWithinMiB(s.memory, cell.memory.color, {"Red"}, 90)
        /\ ColorWithinMiB(s.memory, cell.memory.color, {"Red", "Yellow"}, 75)

BusiestIsJudged(s, insights) ==
    (\E k \in DOMAIN s.processes : s.processes[k] > 80)
        => \E k \in DOMAIN insights : insights[k].what = "process"

Settles(s, config) ==
    LET once == RecommendSizing(s, config)
        twice == RecommendSizing(s, once)
    IN  /\ once.ram_mib < config.ram_mib => twice.ram_mib <= once.ram_mib
        /\ once.cpus < config.cpus => twice.cpus <= once.cpus
        /\ Efficiency(s) = 400 => once.cpus >= config.cpus

CriticalIsBusy(s) ==
    LET critical == LevelOf("cpu", AssessHealth(s).reasons) = "Critical"
    IN  /\ critical => ClassifyWorkload(s, NoDiff) = "ComputeBound" /\ Fingerprint(s).cpu >= 9
        /\ critical = Evaluate([target |-> "CpuTotalPct", operator |-> "GreaterThan",
                                threshold |-> 90], s)
        /\ Imbalanced(s) => \E i, j \in DOMAIN s.per_core : s.per_core[i] # s.per_core[j]
        /\ EstimateCarbon(s, 10, 2) >= EstimateCarbon([s EXCEPT !.cpu = 0], 10, 2)

ResetIsNoBurst(s, before) ==
    LET d == Diff(s, before)
    IN  /\ \A n \in DOMAIN d.networks : \A c \in DOMAIN d.networks[n] :
               d.networks[n][c] <= s.networks[n][c]
        /\ IoHeavy(d) => \E n \in DOMAIN d.networks :
               s.networks[n].rx_bytes > before.networks[n].rx_bytes

AnalysesAgree ==
    pc = "done" /\ cmd \in {"analyze2", "metrics", "export"} /\ answer.kind = "good" =>
    LET s == Data[answer.value]
        sizes == {[cpus |-> c, ram_mib |-> r] : c \in {1, 2}, r \in {128, 192, 1024}}
    IN  /\ \A config \in sizes :
              LET insights == AnalyzeVm(config, s)
              IN  /\ GradesAgree(s, insights) /\ BusiestIsJudged(s, insights)
                  /\ Settles(s, config)
                  /\ (s.memory.total <= config.ram_mib * MiB
                        /\ \E k \in DOMAIN insights : insights[k].what = "overprovisioned")
                         => RecommendSizing(s, config).ram_mib < config.ram_mib
        /\ CriticalIsBusy(s)
        /\ \A before \in DOMAIN Data : ResetIsNoBurst(s, Data[before])
============================================================================
