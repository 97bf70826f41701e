-------------------------- MODULE CliClientProofs --------------------------
(***************************************************************************)
(* Proofs about the command line client, for every set of snapshots, every *)
(* daemon (with metrics or without) and every bound: what a command that   *)
(* changes a VM tells the user, and what the screens that refresh show.     *)
(*                                                                          *)
(* Both invariants speak of moments at which the client stands still (the   *)
(* command has ended, the screen waits for its next tick).  The inductive   *)
(* invariant adds what is true on the way there: nothing has been carried   *)
(* out while the request is in flight, which answers the daemon gives to a   *)
(* request it has carried out, and which commands touch the terminal.       *)
(***************************************************************************)
EXTENDS CliClient, TLAPS

Screens == {"top", "dashboard"}

Kinds == {"err", "status", "garbage", "good"}
States == VmStates \cup {"Absent"}
Values == {None} \cup States \cup DOMAIN Data

TypeInv ==
    /\ vm \in States
    /\ cmd \in VmCommand \cup {"", "analyze2"}
    /\ pc \in {"idle", "setup", "loop", "sent", "answered", "done"}
    /\ answer \in [kind : Kinds, value : Values]
    /\ effects \in Nat /\ fetches \in Nat /\ unsaved \in BOOLEAN
    /\ term \in [raw : BOOLEAN, alt : BOOLEAN, built : BOOLEAN, failed : BOOLEAN]
    /\ view \in [shown : Values, err : BOOLEAN]

(* Which commands come to which place.                                      *)
Places ==
    /\ pc = "idle" => cmd = ""
    /\ pc = "setup" => cmd \in Screens \cup {"record", "timeline"}
    /\ pc = "loop" => cmd \in Screens \cup {"record"}

(* A question changes nothing, and a command nothing before it is served.   *)
Untouched == cmd \notin Mutations \/ pc = "sent" => effects = 0

(* What the daemon's answer to a command says of what it did.               *)
AnswerTells ==
    cmd \in Mutations /\ pc \in {"answered", "done"} =>
        /\ effects \in {0, 1}
        /\ answer.kind # "garbage"
        /\ answer.kind = "good" => effects = 1 /\ ~unsaved
        /\ answer.kind = "status" /\ effects = 1 =>
               cmd = "restart" \/ (cmd \in SavesAfter /\ unsaved)

(* What the client makes of that answer.                                    *)
ToldUser ==
    cmd \in Mutations /\ pc = "done" =>
        \/ answer.kind = "err" /\ said = "error" /\ code = 1
        \/ answer.kind = "good" /\ said = "success" /\ code = 0
        \/ answer.kind = "status" /\ said = "failure" /\ code = 0

(* A screen that has fetched shows the last answer or an error.             *)
Fresh ==
    /\ pc = "setup" => fetches = 0
    /\ cmd \in Screens /\ pc = "loop" /\ fetches > 0 /\ ~view.err =>
           latest.kind = "good" /\ latest.value = view.shown

(* Only a screen sets up the terminal.  Until it ends the terminal is its   *)
(* own; then it has given it back, or reports the call that failed.         *)
Terminal ==
    /\ cmd \notin Screens \/ pc = "setup" => ~term.built
    /\ pc = "setup" => ~term.failed
    /\ term.built =>
           IF pc # "done" THEN term.raw /\ term.alt /\ ~term.failed
           ELSE IF term.failed THEN code = 1 /\ (term.raw => term.alt)
           ELSE ~term.raw /\ ~term.alt

Inv == /\ TypeInv /\ Places /\ Untouched /\ AnswerTells /\ ToldUser
       /\ Fresh /\ Terminal

LEMMA InitInv == Init => Inv
<1> SUFFICES ASSUME Init PROVE Inv
  OBVIOUS
<1>1. TypeInv
  BY DEF Init, TypeInv, NoAnswer, Kinds, Values, States, VmStates, Shell
<1>2. QED
  BY <1>1 DEF Init, Shell, Inv, Places, Untouched, AnswerTells, ToldUser, Fresh, Terminal,
              Mutations, Screens

LEMMA OutcomeType == ASSUME TypeInv, NEW c \in Mutations PROVE Outcome(c) \in States
  BY DEF TypeInv, Mutations, Outcome, States, VmStates

(* The answers of the daemon; to a command, what it says depends on whether *)
(* the daemon has accepted it.                                              *)
LEMMA AnswerKinds ==
    ASSUME TypeInv, NEW a \in {NoAnswer} \cup InfoAnswers \cup MetricsAnswers \cup SerialAnswers
    PROVE  a \in [kind : Kinds, value : Values]
<1>1. \/ a = NoAnswer \/ a = Refused \/ a = Garbage
      \/ \E v \in Values : a = Good(v)
  BY DEF TypeInv, InfoAnswers, MetricsAnswers, SerialAnswers, Values
<1>2. QED
  BY <1>1 DEF NoAnswer, Refused, Garbage, Good, Kinds, Values

LEMMA CommandAnswers ==
    ASSUME TypeInv, effects = 0, NEW c \in Mutations, CarryOut(c)
    PROVE  /\ answer' \in [kind : Kinds, value : Values]
           /\ vm' \in States /\ unsaved' \in BOOLEAN
           /\ effects' \in {0, 1}
           /\ answer'.kind # "garbage"
           /\ answer'.kind = "good" => effects' = 1 /\ ~unsaved'
           /\ answer'.kind = "status" /\ effects' = 1 =>
                  c = "restart" \/ (c \in SavesAfter /\ unsaved')
<1>1. answer' \in {NoAnswer, Refused, Good(None)}
  BY DEF CarryOut, Answers
<1>2. answer' \in [kind : Kinds, value : Values] /\ answer'.kind \in {"err", "status", "good"}
  BY <1>1 DEF NoAnswer, Refused, Good, Kinds, Values
<1>3. vm' \in States /\ unsaved' \in BOOLEAN /\ effects' \in {0, 1}
  <2>1. Outcome(c) \in States
    BY OutcomeType
  <2>2. /\ vm' = Outcome(c) \/ vm' = vm
        /\ unsaved' = FALSE \/ unsaved' = TRUE \/ unsaved' = unsaved
        /\ effects' = effects + 1 \/ effects' = effects
    BY Zenon DEF CarryOut
  <2>3. vm \in States /\ unsaved \in BOOLEAN
    BY DEF TypeInv
  <2>4. effects' \in {0, 1}
    BY <2>2
  <2>5. QED
    BY <2>1, <2>2, <2>3, <2>4
<1>4. CASE vm' = Outcome(c) /\ effects' = effects + 1 /\ answer' \in Answers(c) /\ unsaved' = FALSE
  BY <1>2, <1>3, <1>4 DEF Answers, NoAnswer, Refused, Good
<1>5. CASE /\ effects' = effects + 1 /\ c \in SavesAfter
           /\ answer' \in {Refused, NoAnswer} /\ unsaved' = TRUE
  BY <1>2, <1>3, <1>5 DEF NoAnswer, Refused
<1>6. CASE answer' = Refused /\ UNCHANGED <<vm, effects, unsaved>>
  BY <1>2, <1>3, <1>6 DEF Refused
<1>7. QED
  BY <1>4, <1>5, <1>6 DEF CarryOut

LEMMA InvokeInv == Inv /\ Invoke => Inv'
<1> SUFFICES ASSUME Inv, Invoke PROVE Inv'
  OBVIOUS
<1>1. /\ cmd' \in VmCommand /\ effects' = 0 /\ fetches' = 0
      /\ answer' = NoAnswer /\ term' = Shell /\ unsaved' = FALSE
      /\ view' = [shown |-> None, err |-> FALSE] /\ UNCHANGED vm
  BY DEF Invoke
<1>2. \/ cmd' \in Screens \cup {"record", "timeline"} /\ pc' = "setup"
      \/ cmd' \notin Screens \cup {"timeline", "record"} /\ pc' = "sent"
  BY DEF Invoke, Screens
<1>3. TypeInv'
  BY <1>1, <1>2 DEF Inv, TypeInv, NoAnswer, Kinds, Values, Shell
<1>4. QED
  BY <1>1, <1>2, <1>3
     DEF Inv, Shell, Places, Untouched, AnswerTells, ToldUser, Fresh, Terminal, Mutations, Screens

LEMMA ServeInv == Inv /\ Serve => Inv'
<1> SUFFICES ASSUME Inv, Serve PROVE Inv'
  OBVIOUS
<1>1. /\ pc = "sent" /\ pc' = "answered" /\ effects = 0
      /\ UNCHANGED <<cmd, fetches, term, view>>
  BY DEF Serve, Inv, Untouched, screen
<1>2. /\ answer' \in [kind : Kinds, value : Values] /\ vm' \in States
      /\ effects' \in {0, 1} /\ unsaved' \in BOOLEAN
      /\ cmd \notin Mutations => effects' = 0
      /\ cmd \in Mutations =>
            /\ answer'.kind # "garbage"
            /\ answer'.kind = "good" => effects' = 1 /\ ~unsaved'
            /\ answer'.kind = "status" /\ effects' = 1 =>
                   cmd = "restart" \/ (cmd \in SavesAfter /\ unsaved')
  <2>1. TypeInv
    BY DEF Inv
  <2>2. CASE answer' = NoAnswer /\ UNCHANGED <<vm, effects, unsaved>>
    <3>1. answer' \in [kind : Kinds, value : Values] /\ answer'.kind = "err"
      BY <2>2 DEF NoAnswer, Kinds, Values
    <3>2. QED
      BY <1>1, <2>1, <2>2, <3>1 DEF TypeInv
  <2>3. CASE cmd \in Mutations /\ CarryOut(cmd)
    BY <1>1, <2>1, <2>3, CommandAnswers
  <2>4. CASE /\ cmd \notin Mutations /\ UNCHANGED <<vm, effects, unsaved>>
             /\ answer' \in InfoAnswers \cup MetricsAnswers \cup SerialAnswers
    <3>1. answer' \in [kind : Kinds, value : Values]
      BY <2>1, <2>4, AnswerKinds
    <3>2. QED
      BY <1>1, <2>1, <2>4, <3>1 DEF TypeInv
  <2>5. QED
    BY <2>2, <2>3, <2>4 DEF Serve, Mutations
<1>3. TypeInv'
  <2>1. effects' \in Nat
    BY <1>2
  <2>2. QED
    BY <1>1, <1>2, <2>1 DEF Inv, TypeInv
<1>4. QED
  BY <1>1, <1>2, <1>3
     DEF Inv, Places, Untouched, AnswerTells, ToldUser, Fresh, Terminal

LEMMA AnswerKind == Inv => answer.kind \in Kinds
  BY DEF Inv, TypeInv

(* A screen ends: the terminal is given back, as far as that succeeds.      *)
LEMMA RestoreInv ==
    ASSUME Inv, pc \in {"loop", "answered"}, cmd \in Screens, NEW what, NEW exit,
           Restore(what, exit), UNCHANGED <<vm, cmd, answer, effects, unsaved, fetches, view>>
    PROVE  Inv'
<1>1. term \in [raw : BOOLEAN, alt : BOOLEAN, built : BOOLEAN, failed : BOOLEAN]
  BY DEF Inv, TypeInv
<1>2. pc' = "done" /\ term' \in [raw : BOOLEAN, alt : BOOLEAN, built : BOOLEAN, failed : BOOLEAN]
  BY <1>1 DEF Restore, Restored, Cooked, Bail
<1>3. term'.built => IF term'.failed THEN code' = 1 /\ (term'.raw => term'.alt)
                                     ELSE ~term'.raw /\ ~term'.alt
  <2>1. term.built => term.raw /\ term.alt /\ ~term.failed
    BY DEF Inv, Terminal
  <2>2. CASE term' = Restored
    BY <1>1, <2>1, <2>2 DEF Restored, Cooked
  <2>3. CASE /\ code' = 1
             /\ \E left \in {term, Cooked, Restored} : term' = [left EXCEPT !.failed = TRUE]
    BY <1>1, <2>1, <2>3 DEF Restored, Cooked
  <2>4. QED
    BY <2>2, <2>3 DEF Restore, Bail
<1>4. TypeInv'
  BY <1>2 DEF Inv, TypeInv
<1>5. QED
  BY <1>2, <1>3, <1>4
     DEF Inv, Places, Untouched, AnswerTells, ToldUser, Fresh, Terminal, Mutations, Screens

(* The steps that end a command which is no screen, or go on with the       *)
(* analysis: they leave the daemon, the terminal and the screen alone.      *)
LEMMA EndsInv ==
    ASSUME Inv, pc \in {"answered", "setup", "loop"},
           cmd \notin Mutations \cup Screens, cmd' \notin Mutations \cup Screens,
           cmd' \in VmCommand \cup {"", "analyze2"},
           pc' \in {"done", "sent"} \/ (pc' = "loop" /\ cmd' = "record"),
           UNCHANGED <<vm, answer, effects, unsaved, term, view, latest>>, fetches' \in Nat
    PROVE  Inv'
  BY DEF Inv, TypeInv, Places, Untouched, AnswerTells, ToldUser, Fresh, Terminal, Screens

LEMMA ReportInv ==
    ASSUME NEW C \in SUBSET Mutations, Inv, Report(C) PROVE Inv'
<1>1. /\ pc = "answered" /\ pc' = "done" /\ cmd \in Mutations
      /\ UNCHANGED <<vm, cmd, answer, effects, unsaved, fetches, term, view, latest>>
  BY DEF Report, Unanswered, Bail, PrintActionResult, Finish, screen
<1>2. ToldUser'
  <2>1. answer.kind \in {"err", "status", "good"}
    BY <1>1, AnswerKind DEF Inv, AnswerTells, Kinds
  <2>2. QED
    BY <1>1, <2>1 DEF ToldUser, Report, Unanswered, Bail, PrintActionResult, Finish
<1>3. QED
  BY <1>1, <1>2 DEF Inv, TypeInv, Places, Untouched, AnswerTells, Fresh, Terminal,
                    Mutations, Screens

LEMMA ReceiveInv == Inv /\ Receive => Inv'
<1> SUFFICES ASSUME Inv, Receive PROVE Inv'
  OBVIOUS
<1>1. CASE HandleVmAction \/ HandleVmCreate \/ HandleVmClone \/ HandleVmDelete
  BY <1>1, ReportInv DEF HandleVmAction, HandleVmCreate, HandleVmClone, HandleVmDelete, Mutations
<1>2. ASSUME NEW c \in {"status", "list", "analyze2"}, Show(c) PROVE Inv'
  BY <1>2, EndsInv DEF Show, Unanswered, Bail, Finish, screen, Inv, TypeInv, Mutations, Screens
<1>3. CASE HandleVmMetrics \/ HandleVmExportMetrics \/ HandleVmSerial
  <2>1. /\ pc = "answered" /\ pc' = "done" /\ cmd \in {"metrics", "export", "serial"}
        /\ UNCHANGED <<vm, cmd, answer, effects, unsaved, fetches, term, view, latest>>
    BY <1>3, AnswerKind DEF HandleVmMetrics, HandleVmExportMetrics, HandleVmSerial, Bail,
                Finish, PrintActionResult, screen, Kinds
  <2>2. QED
    BY <2>1, EndsInv DEF Inv, TypeInv, Mutations, Screens
<1>4. CASE ReceiveAnalyzeInfo
  <2>1. /\ pc = "answered" /\ cmd = "analyze"
        /\ \/ pc' = "done" /\ cmd' = "analyze"
           \/ pc' = "sent" /\ cmd' = "analyze2"
        /\ UNCHANGED <<vm, answer, effects, unsaved, fetches, term, view, latest>>
    BY <1>4, AnswerKind DEF ReceiveAnalyzeInfo, Bail, Finish, PipeRequest, screen, Kinds
  <2>2. QED
    BY <2>1, EndsInv DEF Inv, TypeInv, Mutations, Screens, VmCommand
<1>5. CASE ReceiveTop \/ ReceiveDashboard
  <2>1. /\ pc = "answered" /\ cmd \in Screens
        /\ UNCHANGED <<vm, cmd, answer, effects, unsaved, fetches>> /\ latest' = answer
        /\ \/ Restore("error", 1) /\ UNCHANGED view
           \/ pc' = "loop" /\ view' = Refreshed(view) /\ UNCHANGED term
    BY <1>5 DEF ReceiveTop, ReceiveDashboard, Screens
  <2>2. CASE Restore("error", 1) /\ UNCHANGED view
    BY <2>1, <2>2, RestoreInv
  <2>3. CASE pc' = "loop" /\ view' = Refreshed(view) /\ UNCHANGED term
    <3>1. view \in [shown : Values, err : BOOLEAN] /\ answer \in [kind : Kinds, value : Values]
      BY DEF Inv, TypeInv
    <3>2. CASE answer.kind = "good"
      <4>1. view' = [shown |-> answer.value, err |-> FALSE] /\ answer.value \in Values
        BY <2>3, <3>1, <3>2 DEF Refreshed
      <4>2. view' \in [shown : Values, err : BOOLEAN] /\ view'.shown = answer.value
        BY <4>1
      <4>3. TypeInv'
        BY <2>1, <2>3, <4>2 DEF Inv, TypeInv
      <4>4. QED
        BY <2>1, <2>3, <3>2, <4>2, <4>3 DEF Inv, Places, Untouched, AnswerTells, ToldUser,
              Fresh, Terminal, Mutations, Screens
    <3>3. CASE answer.kind # "good"
      <4>1. view' = [view EXCEPT !.err = TRUE]
        BY <2>3, <3>3 DEF Refreshed
      <4>2. view' \in [shown : Values, err : BOOLEAN] /\ view'.err
        BY <3>1, <4>1
      <4>3. TypeInv'
        BY <2>1, <2>3, <4>2 DEF Inv, TypeInv
      <4>4. QED
        BY <2>1, <2>3, <4>2, <4>3 DEF Inv, Places, Untouched, AnswerTells, ToldUser,
              Fresh, Terminal, Mutations, Screens
    <3>4. QED
      BY <3>2, <3>3
  <2>4. QED
    BY <2>1, <2>2, <2>3
<1>6. CASE ReceiveRecord
  <2>1. /\ pc = "answered" /\ cmd = "record" /\ pc' \in {"done", "loop"}
        /\ UNCHANGED <<vm, cmd, answer, effects, unsaved, fetches, term, view, latest>>
    BY <1>6, AnswerKind DEF ReceiveRecord, Bail, Finish, screen, Kinds
  <2>2. QED
    BY <2>1, EndsInv DEF Inv, TypeInv, Mutations, Screens, VmCommand
<1>7. QED
  BY <1>1, <1>2, <1>3, <1>4, <1>5, <1>6
     DEF Receive, HandleVmStatus, HandleVmList, ReceiveAnalyzeMetrics

LEMMA StepInv == Inv /\ [Next]_vars => Inv'
<1> SUFFICES ASSUME Inv, [Next]_vars PROVE Inv'
  OBVIOUS
<1>1. CASE SetUp
  <2>1. /\ pc = "setup" /\ cmd \in Screens /\ pc' \in {"loop", "done"}
        /\ UNCHANGED <<vm, cmd, answer, effects, unsaved, fetches, view, latest>>
    BY <1>1 DEF SetUp, Bail, Screens
  <2>2. /\ term' \in [raw : BOOLEAN, alt : BOOLEAN, built : BOOLEAN, failed : BOOLEAN]
        /\ IF pc' = "done" THEN ~term'.built ELSE term'.raw /\ term'.alt /\ ~term'.failed
    <3>1. /\ term \in [raw : BOOLEAN, alt : BOOLEAN, built : BOOLEAN, failed : BOOLEAN]
          /\ ~term.built /\ ~term.failed
      BY <2>1 DEF Inv, TypeInv, Terminal
    <3>2. CASE /\ term' = [term EXCEPT !.raw = TRUE, !.alt = TRUE, !.built = TRUE]
               /\ pc' = "loop"
      BY <3>1, <3>2
    <3>3. CASE /\ pc' = "done"
               /\ term' \in {term, [term EXCEPT !.raw = TRUE],
                             [term EXCEPT !.raw = TRUE, !.alt = TRUE]}
      BY <3>1, <3>3
    <3>4. QED
      BY <1>1, <3>2, <3>3 DEF SetUp, Bail
  <2>3. TypeInv'
    BY <2>1, <2>2 DEF Inv, TypeInv
  <2>4. Fresh'
    <3>1. fetches' = 0
      BY <2>1 DEF Inv, Fresh
    <3>2. QED
      BY <3>1 DEF Fresh
  <2>5. QED
    BY <2>1, <2>2, <2>3, <2>4
       DEF Inv, Places, Untouched, AnswerTells, ToldUser, Terminal, Mutations, Screens
<1>2. CASE Tick
  <2>1. /\ pc = "loop" /\ pc' = "sent" /\ cmd \in Screens /\ fetches' = fetches + 1
        /\ UNCHANGED <<vm, cmd, answer, effects, unsaved, term, view>>
    BY <1>2 DEF Tick, PipeRequest, Screens, screen
  <2>2. fetches' \in Nat
    <3>1. fetches \in Nat
      BY DEF Inv, TypeInv
    <3>2. QED
      BY <2>1, <3>1
  <2>3. TypeInv'
    BY <2>1, <2>2 DEF Inv, TypeInv
  <2>4. QED
    BY <2>1, <2>3
       DEF Inv, Places, Untouched, AnswerTells, ToldUser, Fresh, Terminal, Mutations, Screens
<1>3. CASE Leave
  BY <1>3, RestoreInv DEF Leave, Screens
<1>4. CASE RecordLoop
  <2>1. /\ pc = "loop" /\ cmd = "record" /\ pc' \in {"sent", "done"}
        /\ UNCHANGED <<vm, cmd, answer, effects, unsaved, term, view, latest>> /\ fetches' \in Nat
    BY <1>4 DEF RecordLoop, PipeRequest, Finish, screen, Inv, TypeInv
  <2>2. QED
    BY <2>1, EndsInv DEF Inv, TypeInv, Mutations, Screens, VmCommand
<1>5. CASE OpenRecording
  <2>1. /\ pc = "setup" /\ cmd = "record" /\ pc' \in {"loop", "done"}
        /\ UNCHANGED <<vm, cmd, answer, effects, unsaved, fetches, term, view, latest>>
    BY <1>5 DEF OpenRecording, Bail, screen
  <2>2. QED
    BY <2>1, EndsInv DEF Inv, TypeInv, Mutations, Screens, VmCommand
<1>6. CASE ShowTimeline
  <2>1. /\ pc = "setup" /\ cmd = "timeline" /\ pc' = "done"
        /\ UNCHANGED <<vm, cmd, answer, effects, unsaved, fetches, term, view, latest>>
    BY <1>6 DEF ShowTimeline, Bail, Finish, screen
  <2>2. QED
    BY <2>1, EndsInv DEF Inv, TypeInv, Mutations, Screens, VmCommand
<1>7. CASE World \/ UNCHANGED vars
  <2>1. /\ UNCHANGED <<cmd, pc, answer, said, code, effects, unsaved, fetches>>
        /\ UNCHANGED <<term, view, latest>>
    BY <1>7 DEF World, vars, client, screen
  <2>2. vm' \in States
    BY <1>7 DEF World, vars, Inv, TypeInv, States, VmStates
  <2>3. TypeInv'
    BY <2>1, <2>2 DEF Inv, TypeInv
  <2>4. QED
    BY <2>1, <2>3 DEF Inv, Places, Untouched, AnswerTells, ToldUser, Fresh, Terminal
<1>8. QED
  BY <1>1, <1>2, <1>3, <1>4, <1>5, <1>6, <1>7, InvokeInv, ServeInv, ReceiveInv DEF Next

(* The inductive invariant of the client.                                   *)
THEOREM Invariance == Spec => []Inv
  BY InitInv, StepInv, PTL DEF Spec

(* A command that changes a VM has been carried out at most once: exactly   *)
(* once when the client reports success, not at all when it reports a       *)
(* failure, but for a restart and for a start or a deletion that the daemon *)
(* could not save; and only an answer that never came gives exit code 1     *)
(* (handle_vm_action, handle_vm_create, handle_vm_clone, handle_vm_delete;  *)
(* start_vm and delete_vm of the daemon).                                   *)
THEOREM ActionsReportedHolds == Spec => []ActionsReported
<1>1. Inv => ActionsReported
  <2> SUFFICES ASSUME Inv PROVE ActionsReported
    OBVIOUS
  <2>1. effects <= 1
    <3>1. cmd \in Mutations /\ pc \in {"answered", "done"} => effects <= 1
      BY DEF Inv, AnswerTells
    <3>2. cmd \notin Mutations \/ pc = "sent" => effects <= 1
      BY DEF Inv, Untouched
    <3>3. cmd \in Mutations => pc \in {"sent", "answered", "done"}
      BY DEF Inv, TypeInv, Places, Mutations, Screens
    <3>4. QED
      BY <3>1, <3>2, <3>3
  <2>2. QED
    BY <2>1 DEF Inv, AnswerTells, ToldUser, ActionsReported
<1>2. QED
  BY <1>1, Invariance, PTL

(* `vm top' and the dashboard never show an old value as if it were what    *)
(* the last request returned; a terminal that they have set up is given     *)
(* back when they end, or the call that failed to do so is reported          *)
(* (ReceiveTop, ReceiveDashboard, Restore).                                  *)
THEOREM ScreenIsHonestHolds == Spec => []ScreenIsHonest
<1>1. Inv => ScreenIsHonest
  BY DEF Inv, TypeInv, Fresh, Terminal, Screens, ScreenIsHonest, DrawVmTopUi, DrawDashboard
<1>2. QED
  BY <1>1, Invariance, PTL
============================================================================
