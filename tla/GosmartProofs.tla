--------------------------- MODULE GosmartProofs ----------------------------
(***************************************************************************)
(* Theorems about module Gosmart, for every value of its constants.        *)
(***************************************************************************)
EXTENDS Gosmart, TLAPS

-----------------------------------------------------------------------------
(* The inductive invariant.                                                *)

(* What the worker has produced, by its label: nothing before it prints,   *)
(* the report of its answers while and after it prints, or an error and no *)
(* output.                                                                 *)
PipelineInv ==
    /\ wpc \in {"idle", "detect", "query", "open", "command"} =>
          result = "none" /\ report = <<>> /\ printed = 0
    /\ wpc = "print" => result = "none" /\ report = Report
    /\ wpc \in {"close", "send", "done"} =>
          \/ result = "error" /\ report = <<>> /\ printed = 0
          \/ result = "nil" /\ report = Report /\ printed = Len(report)

(* A handle is open exactly between an open and its deferred close.        *)
HandleInv ==
    handles = IF wpc \in {"query", "command", "print", "close"} THEN 1 ELSE 0

(* errCh is filled once, by the worker's last step, with what fn returned. *)
ChannelInv ==
    /\ wpc # "done" => errCh = <<>>
    /\ errCh # <<>> => errCh = <<result>>

(* The main goroutine against the worker.                                  *)
MainInv ==
    /\ mainPc = "exit" <=> exitCode # Running
    /\ mainPc = "parse" => wpc = "idle"
    /\ mainPc \in {"arm", "receive", "select"} =>
          cmdline.flags = "ok" /\ Mode # "usage"
    /\ mainPc = "receive" => cmdline.timeout = 0
    /\ mainPc = "select" => cmdline.timeout # 0
    /\ cmdline.flags # "ok" \/ Mode = "usage" => wpc = "idle"
    /\ exitCode \in {0, 1} /\ cmdline.flags = "ok" /\ Mode # "usage" =>
          wpc = "done" /\ result = IF exitCode = 0 THEN "nil" ELSE "error"
    /\ cmdline.flags = "ok" /\ Mode = "usage" => exitCode \in {Running, 1}
    /\ exitCode = exitTimeout /\ cmdline.flags = "ok" => cmdline.timeout # 0

(* The clock and the timer move together.                                  *)
TimerInv ==
    /\ mainPc \in {"parse", "arm"} => elapsed = 0
    /\ mainPc = "select" => elapsed + timer = Duration(cmdline.timeout)
    /\ exitCode = exitTimeout /\ cmdline.flags = "ok" =>
          elapsed + timer = Duration(cmdline.timeout) /\ timer <= 0

(* The first command of every handler is mandatory and only a drive of the *)
(* handler's kind answers it.                                              *)
KindInv ==
    /\ wpc = "command" =>
          todo = Handler \/ fd = (IF nvmeDev THEN "NVMe" ELSE "ATA")
    /\ wpc = "print" \/ (wpc \in {"close", "send", "done"} /\ result = "nil") =>
          fd = IF nvmeDev THEN "NVMe" ELSE "ATA"

IInv == /\ TypeOK /\ PipelineInv /\ HandleInv /\ ChannelInv /\ MainInv
        /\ TimerInv /\ KindInv

-----------------------------------------------------------------------------
(* Lemmas about the operators.                                             *)

(* Converting a duration in range changes nothing.                         *)
LEMMA WrapIdentity ==
    ASSUME NEW x \in Int, -HalfRange <= x, x < HalfRange
    PROVE  Wrap(x) = x
<1> DEFINE h == HalfRange
           y == x + h
<1>1. h \in Nat \ {0} /\ y \in 0 .. (2 * h - 1)
  BY RangeAssumption
<1>2. y % (2 * h) = y
  BY <1>1, SMT
<1> QED BY <1>1, <1>2 DEF Wrap

(* Every duration is an integer.                                           *)
LEMMA DurationType ==
    ASSUME NEW t \in Int
    PROVE  Duration(t) \in Int
BY SecondAssumption, RangeAssumption DEF Duration, Wrap

(* The limit on the command line is an integer.                            *)
LEMMA TimeoutType ==
    ASSUME TypeOK
    PROVE  cmdline.timeout \in Int
<1>1. cmdline.timeout \in Timeouts
  BY DEF TypeOK, CommandLines
<1>2. Timeouts \subseteq Int
  BY RangeAssumption
<1> QED BY <1>1, <1>2

(* Every report is a sequence of sections and names.                       *)
LEMMA ReportType ==
    ASSUME TypeOK
    PROVE  Report \in Seq(Names \cup Sections \cup {NoField})
<1> DEFINE S == Names \cup Sections \cup {NoField}
<1>1. ASSUME NEW p \in S, NEW b \in BOOLEAN
      PROVE  Optional(p, b) \in Seq(S)
  <2>1. <<p>> \in Seq(S) /\ <<>> \in Seq(S)
    BY <1>1
  <2>2. Optional(p, b) = <<p>> \/ Optional(p, b) = <<>>
    BY Zenon DEF Optional
  <2> QED BY <2>1, <2>2
<1>2. PrintATAAll \in Seq(S)
  <2>1. \A b \in BOOLEAN : /\ Optional("errorLog", b) \in Seq(S)
                           /\ Optional("selfTestLog", b) \in Seq(S)
                           /\ Optional("selectiveLog", b) \in Seq(S)
    BY <1>1 DEF Sections
  <2>2. \A c : Parsed(c) \in BOOLEAN
    BY DEF Parsed, Usable
  <2>3. <<"header", "info",
          IF got["SmartStatus"] = "failing" THEN "FAILED" ELSE "PASSED",
          "general", "attributes">> \in Seq(S)
    BY DEF Sections
  <2> HIDE DEF S
  <2> QED BY <2>1, <2>2, <2>3 DEF PrintATAAll
<1>3. PrintNVMeAll \in Seq(S)
  <2>1. <<"header", "info">> \in Seq(S)
    BY DEF Sections
  <2>2. <<"notAvailable">> \in Seq(S)
    BY DEF Sections
  <2>3. <<IF got["SmartLogPage"] = "warning" THEN "FAILED" ELSE "PASSED",
          "health",
          IF got["ErrorLogPage"] = "errors" THEN "errors" ELSE "noErrors">>
        \in Seq(S)
    BY DEF Sections
  <2> HIDE DEF S
  <2> QED BY <2>1, <2>2, <2>3 DEF PrintNVMeAll
<1>4. FieldTable \in Seq(S)
  BY NamesAssumption DEF FieldTable, TypeOK
<1>5. <<cmdline.field>> \in Seq(S)
  BY DEF TypeOK, CommandLines
<1> QED BY <1>2, <1>3, <1>4, <1>5 DEF Report

-----------------------------------------------------------------------------
(* Stability: what a step leaves alone, it leaves true.                    *)

(* The report is a function of the answers.                                *)
LEMMA ReportStable ==
    ASSUME UNCHANGED <<cmdline, nvmeDev, got, table>>
    PROVE  Report' = Report
BY DEF Report, PrintATAAll, PrintNVMeAll, FieldTable, Parsed, Usable, Mode

(* The mode is a function of the command line.                             *)
LEMMA ModeStable ==
    ASSUME UNCHANGED cmdline
    PROVE  Mode' = Mode
BY DEF Mode

(* The handler is a function of the mode and of the answer of IsNVMe.      *)
LEMMA HandlerStable ==
    ASSUME UNCHANGED <<cmdline, nvmeDev>>
    PROVE  Handler' = Handler
BY DEF Handler, Mode, run, runList, runGet

(* A step of the main goroutine, the clock or the outside world leaves     *)
(* everything the worker has produced as it was.                           *)
LEMMA WorkerUntouched ==
    ASSUME IInv,
           UNCHANGED <<inputVars, wpc, deviceVars, queryVars, outVars, result>>
    PROVE  PipelineInv' /\ HandleInv' /\ KindInv'
<1>1. Report' = Report /\ Handler' = Handler
  BY ReportStable, HandlerStable DEF inputVars, deviceVars, queryVars
<1>2. PipelineInv'
  BY <1>1 DEF IInv, PipelineInv, outVars
<1>3. HandleInv'
  BY DEF IInv, HandleInv, deviceVars
<1>4. KindInv'
  BY <1>1 DEF IInv, KindInv, deviceVars, queryVars
<1> QED BY <1>2, <1>3, <1>4

(* A step of the worker leaves the main goroutine and its timer as they    *)
(* were, and the worker takes no step before it is started or after exit.  *)
LEMMA MainUntouched ==
    ASSUME IInv, UNCHANGED <<inputVars, mainVars>>,
           exitCode = Running, wpc # "idle", wpc' # "idle"
    PROVE  MainInv' /\ TimerInv'
<1>1. Mode' = Mode
  BY ModeStable DEF inputVars
<1>2. MainInv'
  BY <1>1 DEF IInv, MainInv, inputVars, mainVars, Running, exitTimeout
<1>3. TimerInv'
  BY DEF IInv, TimerInv, inputVars, mainVars, Duration, Wrap
<1> QED BY <1>2, <1>3

-----------------------------------------------------------------------------
(* The steps of the main goroutine, the clock and the outside world.       *)

(* main.go:22-79 and the environment preserve the invariant.               *)
LEMMA MainStep ==
    ASSUME IInv, Main \/ Tick \/ Replug
    PROVE  IInv'
<1> USE DEF inputVars, mainVars, deviceVars, queryVars, outVars
<1>m. Mode' = Mode
  BY ModeStable DEF Main, FlagExit, Usage, Spawn, Arm, ReceiveResult,
       SelectTimeout, Tick, Replug
<1>1. CASE FlagExit
  <2>1. TypeOK'
    BY <1>1 DEF IInv, TypeOK, FlagExit, Exit
  <2>2. ChannelInv' /\ MainInv' /\ TimerInv'
    BY <1>1, <1>m DEF IInv, ChannelInv, MainInv, TimerInv, FlagExit, Exit,
         Running, exitTimeout
  <2> QED BY <1>1, <2>1, <2>2, WorkerUntouched DEF FlagExit, IInv
<1>2. CASE Usage
  <2>1. TypeOK'
    BY <1>2 DEF IInv, TypeOK, Usage, Exit
  <2>2. ChannelInv' /\ MainInv' /\ TimerInv'
    BY <1>2, <1>m DEF IInv, ChannelInv, MainInv, TimerInv, Usage, Exit,
         Running, exitTimeout
  <2> QED BY <1>2, <2>1, <2>2, WorkerUntouched DEF Usage, IInv
<1>3. CASE Spawn
  <2>0. mainPc = "parse" /\ wpc = "idle" /\ wpc' = "detect"
    BY <1>3 DEF IInv, MainInv, Spawn
  <2>1. TypeOK'
    BY <1>3 DEF IInv, TypeOK, Spawn
  <2>2. PipelineInv' /\ HandleInv' /\ ChannelInv' /\ KindInv'
    BY <1>3, <2>0 DEF IInv, PipelineInv, HandleInv, ChannelInv, KindInv, Spawn
  <2>3. MainInv' /\ TimerInv'
    BY <1>3, <2>0, <1>m DEF IInv, MainInv, TimerInv, Spawn, Running,
         exitTimeout
  <2> QED BY <2>1, <2>2, <2>3 DEF IInv
<1>4. CASE Arm
  <2>0. Duration(cmdline.timeout) \in Int
    BY TimeoutType, DurationType DEF IInv
  <2>1. TypeOK'
    BY <1>4, <2>0 DEF IInv, TypeOK, Arm
  <2>2. ChannelInv'
    BY <1>4 DEF IInv, ChannelInv, Arm
  <2>3. MainInv'
    BY <1>4, <1>m DEF IInv, MainInv, Arm, Running, exitTimeout
  <2>4. TimerInv'
    <3>1. elapsed = 0
      BY <1>4 DEF IInv, TimerInv, Arm
    <3>2. mainPc' = "select" => elapsed' + timer' = Duration(cmdline.timeout)
      BY <1>4, <2>0, <3>1 DEF Arm
    <3> QED BY <1>4, <3>2 DEF IInv, MainInv, TimerInv, Arm, Running, exitTimeout
  <2> QED BY <1>4, <2>1, <2>2, <2>3, <2>4, WorkerUntouched DEF Arm, IInv
<1>5. CASE ReceiveResult
  <2>0. wpc = "done" /\ errCh = <<result>> /\ Head(errCh) = result
    BY <1>5 DEF IInv, ChannelInv, ReceiveResult
  <2>1. result \in {"nil", "error"} /\ errCh' = <<>>
    BY <1>5, <2>0 DEF IInv, PipelineInv, ReceiveResult
  <2>2. TypeOK'
    BY <1>5, <2>1 DEF IInv, TypeOK, ReceiveResult, Exit
  <2>3. ChannelInv' /\ MainInv' /\ TimerInv'
    BY <1>5, <1>m, <2>0, <2>1 DEF IInv, ChannelInv, MainInv, TimerInv,
         ReceiveResult, Exit, Running, exitTimeout
  <2> QED BY <1>5, <2>2, <2>3, WorkerUntouched DEF ReceiveResult, IInv
<1>6. CASE SelectTimeout
  <2>1. TypeOK'
    BY <1>6 DEF IInv, TypeOK, SelectTimeout, Exit, exitTimeout
  <2>2. ChannelInv' /\ MainInv'
    BY <1>6, <1>m DEF IInv, ChannelInv, MainInv, SelectTimeout, Exit, Running,
         exitTimeout
  <2>3. TimerInv'
    BY <1>6 DEF IInv, TimerInv, SelectTimeout, Exit, Running, exitTimeout
  <2> QED BY <1>6, <2>1, <2>2, <2>3, WorkerUntouched DEF SelectTimeout, IInv
<1>7. CASE Tick
  <2>1. TypeOK'
    BY <1>7 DEF IInv, TypeOK, Tick
  <2>2. ChannelInv' /\ MainInv'
    BY <1>7, <1>m DEF IInv, ChannelInv, MainInv, Tick, Running, exitTimeout
  <2>3. TimerInv'
    BY <1>7 DEF IInv, TypeOK, MainInv, TimerInv, Tick, Running, exitTimeout
  <2> QED BY <1>7, <2>1, <2>2, <2>3, WorkerUntouched DEF Tick, IInv
<1>8. CASE Replug
  <2>1. TypeOK'
    BY <1>8 DEF IInv, TypeOK, Replug
  <2>2. ChannelInv' /\ MainInv' /\ TimerInv'
    BY <1>8, <1>m DEF IInv, ChannelInv, MainInv, TimerInv, Replug
  <2> QED BY <1>8, <2>1, <2>2, WorkerUntouched DEF Replug, IInv
<1> QED BY <1>1, <1>2, <1>3, <1>4, <1>5, <1>6, <1>7, <1>8 DEF Main

-----------------------------------------------------------------------------
(* The steps of the worker.                                                *)

(* A handler is a sequence of commands.                                    *)
LEMMA HandlerType == Handler \in Seq(Commands)
<1> USE DEF Commands, ATACommands, NVMeCommands
<1>1. runATA \in Seq(Commands)
  BY DEF runATA
<1>2. runNVMe \in Seq(Commands)
  BY DEF runNVMe
<1>3. listATA \in Seq(Commands) /\ getATA \in Seq(Commands)
  BY DEF listATA, getATA
<1>4. listNVMe \in Seq(Commands) /\ getNVMe \in Seq(Commands)
  BY DEF listNVMe, getNVMe
<1> HIDE DEF Commands, ATACommands, NVMeCommands
<1> QED BY <1>1, <1>2, <1>3, <1>4 DEF Handler, run, runList, runGet

(* Every handler starts with a mandatory command of its kind.              *)
LEMMA FirstCommand ==
    ASSUME IInv
    PROVE  /\ Handler # <<>>
           /\ Head(Handler) \in Mandatory
           /\ IF nvmeDev THEN Head(Handler) \in NVMeCommands
                         ELSE Head(Handler) \in ATACommands
<1>1. CASE nvmeDev
  <2>1. Handler = IF Mode = "full" THEN runNVMe ELSE <<"SmartLogPage">>
    BY <1>1 DEF Handler, run, runList, runGet, listNVMe, getNVMe
  <2> QED BY <1>1, <2>1 DEF Mandatory, runNVMe, NVMeCommands
<1>2. CASE ~nvmeDev
  <2>1. Handler = IF Mode = "full" THEN runATA
                                   ELSE <<"Identify", "SmartReadData">>
    BY <1>2 DEF Handler, run, runList, runGet, listATA, getATA
  <2> QED BY <1>2, <2>1 DEF Mandatory, runATA, ATACommands
<1> QED BY <1>1, <1>2

(* Only a drive of the right kind gives a usable answer.                   *)
LEMMA UsableMeansSpeaks ==
    ASSUME NEW c, NEW a, a \in Answers(platform, fd, c), Usable(c, a)
    PROVE  /\ c \in ATACommands => fd = "ATA"
           /\ c \in NVMeCommands => fd = "NVMe"
<1>1. Speaks(fd, c)
  BY DEF Answers, Usable
<1>2. ATACommands \cap NVMeCommands = {}
  BY DEF ATACommands, NVMeCommands
<1> QED BY <1>1, <1>2 DEF Speaks

(* The calls into package device preserve the invariant.                   *)
LEMMA WaitingStep ==
    ASSUME IInv, Waiting
    PROVE  IInv'
<1> USE DEF inputVars, mainVars, deviceVars, queryVars, outVars
<1>1. CASE IsNVMeOpen
  <2>0. MainInv' /\ TimerInv'
    BY <1>1, MainUntouched DEF IsNVMeOpen, At, OpensHandle, Fail
  <2>1. TypeOK'
    BY <1>1 DEF IInv, TypeOK, IsNVMeOpen, At, OpensHandle, Fail
  <2>2. PipelineInv' /\ HandleInv' /\ ChannelInv' /\ KindInv'
    BY <1>1 DEF IInv, TypeOK, PipelineInv, HandleInv, ChannelInv, KindInv,
         IsNVMeOpen, At, OpensHandle, Fail
  <2> QED BY <2>0, <2>1, <2>2 DEF IInv
<1>2. CASE IsNVMeQuery
  <2>0. MainInv' /\ TimerInv'
    BY <1>2, MainUntouched DEF IsNVMeQuery, At, Fail
  <2>1. TypeOK'
    <3>1. (fd = "NVMe") \in BOOLEAN
      OBVIOUS
    <3>2. nvmeDev' \in BOOLEAN
      BY <1>2, <3>1, Zenon DEF IInv, TypeOK, IsNVMeQuery
    <3>3. handles' \in Nat
      BY <1>2 DEF IInv, HandleInv, IsNVMeQuery, At
    <3> QED BY <1>2, <3>2, <3>3 DEF IInv, TypeOK, IsNVMeQuery, Fail
  <2>2. PipelineInv' /\ HandleInv' /\ ChannelInv' /\ KindInv'
    BY <1>2 DEF IInv, TypeOK, PipelineInv, HandleInv, ChannelInv, KindInv,
         IsNVMeQuery, At, Fail
  <2> QED BY <2>0, <2>1, <2>2 DEF IInv
<1>3. CASE OpenDevice
  <2>0. MainInv' /\ TimerInv'
    BY <1>3, MainUntouched DEF OpenDevice, At, OpensHandle, Fail
  <2>1. TypeOK'
    BY <1>3, HandlerType DEF IInv, TypeOK, OpenDevice, At, OpensHandle, Fail
  <2>2. PipelineInv' /\ HandleInv' /\ ChannelInv'
    BY <1>3 DEF IInv, TypeOK, PipelineInv, HandleInv, ChannelInv, OpenDevice,
         At, OpensHandle, Fail
  <2>3. Handler' = Handler
    BY <1>3, HandlerStable DEF OpenDevice
  <2>4. KindInv'
    BY <1>3, <2>3 DEF IInv, KindInv, OpenDevice, At, OpensHandle, Fail
  <2> QED BY <2>0, <2>1, <2>2, <2>4 DEF IInv
<1>4. CASE CloseDevice
  <2>0. MainInv' /\ TimerInv'
    BY <1>4, MainUntouched DEF CloseDevice, At
  <2>1. TypeOK'
    BY <1>4 DEF IInv, TypeOK, HandleInv, CloseDevice, At
  <2>2. Report' = Report
    BY <1>4, ReportStable DEF CloseDevice
  <2>3. PipelineInv' /\ HandleInv' /\ ChannelInv' /\ KindInv'
    BY <1>4, <2>2 DEF IInv, PipelineInv, HandleInv, ChannelInv, KindInv,
         CloseDevice, At
  <2> QED BY <2>0, <2>1, <2>3 DEF IInv
<1>5. ASSUME NEW a \in AnswerSet, CommandDone(a)
      PROVE  IInv'
  <2>0. MainInv' /\ TimerInv'
    BY <1>5, MainUntouched DEF CommandDone, Returns, At
  <2>1. Head(todo) \in Commands /\ Tail(todo) \in Seq(Commands)
    BY <1>5 DEF IInv, TypeOK, CommandDone, Returns
  <2>2. /\ got' \in [Commands -> AnswerSet \cup {"none"}]
        /\ todo' \in Seq(Commands) /\ table' \in Seq(Names)
    BY <1>5, <2>1, NamesAssumption DEF IInv, TypeOK, CommandDone, Returns
  <2>3. warned' \in BOOLEAN
    BY <1>5 DEF CommandDone
  <2>4. TypeOK'
    BY <1>5, <2>2, <2>3 DEF IInv, TypeOK, CommandDone
  <2>5. PipelineInv' /\ HandleInv' /\ ChannelInv'
    BY <1>5 DEF IInv, PipelineInv, HandleInv, ChannelInv, CommandDone,
         Returns, At
  <2>6. KindInv'
    <3>1. todo = Handler => fd = IF nvmeDev THEN "NVMe" ELSE "ATA"
      BY <1>5, FirstCommand, UsableMeansSpeaks DEF CommandDone, Returns
    <3> QED BY <1>5, <3>1 DEF IInv, KindInv, CommandDone, Returns, At
  <2> QED BY <2>0, <2>4, <2>5, <2>6 DEF IInv
<1>6. ASSUME NEW a \in AnswerSet, CommandFails(a)
      PROVE  IInv'
  <2>0. MainInv' /\ TimerInv'
    BY <1>6, MainUntouched DEF CommandFails, Returns, Return, At
  <2>1. got' \in [Commands -> AnswerSet \cup {"none"}]
    BY <1>6 DEF IInv, TypeOK, CommandFails, Returns
  <2>2. TypeOK'
    BY <1>6, <2>1 DEF IInv, TypeOK, CommandFails, Return
  <2>3. PipelineInv' /\ HandleInv' /\ ChannelInv' /\ KindInv'
    BY <1>6 DEF IInv, PipelineInv, HandleInv, ChannelInv, KindInv,
         CommandFails, Returns, Return, At
  <2> QED BY <2>0, <2>2, <2>3 DEF IInv
<1> QED BY <1>1, <1>2, <1>3, <1>4, <1>5, <1>6 DEF Waiting

(* The rest of the worker preserves the invariant.                         *)
LEMMA LocalStep ==
    ASSUME IInv, Local
    PROVE  IInv'
<1> USE DEF inputVars, mainVars, deviceVars, queryVars, outVars
<1>1. CASE IsNVMeLinux
  <2>0. MainInv' /\ TimerInv'
    BY <1>1, MainUntouched DEF IsNVMeLinux, At
  <2>1. cmdline.nvmePath \in BOOLEAN
    BY DEF IInv, TypeOK, CommandLines
  <2>2. TypeOK'
    BY <1>1, <2>1 DEF IInv, TypeOK, IsNVMeLinux
  <2>3. PipelineInv' /\ HandleInv' /\ ChannelInv' /\ KindInv'
    BY <1>1 DEF IInv, PipelineInv, HandleInv, ChannelInv, KindInv,
         IsNVMeLinux, At
  <2> QED BY <2>0, <2>2, <2>3 DEF IInv
<1>2. CASE StartPrinting
  <2>0. MainInv' /\ TimerInv'
    BY <1>2, MainUntouched DEF StartPrinting, At
  <2>1. report' \in Seq(Names \cup Sections \cup {NoField})
        /\ printed' = 0 /\ Len(report') \in Nat
    BY <1>2, ReportType DEF IInv, PipelineInv, StartPrinting, At
  <2>2. TypeOK'
    BY <1>2, <2>1 DEF IInv, TypeOK, StartPrinting
  <2>3. Report' = Report
    BY <1>2, ReportStable DEF StartPrinting
  <2>4. PipelineInv' /\ HandleInv' /\ ChannelInv'
    BY <1>2, <2>3 DEF IInv, PipelineInv, HandleInv, ChannelInv,
         StartPrinting, At
  <2>5. KindInv'
    BY <1>2, FirstCommand DEF IInv, KindInv, StartPrinting, At
  <2> QED BY <2>0, <2>2, <2>4, <2>5 DEF IInv
<1>3. CASE FieldNotFound
  <2>0. MainInv' /\ TimerInv'
    BY <1>3, MainUntouched DEF FieldNotFound, Return, At
  <2>1. TypeOK'
    BY <1>3 DEF IInv, TypeOK, FieldNotFound, Return
  <2>2. PipelineInv' /\ HandleInv' /\ ChannelInv' /\ KindInv'
    BY <1>3 DEF IInv, PipelineInv, HandleInv, ChannelInv, KindInv,
         FieldNotFound, Return, At
  <2> QED BY <2>0, <2>1, <2>2 DEF IInv
<1>4. CASE PrintPiece
  <2>0. MainInv' /\ TimerInv'
    BY <1>4, MainUntouched DEF PrintPiece, At
  <2>1. TypeOK'
    BY <1>4 DEF IInv, TypeOK, PrintPiece
  <2>2. Report' = Report
    BY <1>4, ReportStable DEF PrintPiece
  <2>3. PipelineInv' /\ HandleInv' /\ ChannelInv' /\ KindInv'
    BY <1>4, <2>2 DEF IInv, PipelineInv, HandleInv, ChannelInv, KindInv,
         PrintPiece, At
  <2> QED BY <2>0, <2>1, <2>3 DEF IInv
<1>5. CASE PrintingDone
  <2>0. MainInv' /\ TimerInv'
    BY <1>5, MainUntouched DEF PrintingDone, Return, At
  <2>1. TypeOK'
    BY <1>5 DEF IInv, TypeOK, PrintingDone, Return
  <2>2. Report' = Report
    BY <1>5, ReportStable DEF PrintingDone
  <2>3. PipelineInv' /\ HandleInv' /\ ChannelInv' /\ KindInv'
    BY <1>5, <2>2 DEF IInv, PipelineInv, HandleInv, ChannelInv, KindInv,
         PrintingDone, Return, At
  <2> QED BY <2>0, <2>1, <2>3 DEF IInv
<1>6. CASE SendResult
  <2>0. MainInv' /\ TimerInv'
    BY <1>6, MainUntouched DEF SendResult, At
  <2>1. errCh' = <<result>> /\ result \in {"nil", "error"}
    BY <1>6 DEF IInv, PipelineInv, ChannelInv, SendResult, At
  <2>2. TypeOK'
    BY <1>6, <2>1 DEF IInv, TypeOK, SendResult
  <2>3. Report' = Report
    BY <1>6, ReportStable DEF SendResult
  <2>4. PipelineInv' /\ HandleInv' /\ ChannelInv' /\ KindInv'
    BY <1>6, <2>1, <2>3 DEF IInv, PipelineInv, HandleInv, ChannelInv, KindInv,
         SendResult, At
  <2> QED BY <2>0, <2>2, <2>4 DEF IInv
<1> QED BY <1>1, <1>2, <1>3, <1>4, <1>5, <1>6 DEF Local, Scheduled

-----------------------------------------------------------------------------
(* The theorems.                                                           *)

(* The invariant holds initially.                                          *)
THEOREM InvInit == Init => IInv
<1> SUFFICES ASSUME Init PROVE IInv
  OBVIOUS
<1>1. TypeOK
  <2>1. cmdline \in CommandLines
    BY DEF Init
  <2>2. got \in [Commands -> AnswerSet \cup {"none"}]
    BY DEF Init
  <2>3. /\ report = <<>> /\ printed = 0 /\ Len(report) = 0
        /\ todo \in Seq(Commands) /\ table \in Seq(Names)
        /\ report \in Seq(Names \cup Sections \cup {NoField})
    BY DEF Init
  <2>4. fd \in Drives /\ plugged \in Drives
    BY DEF Init, Drives
  <2>5. printed \in 0 .. Len(report) /\ timer \in Int /\ elapsed \in Nat
        /\ handles \in Nat
    BY <2>3 DEF Init
  <2>6. /\ platform \in {"linux", "windows"} /\ mainPc = "parse"
        /\ wpc = "idle" /\ result = "none" /\ exitCode = Running
        /\ errCh = <<>> /\ nvmeDev \in BOOLEAN /\ warned \in BOOLEAN
    BY DEF Init
  <2> QED BY <2>1, <2>2, <2>3, <2>4, <2>5, <2>6, Zenon DEF TypeOK
<1>2. PipelineInv /\ HandleInv /\ ChannelInv /\ KindInv
  BY DEF Init, PipelineInv, HandleInv, ChannelInv, KindInv
<1>3. MainInv /\ TimerInv
  BY DEF Init, MainInv, TimerInv, Running, exitTimeout
<1> QED BY <1>1, <1>2, <1>3 DEF IInv

(* Every step of every actor preserves the invariant.                      *)
THEOREM InvStep == IInv /\ [Next]_vars => IInv'
<1> SUFFICES ASSUME IInv, [Next]_vars PROVE IInv'
  OBVIOUS
<1>1. CASE Main \/ Tick \/ Replug
  BY <1>1, MainStep
<1>2. CASE Waiting
  BY <1>2, WaitingStep
<1>3. CASE Local
  BY <1>3, LocalStep
<1>4. CASE UNCHANGED vars
  <2> USE <1>4 DEF vars
  <2>1. PipelineInv' /\ HandleInv' /\ KindInv'
    BY WorkerUntouched DEF inputVars, deviceVars, queryVars, outVars
  <2>2. Mode' = Mode
    BY ModeStable
  <2>3. TypeOK'
    BY DEF IInv, TypeOK
  <2>4. ChannelInv' /\ MainInv' /\ TimerInv'
    BY <2>2 DEF IInv, ChannelInv, MainInv, TimerInv
  <2> QED BY <2>1, <2>3, <2>4 DEF IInv
<1> QED BY <1>1, <1>2, <1>3, <1>4 DEF Next, Exited

(* The invariant holds in every reachable state.                           *)
THEOREM Invariance == Spec => []IInv
BY InvInit, InvStep, PTL DEF Spec

(* Type correctness: in particular errCh never overflows and no printer    *)
(* runs past its report.                                                   *)
THEOREM TypeCorrect == Spec => []TypeOK
<1>1. IInv => TypeOK
  BY DEF IInv
<1> QED BY <1>1, Invariance, PTL

(* Exit code 0 means a complete report, exit code 1 none at all, and both  *)
(* a released device, for every interleaving of worker, clock and drive.   *)
THEOREM ExitCodesCorrect == Spec => []ExitCodeContract
<1>1. IInv => ExitCodeContract
  <2> SUFFICES ASSUME IInv, cmdline.flags = "ok"
               PROVE  /\ exitCode = 0 => /\ result = "nil" /\ handles = 0
                                         /\ report = Report
                                         /\ printed = Len(report)
                      /\ exitCode = 1 => printed = 0 /\ handles = 0
    BY DEF ExitCodeContract
  <2>1. CASE Mode = "usage"
    BY <2>1 DEF IInv, MainInv, PipelineInv, HandleInv, Running
  <2>2. CASE Mode # "usage"
    BY <2>2 DEF IInv, MainInv, PipelineInv, HandleInv
  <2> QED BY <2>1, <2>2
<1> QED BY <1>1, Invariance, PTL

(* Output of a handler implies a drive of its kind, however the drive was  *)
(* swapped between detection and open.                                     *)
THEOREM ReportsMatchDrive == Spec => []ReportMatchesDrive
<1>1. IInv => ReportMatchesDrive
  BY DEF IInv, TypeOK, PipelineInv, KindInv, ReportMatchesDrive
<1> QED BY <1>1, Invariance, PTL

(* No handle outlives fn.                                                  *)
THEOREM HandlesAreReleased == Spec => []HandlesReleased
<1>1. IInv => HandlesReleased
  BY DEF IInv, HandleInv, HandlesReleased
<1> QED BY <1>1, Invariance, PTL

(* No early timeout, for every width of time.Duration and every limit that *)
(* it can represent.                                                       *)
THEOREM TimeoutsNotEarly == Spec => []TimeoutNotEarly
<1>1. IInv => TimeoutNotEarly
  <2> SUFFICES ASSUME IInv, exitCode = exitTimeout, cmdline.flags = "ok",
                      cmdline.timeout * Second < HalfRange
               PROVE  elapsed >= cmdline.timeout * Second
    BY DEF TimeoutNotEarly
  <2> DEFINE t == cmdline.timeout
             d == t * Second
  <2>1. t \in Int /\ d \in Int /\ elapsed \in Nat /\ timer \in Int
    BY TimeoutType, SecondAssumption DEF IInv, TypeOK
  <2>2. elapsed >= Duration(t)
    BY <2>1, DurationType DEF IInv, TimerInv
  <2>3. CASE d >= 0
    <3>1. Duration(t) = d
      BY <2>1, <2>3, WrapIdentity, RangeAssumption DEF Duration
    <3> QED BY <2>2, <3>1
  <2>4. CASE d < 0
    BY <2>1, <2>4
  <2> QED BY <2>1, <2>3, <2>4
<1> QED BY <1>1, Invariance, PTL

-----------------------------------------------------------------------------
(* The refinement of OneShot.                                              *)

(* What was asked for does not change.                                     *)
LEMMA RequestStable ==
    ASSUME UNCHANGED cmdline
    PROVE  RequestKind' = RequestKind
BY ModeStable DEF RequestKind

(* While main waits it is a query that it waits for.                       *)
LEMMA WaitingForQuery ==
    ASSUME IInv, wpc # "idle" \/ mainPc \in {"arm", "receive", "select"}
    PROVE  RequestKind = "query"
BY DEF IInv, MainInv, RequestKind

(* The abstract stdout, by the worker's label.                             *)
LEMMA StdoutByLabel ==
    ASSUME IInv
    PROVE  /\ wpc \in {"idle", "detect", "query", "open", "command"} =>
                 Stdout = "none"
           /\ wpc \in {"close", "send", "done"} =>
                 Stdout = IF result = "nil" THEN "all" ELSE "none"
           /\ wpc = "print" =>
                 Stdout = IF printed = Len(report) THEN "all"
                          ELSE IF printed = 0 THEN "none" ELSE "some"
BY DEF IInv, PipelineInv, Stdout

(* Initial states map to initial states.                                   *)
THEOREM RefinementInit == Init => OneShot!Init
<1> SUFFICES ASSUME Init PROVE OneShot!Init
  OBVIOUS
<1>1. RequestKind \in {"query", "help", "malformed", "wrongArguments"}
  BY DEF RequestKind
<1>2. (cmdline.timeout # 0) \in BOOLEAN
  OBVIOUS
<1>3. Stdout = "none" /\ handles = 0 /\ exitCode = OneShot!NoCode
  BY DEF Init, Stdout, Running, OneShot!NoCode
<1> QED BY <1>1, <1>2, <1>3 DEF OneShot!Init

(* Every step of the main goroutine, the clock or the outside world is the *)
(* abstract exit or none.                                                  *)
LEMMA MainRefines ==
    ASSUME IInv, IInv', Main \/ Tick \/ Replug
    PROVE  [OneShot!Next]_OneShot!vars
<1> USE DEF inputVars, mainVars, deviceVars, queryVars, outVars
<1>c. UNCHANGED cmdline /\ UNCHANGED <<handles, report, printed, result>>
  BY DEF Main, FlagExit, Usage, Spawn, Arm, ReceiveResult, SelectTimeout,
       Tick, Replug
<1>r. RequestKind' = RequestKind
  BY <1>c, RequestStable
<1>1. CASE FlagExit
  <2>1. exitCode = OneShot!NoCode /\ Stdout' = Stdout /\ handles = 0
    BY <1>1 DEF IInv, MainInv, HandleInv, FlagExit, Stdout, OneShot!NoCode,
         Running
  <2>2. CASE cmdline.flags = "bad"
    <3>1. exitCode' = 2 /\ RequestKind = "malformed"
      BY <1>1, <2>2 DEF FlagExit, Exit, RequestKind
    <3> QED BY <1>c, <1>r, <2>1, <3>1 DEF OneShot!Next, OneShot!GiveUp,
              OneShot!Finish, OneShot!Pending
  <2>3. CASE cmdline.flags = "help"
    <3>1. exitCode' = 0 /\ RequestKind = "help"
      BY <1>1, <2>3 DEF FlagExit, Exit, RequestKind
    <3> QED BY <1>c, <1>r, <2>1, <3>1 DEF OneShot!Next, OneShot!Succeed,
              OneShot!Finish, OneShot!Pending
  <2> QED BY <1>1, <2>2, <2>3 DEF FlagExit
<1>2. CASE Usage
  <2>1. exitCode = OneShot!NoCode /\ Stdout' = Stdout /\ handles = 0
    BY <1>2 DEF IInv, MainInv, HandleInv, Usage, Stdout, OneShot!NoCode,
         Running
  <2>2. Stdout = "none" /\ RequestKind = "wrongArguments" /\ exitCode' = 1
    BY <1>2, StdoutByLabel DEF IInv, MainInv, Usage, Exit, RequestKind
  <2> QED BY <1>c, <1>r, <2>1, <2>2 DEF OneShot!Next, OneShot!Refuse,
            OneShot!Finish, OneShot!Pending
<1>3. CASE Spawn \/ Arm \/ Tick \/ Replug
  <2>1. Stdout' = Stdout /\ exitCode' = exitCode
    BY <1>3 DEF IInv, MainInv, Spawn, Arm, Tick, Replug, Stdout
  <2> QED BY <1>c, <1>r, <2>1 DEF OneShot!vars
<1>4. CASE ReceiveResult
  <2>1. wpc = "done" /\ Head(errCh) = result
    BY <1>4 DEF IInv, ChannelInv, ReceiveResult
  <2>2. /\ exitCode = OneShot!NoCode /\ Stdout' = Stdout /\ handles = 0
        /\ exitCode' = IF result = "nil" THEN 0 ELSE 1
    BY <1>4, <2>1 DEF IInv, TypeOK, MainInv, HandleInv, ReceiveResult, Exit,
         Stdout, OneShot!NoCode, Running
  <2>3. RequestKind = "query"
    BY <2>1, WaitingForQuery
  <2>4. Stdout = IF result = "nil" THEN "all" ELSE "none"
    BY <2>1, StdoutByLabel
  <2> QED BY <1>c, <1>r, <2>2, <2>3, <2>4 DEF OneShot!Next, OneShot!Succeed,
            OneShot!Refuse, OneShot!Finish, OneShot!Pending
<1>5. CASE SelectTimeout
  <2>1. /\ exitCode = OneShot!NoCode /\ Stdout' = Stdout /\ exitCode' = 2
        /\ cmdline.timeout # 0
    BY <1>5 DEF IInv, MainInv, SelectTimeout, Exit, exitTimeout, Stdout,
         OneShot!NoCode, Running
  <2>2. RequestKind = "query"
    BY <1>5, WaitingForQuery DEF SelectTimeout
  <2> QED BY <1>c, <1>r, <2>1, <2>2 DEF OneShot!Next, OneShot!GiveUp,
            OneShot!Finish, OneShot!Pending
<1> QED BY <1>1, <1>2, <1>3, <1>4, <1>5 DEF Main

(* Every step of the worker takes or gives back the device, writes, or     *)
(* changes nothing that the abstract specification sees.                   *)
LEMMA WorkerRefines ==
    ASSUME IInv, IInv', Waiting \/ Local
    PROVE  [OneShot!Next]_OneShot!vars
<1> USE DEF inputVars, mainVars, deviceVars, queryVars, outVars
<1>c. UNCHANGED <<cmdline, exitCode>> /\ exitCode = Running /\ wpc # "idle"
  BY DEF Waiting, IsNVMeOpen, IsNVMeQuery, OpenDevice, CloseDevice,
       CommandDone, CommandFails, Returns, Local, Scheduled, IsNVMeLinux, StartPrinting,
       FieldNotFound, PrintPiece, PrintingDone, SendResult, At
<1>r. RequestKind' = RequestKind /\ RequestKind = "query"
  BY <1>c, RequestStable, WaitingForQuery
<1>n. exitCode = OneShot!NoCode
  BY <1>c DEF Running, OneShot!NoCode
<1>s. ASSUME Stdout' = Stdout, handles' = handles
      PROVE  UNCHANGED OneShot!vars
  BY <1>c, <1>r, <1>s DEF OneShot!vars
<1>1. CASE IsNVMeOpen \/ OpenDevice
  <2>1. Stdout = "none" /\ Stdout' = "none"
    BY <1>1, StdoutByLabel DEF IInv, PipelineInv, IsNVMeOpen, OpenDevice,
         OpensHandle, Fail, At, Stdout
  <2>2. handles = 0 /\ handles' \in {0, 1}
    BY <1>1 DEF IInv, HandleInv, IsNVMeOpen, OpenDevice, OpensHandle, Fail, At
  <2>3. CASE handles' = 0
    BY <1>s, <2>1, <2>2, <2>3
  <2>4. CASE handles' = 1
    BY <1>c, <1>r, <1>n, <2>1, <2>2, <2>4 DEF OneShot!Next, OneShot!Acquire,
         OneShot!Pending
  <2> QED BY <2>2, <2>3, <2>4
<1>2. CASE IsNVMeQuery \/ CloseDevice
  <2>1. Stdout' = Stdout /\ Stdout # "some"
    BY <1>2, StdoutByLabel DEF IInv, PipelineInv, IsNVMeQuery, CloseDevice,
         Fail, At, Stdout
  <2>2. handles = 1 /\ handles' = 0
    BY <1>2 DEF IInv, HandleInv, IsNVMeQuery, CloseDevice, At
  <2> QED BY <1>c, <1>r, <1>n, <2>1, <2>2 DEF OneShot!Next, OneShot!Release,
            OneShot!Pending
<1>3. ASSUME NEW a \in AnswerSet, CommandDone(a) \/ CommandFails(a)
      PROVE  UNCHANGED OneShot!vars
  <2>1. Stdout = "none" /\ Stdout' = "none" /\ handles' = handles
    BY <1>3, StdoutByLabel DEF IInv, PipelineInv, CommandDone, CommandFails,
         Returns, Return, At, Stdout
  <2> QED BY <1>s, <2>1
<1>4. CASE IsNVMeLinux \/ FieldNotFound \/ PrintingDone \/ SendResult
  <2>1. handles' = handles
    BY <1>4 DEF IsNVMeLinux, FieldNotFound, PrintingDone, SendResult
  <2>2. Stdout' = Stdout
    BY <1>4 DEF IInv, PipelineInv, IsNVMeLinux, FieldNotFound, PrintingDone,
         SendResult, Return, At, Stdout
  <2> QED BY <1>s, <2>1, <2>2
<1>5. CASE StartPrinting \/ PrintPiece
  <2>1. handles = 1 /\ handles' = 1
    BY <1>5 DEF IInv, HandleInv, StartPrinting, PrintPiece, At
  <2>2. CASE Stdout' = Stdout
    BY <1>s, <2>1, <2>2
  <2>3. CASE Stdout' # Stdout
    <3>1. Stdout # "all" /\ Stdout' \in {"some", "all"}
      BY <1>5, <2>3 DEF IInv, TypeOK, PipelineInv, StartPrinting, PrintPiece,
           At, Stdout
    <3> QED BY <1>c, <1>r, <1>n, <2>1, <3>1 DEF OneShot!Next, OneShot!Write,
              OneShot!Pending
  <2> QED BY <2>2, <2>3
<1> QED BY <1>1, <1>2, <1>3, <1>4, <1>5 DEF Waiting, Local, Scheduled

(* Every step maps to a step of OneShot or to a stuttering step.           *)
THEOREM RefinementStep ==
    IInv /\ IInv' /\ [Next]_vars => [OneShot!Next]_OneShot!vars
<1> SUFFICES ASSUME IInv, IInv', [Next]_vars
             PROVE  [OneShot!Next]_OneShot!vars
  OBVIOUS
<1>1. CASE Main \/ Tick \/ Replug
  BY <1>1, MainRefines
<1>2. CASE Waiting \/ Local
  BY <1>2, WorkerRefines
<1>3. CASE UNCHANGED vars
  <2>1. RequestKind' = RequestKind
    BY <1>3, RequestStable DEF vars
  <2>2. Stdout' = Stdout
    BY <1>3 DEF vars, Stdout
  <2> QED BY <1>3, <2>1, <2>2 DEF vars, OneShot!vars
<1> QED BY <1>1, <1>2, <1>3 DEF Next, Exited

(* The command with its goroutines, its timer and any drive implements the *)
(* one-shot command.                                                       *)
THEOREM Refinement == Spec => ImplementsOneShot
<1>1. Spec => OneShot!Spec
  BY RefinementInit, RefinementStep, Invariance, PTL DEF Spec, OneShot!Spec
<1> QED BY <1>1 DEF ImplementsOneShot

=============================================================================
