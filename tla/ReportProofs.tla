---------------------------- MODULE ReportProofs ----------------------------
(***************************************************************************)
(* What a report on stdout says of the drive, for every order of answers   *)
(* and failures: theorems about module Gosmart on top of its inductive     *)
(* invariant (module GosmartProofs).                                       *)
(***************************************************************************)
EXTENDS GosmartProofs

-----------------------------------------------------------------------------
(* The invariant.                                                          *)

(* The command c of the handler has been answered and the handler went on. *)
Handled(c) ==
    /\ got[c] \in Answers(platform, fd, c)
    /\ c \in Mandatory => Usable(c, got[c])
    /\ c = "SmartStatus" /\ got[c] = "error" => warned

(* How many commands of the handler are behind it.                         *)
Behind == Len(Handler) - Len(todo)

(* todo is what is left of the handler, in its order.                      *)
OrderInv ==
    wpc = "command" =>
        /\ Len(todo) <= Len(Handler)
        /\ \A i \in 1 .. Len(todo) : todo[i] = Handler[Behind + i]

(* The commands that are no longer in todo have been handled: some of them *)
(* while the handler is at work, all of them from the first piece printed. *)
AnswersInv ==
    /\ wpc = "command" => \A j \in 1 .. Behind : Handled(Handler[j])
    /\ wpc = "print" \/ (wpc \in {"close", "send", "done"} /\ result = "nil")
          => \A j \in 1 .. Len(Handler) : Handled(Handler[j])

ReportInv == OrderInv /\ AnswersInv

-----------------------------------------------------------------------------
(* Lemmas about answers.                                                   *)

(* SMART RETURN STATUS gives a verdict or an error (linux.go:124,          *)
(* windows.go:146).                                                        *)
LEMMA StatusAnswers ==
    ASSUME NEW a, NEW d, a \in Answers(platform, d, "SmartStatus")
    PROVE  a \in {"error", "passed", "failing"}
<1>1. \A r : Verdict(r) \in {"passed", "failing", "error"} \/ r \notin Registers
  BY DEF Verdict, Registers
<1>2. \A r \in LinuxStatusReply :
         SmartStatusLinux(r) \in {"error", "passed", "failing"}
  BY <1>1 DEF LinuxStatusReply, SmartStatusLinux
<1>3. \A r \in WindowsStatusReply :
         SmartStatusWindows(r) \in {"error", "passed", "failing"}
  BY <1>1 DEF WindowsStatusReply, SmartStatusWindows
<1>4. Answers(platform, d, "SmartStatus")
         \in {{"error"}, ATAAnswers(platform, "SmartStatus")}
  BY DEF Answers, ATACommands
<1> QED BY <1>2, <1>3, <1>4 DEF ATAAnswers

(* A sector comes as the drive meant it, damaged, or not at all.           *)
LEMMA SectorAnswers ==
    ASSUME NEW a, NEW d, NEW c \in ATACommands \ {"SmartStatus"},
           a \in Answers(platform, d, c)
    PROVE  a \in {"error", "good", "corrupt"}
<1>1. \A r \in LinuxSectorReply :
         hdioCmdRead(r) \in {"error", "good", "corrupt"}
  BY DEF LinuxSectorReply, hdioCmdRead
<1>2. \A r \in WindowsSectorReply :
         rcvDriveData(r) \in {"error", "good", "corrupt"}
  BY DEF WindowsSectorReply, rcvDriveData
<1>3. Answers(platform, d, c) \in {{"error"}, ATAAnswers(platform, c)}
  BY DEF Answers
<1> QED BY <1>1, <1>2, <1>3 DEF ATAAnswers

(* On Windows a SMART log page is what the controller sent, or an error.   *)
LEMMA WindowsPageAnswers ==
    ASSUME NEW a, NEW d, platform # "linux",
           a \in Answers(platform, d, "SmartLogPage")
    PROVE  a \in {"error", "clean", "warning"}
<1>1. Pages("SmartLogPage") = {"clean", "warning"}
  BY DEF Pages
<1>2. \A r \in WindowsNVMeReply("SmartLogPage") :
         nvmeQuery(r) \in {"error", "clean", "warning"}
  BY <1>1 DEF WindowsNVMeReply, nvmeQuery
<1>3. Answers(platform, d, "SmartLogPage")
         \in {{"error"}, NVMeAnswers(platform, "SmartLogPage")}
  BY DEF Answers, ATACommands
<1> QED BY <1>2, <1>3 DEF NVMeAnswers

-----------------------------------------------------------------------------
(* The steps.                                                              *)

(* A command that has been handled stays so while the handle, the answers  *)
(* and the warning stay.                                                   *)
LEMMA HandledStable ==
    ASSUME NEW c, Handled(c), UNCHANGED <<cmdline, platform, fd, got, warned>>
    PROVE  Handled(c)'
<1>1. Mandatory' = Mandatory
  BY ModeStable DEF Mandatory
<1> QED BY <1>1 DEF Handled, Usable

(* Steps that change neither the handler's control nor what it knows.      *)
LEMMA ReportUntouched ==
    ASSUME ReportInv,
           UNCHANGED <<cmdline, platform, wpc, fd, nvmeDev, todo, got, warned,
                       result>>
    PROVE  ReportInv'
<1>1. Handler' = Handler /\ Behind' = Behind
  BY HandlerStable DEF Behind
<1>2. OrderInv'
  BY <1>1 DEF ReportInv, OrderInv
<1>3. AnswersInv'
  BY <1>1, HandledStable DEF ReportInv, AnswersInv
<1> QED BY <1>2, <1>3 DEF ReportInv

(* Steps after which there is nothing to say of any answer.                *)
LEMMA NothingToReport ==
    ASSUME wpc' \in {"idle", "detect", "query", "open", "close", "send", "done"},
           result' # "nil" \/ wpc' \in {"idle", "detect", "query", "open"}
    PROVE  ReportInv'
BY DEF ReportInv, OrderInv, AnswersInv

(* The handler's next command is the first of todo.                        *)
LEMMA NextCommand ==
    ASSUME IInv, ReportInv, wpc = "command", todo # <<>>
    PROVE  /\ Behind \in Nat /\ Behind + 1 \in 1 .. Len(Handler)
           /\ Head(todo) = Handler[Behind + 1]
           /\ Head(todo) \in Commands
<1>1. todo \in Seq(Commands) /\ Handler \in Seq(Commands)
  BY HandlerType DEF IInv, TypeOK
<1>2. Len(todo) \in Nat /\ Len(Handler) \in Nat /\ Len(todo) > 0
  BY <1>1
<1>3. Head(todo) = todo[1] /\ todo[1] \in Commands
  BY <1>1, <1>2
<1> QED BY <1>2, <1>3 DEF ReportInv, OrderInv, Behind

(* One more answer.                                                        *)
LEMMA AnswerStep ==
    ASSUME IInv, ReportInv, NEW a \in AnswerSet, CommandDone(a)
    PROVE  ReportInv'
<1> DEFINE c == Head(todo)
<1>1. /\ wpc = "command" /\ wpc' = "command" /\ todo # <<>>
      /\ UNCHANGED <<cmdline, platform, fd, nvmeDev>>
      /\ todo' = Tail(todo) /\ got' = [got EXCEPT ![c] = a]
      /\ a \in Answers(platform, fd, c)
      /\ c \in Mandatory => Usable(c, a)
      /\ warned' = (warned \/ (c = "SmartStatus" /\ a = "error"))
  BY DEF CommandDone, Returns, At, inputVars, deviceVars
<1>2. /\ Behind \in Nat /\ Behind + 1 \in 1 .. Len(Handler)
      /\ c = Handler[Behind + 1] /\ c \in Commands
  BY <1>1, NextCommand
<1>3. Handler' = Handler /\ Mandatory' = Mandatory
  BY <1>1, HandlerStable, ModeStable DEF Mandatory
<1>4. /\ Len(todo') = Len(todo) - 1 /\ Len(todo) \in Nat
      /\ Len(Handler) \in Nat
      /\ \A i \in 1 .. Len(todo') : todo'[i] = todo[i + 1]
  <2>1. todo \in Seq(Commands) /\ Handler \in Seq(Commands)
    BY HandlerType DEF IInv, TypeOK
  <2> QED BY <1>1, <2>1
<1>5. Behind' = Behind + 1
  BY <1>3, <1>4 DEF Behind
<1>6. OrderInv'
  <2>1. Len(todo') <= Len(Handler')
    BY <1>1, <1>3, <1>4 DEF ReportInv, OrderInv
  <2>2. ASSUME NEW i \in 1 .. Len(todo')
        PROVE  todo'[i] = Handler'[Behind' + i]
    <3>1. i + 1 \in 1 .. Len(todo) /\ todo'[i] = todo[i + 1]
      BY <1>4
    <3>2. todo[i + 1] = Handler[Behind + (i + 1)]
      BY <1>1, <3>1 DEF ReportInv, OrderInv
    <3>3. Behind' + i = Behind + (i + 1)
      BY <1>2, <1>5
    <3> QED BY <1>3, <3>1, <3>2, <3>3
  <2> QED BY <2>1, <2>2 DEF OrderInv
<1>7. got'[c] = a /\ \A d \in Commands \ {c} : got'[d] = got[d]
  BY <1>1, <1>2 DEF IInv, TypeOK
<1>8. ASSUME NEW j \in 1 .. Behind'
      PROVE  Handled(Handler[j])'
  <2> DEFINE d == Handler[j]
  <2>0. d \in Commands
    BY <1>2, <1>5, HandlerType
  <2>1. CASE d = c
    <3>1. got'[d] = a /\ platform' = platform /\ fd' = fd
      BY <1>1, <1>7, <2>1
    <3>2. d = "SmartStatus" /\ a = "error" => warned'
      BY <1>1, <2>1
    <3> QED BY <1>1, <1>3, <2>1, <3>1, <3>2 DEF Handled, Usable
  <2>2. CASE d # c
    <3>1. j \in 1 .. Behind
      BY <1>2, <1>5, <2>2
    <3>2. Handled(d)
      BY <1>1, <3>1 DEF ReportInv, AnswersInv
    <3>3. got'[d] = got[d] /\ platform' = platform /\ fd' = fd
      BY <1>1, <1>7, <2>0, <2>2
    <3>4. warned => warned'
      BY <1>1
    <3> QED BY <1>3, <3>2, <3>3, <3>4 DEF Handled, Usable
  <2> QED BY <2>1, <2>2
<1>9. AnswersInv'
  BY <1>1, <1>3, <1>8 DEF AnswersInv
<1> QED BY <1>6, <1>9 DEF ReportInv

(* Every step of every actor preserves the invariant.                      *)
LEMMA ReportStep ==
    ASSUME IInv, ReportInv, [Next]_vars
    PROVE  ReportInv'
<1> USE DEF inputVars, mainVars, deviceVars, queryVars, outVars
<1>1. CASE \/ FlagExit \/ Usage \/ Arm \/ ReceiveResult \/ SelectTimeout
           \/ Tick \/ Replug \/ PrintPiece \/ UNCHANGED vars
  BY <1>1, ReportUntouched DEF FlagExit, Usage, Arm, ReceiveResult,
       SelectTimeout, Tick, Replug, PrintPiece, vars
<1>2. CASE Spawn \/ IsNVMeLinux \/ IsNVMeOpen \/ IsNVMeQuery
  BY <1>2, NothingToReport DEF Spawn, IsNVMeLinux, IsNVMeOpen, IsNVMeQuery,
       OpensHandle, Fail
<1>3. CASE OpenDevice
  <2>1. CASE Fail
    BY <2>1, NothingToReport DEF Fail
  <2>2. CASE OpensHandle /\ wpc' = "command" /\ todo' = Handler
    <3>1. Handler' = Handler /\ Len(Handler) \in Nat
      BY <1>3, HandlerStable, HandlerType DEF OpenDevice
    <3>2. Behind' = 0
      BY <2>2, <3>1 DEF Behind
    <3>3. OrderInv'
      BY <2>2, <3>1, <3>2 DEF OrderInv
    <3>4. AnswersInv'
      BY <2>2, <3>2 DEF AnswersInv
    <3> QED BY <3>3, <3>4 DEF ReportInv
  <2> QED BY <1>3, <2>1, <2>2 DEF OpenDevice
<1>4. ASSUME NEW a \in AnswerSet, CommandDone(a) \/ CommandFails(a)
      PROVE  ReportInv'
  BY <1>4, AnswerStep, NothingToReport DEF CommandFails, Return
<1>5. CASE FieldNotFound
  BY <1>5, NothingToReport DEF FieldNotFound, Return
<1>6. CASE StartPrinting
  <2>1. /\ wpc = "command" /\ todo = <<>> /\ wpc' = "print"
        /\ UNCHANGED <<cmdline, platform, fd, nvmeDev, got, warned>>
    BY <1>6 DEF StartPrinting, At
  <2>2. Handler' = Handler /\ Len(Handler) \in Nat
    BY <2>1, HandlerStable, HandlerType
  <2>3. Behind = Len(Handler)
    BY <2>1, <2>2 DEF Behind
  <2>4. \A j \in 1 .. Len(Handler) : Handled(Handler[j])
    BY <2>1, <2>3 DEF ReportInv, AnswersInv
  <2>5. AnswersInv'
    BY <2>1, <2>2, <2>4, HandledStable DEF AnswersInv
  <2> QED BY <2>1, <2>5 DEF ReportInv, OrderInv
<1>7. CASE PrintingDone \/ CloseDevice \/ SendResult
  <2>1. /\ wpc \in {"print", "close", "send"}
        /\ wpc' \in {"close", "send", "done"}
        /\ wpc # "print" => result' = result
        /\ UNCHANGED <<cmdline, platform, fd, nvmeDev, got, warned>>
    BY <1>7 DEF PrintingDone, CloseDevice, SendResult, Return, At
  <2>2. Handler' = Handler
    BY <2>1, HandlerStable
  <2>3. AnswersInv'
    BY <2>1, <2>2, HandledStable DEF ReportInv, AnswersInv
  <2> QED BY <2>1, <2>3 DEF ReportInv, OrderInv
<1> QED BY <1>1, <1>2, <1>3, <1>4, <1>5, <1>6, <1>7
         DEF Next, Main, Waiting, Local, Scheduled, Exited

(* The invariant holds in every reachable state.                           *)
THEOREM ReportInvariance == Spec => []ReportInv
<1>1. Init => ReportInv
  BY DEF Init, ReportInv, OrderInv, AnswersInv
<1>2. IInv /\ ReportInv /\ [Next]_vars => ReportInv'
  BY ReportStep
<1> QED BY <1>1, <1>2, Invariance, PTL DEF Spec

-----------------------------------------------------------------------------
(* What a report contains.                                                 *)

Pieces(s) == {s[i] : i \in 1 .. Len(s)}

(* What follows another piece of a report is in it.                        *)
LEMMA PiecesOfJoined ==
    ASSUME NEW S, NEW s \in Seq(S), NEW t \in Seq(S)
    PROVE  Pieces(s \o t) \subseteq Pieces(s) \cup Pieces(t)
<1> SUFFICES ASSUME NEW i \in 1 .. Len(s \o t)
             PROVE  (s \o t)[i] \in Pieces(s) \cup Pieces(t)
  BY DEF Pieces
<1>1. Len(s) \in Nat /\ Len(t) \in Nat /\ Len(s \o t) = Len(s) + Len(t)
  OBVIOUS
<1>2. CASE i <= Len(s)
  <2>1. (s \o t)[i] = s[i] /\ i \in 1 .. Len(s)
    BY <1>1, <1>2
  <2> QED BY <2>1 DEF Pieces
<1>3. CASE i > Len(s)
  <2>1. (s \o t)[i] = t[i - Len(s)] /\ i - Len(s) \in 1 .. Len(t)
    BY <1>1, <1>3
  <2> QED BY <2>1 DEF Pieces
<1> QED BY <1>1, <1>2, <1>3

(* An optional piece is there only if its pointer is not nil.              *)
LEMMA PiecesOfOptional ==
    ASSUME NEW S, NEW p \in S, NEW b \in BOOLEAN
    PROVE  /\ Optional(p, b) \in Seq(S)
           /\ \A q \in Pieces(Optional(p, b)) : q = p /\ b
<1>1. CASE b
  <2>1. Optional(p, b) = <<p>>
    BY <1>1, Zenon DEF Optional
  <2>2. <<p>> \in Seq(S) /\ \A q \in Pieces(<<p>>) : q = p
    BY DEF Pieces
  <2> QED BY <1>1, <2>1, <2>2, Zenon
<1>2. CASE ~b
  <2>1. Optional(p, b) = <<>>
    BY <1>2, Zenon DEF Optional
  <2>2. <<>> \in Seq(S) /\ Pieces(<<>>) = {}
    BY DEF Pieces
  <2> QED BY <2>1, <2>2, Zenon
<1> QED BY <1>1, <1>2

(* The full ATA report (printer/ata.go:25): the verdict follows the status *)
(* and a log has a section only if it was parsed.                          *)
LEMMA PiecesOfATA ==
    /\ "FAILED" \in Pieces(PrintATAAll) => got["SmartStatus"] = "failing"
    /\ "PASSED" \in Pieces(PrintATAAll) => got["SmartStatus"] # "failing"
    /\ "errorLog" \in Pieces(PrintATAAll) => Parsed("ReadErrorLog")
    /\ "selfTestLog" \in Pieces(PrintATAAll) => Parsed("ReadSelfTestLog")
<1> DEFINE v == IF got["SmartStatus"] = "failing" THEN "FAILED" ELSE "PASSED"
           h == <<"header", "info", v, "general", "attributes">>
           e == Optional("errorLog", Parsed("ReadErrorLog"))
           t == Optional("selfTestLog", Parsed("ReadSelfTestLog"))
           l == Optional("selectiveLog", Parsed("ReadSelectiveLog"))
<1>1. \A c : Parsed(c) \in BOOLEAN
  BY DEF Parsed, Usable
<1>2. /\ "errorLog" \in Sections /\ "selfTestLog" \in Sections
      /\ "selectiveLog" \in Sections /\ v \in Sections
  BY DEF Sections
<1>3. /\ h \in Seq(Sections)
      /\ Pieces(h) = {"header", "info", v, "general", "attributes"}
  BY <1>2 DEF Sections, Pieces
<1>4. e \in Seq(Sections) /\ \A q \in Pieces(e) :
                                q = "errorLog" /\ Parsed("ReadErrorLog")
  BY <1>1, <1>2, PiecesOfOptional
<1>5. t \in Seq(Sections) /\ \A q \in Pieces(t) :
                                q = "selfTestLog" /\ Parsed("ReadSelfTestLog")
  BY <1>1, <1>2, PiecesOfOptional
<1>6. l \in Seq(Sections) /\ \A q \in Pieces(l) : q = "selectiveLog"
  BY <1>1, <1>2, PiecesOfOptional
<1>7. PrintATAAll = h \o e \o t \o l
  BY DEF PrintATAAll
<1>8. v \in {"FAILED", "PASSED"} /\ (v = "FAILED" <=> got["SmartStatus"] = "failing")
  OBVIOUS
<1> HIDE DEF h, e, t, l, v
<1>9. Pieces(PrintATAAll) \subseteq
         Pieces(h) \cup Pieces(e) \cup Pieces(t) \cup Pieces(l)
  <2>1. /\ h \o e \in Seq(Sections) /\ h \o e \o t \in Seq(Sections)
        /\ PrintATAAll = (h \o e \o t) \o l
    BY <1>3, <1>4, <1>5, <1>7
  <2>2. Pieces(h \o e) \subseteq Pieces(h) \cup Pieces(e)
    BY <1>3, <1>4, PiecesOfJoined
  <2>3. Pieces((h \o e) \o t) \subseteq Pieces(h \o e) \cup Pieces(t)
    BY <1>5, <2>1, PiecesOfJoined
  <2>4. Pieces((h \o e \o t) \o l) \subseteq Pieces(h \o e \o t) \cup Pieces(l)
    BY <1>6, <2>1, PiecesOfJoined
  <2> QED BY <2>1, <2>2, <2>3, <2>4
<1> QED BY <1>3, <1>4, <1>5, <1>6, <1>8, <1>9

(* The full NVMe report (printer/nvme.go:14): the verdict follows the      *)
(* critical warning of a page that was read.                               *)
LEMMA PiecesOfNVMe ==
    /\ "FAILED" \in Pieces(PrintNVMeAll) =>
          got["SmartLogPage"] = "warning"
    /\ "PASSED" \in Pieces(PrintNVMeAll) =>
          got["SmartLogPage"] # "warning" /\ Parsed("SmartLogPage")
<1> DEFINE v == IF got["SmartLogPage"] = "warning" THEN "FAILED" ELSE "PASSED"
           n == IF got["ErrorLogPage"] = "errors" THEN "errors" ELSE "noErrors"
           h == <<"header", "info">>
<1>1. v \in {"FAILED", "PASSED"} /\ (v = "FAILED" <=> got["SmartLogPage"] = "warning")
  OBVIOUS
<1>2. n \in {"errors", "noErrors"}
  OBVIOUS
<1>3. h \in Seq(Sections) /\ Pieces(h) = {"header", "info"}
  BY DEF Sections, Pieces
<1>4. /\ <<"notAvailable">> \in Seq(Sections)
      /\ Pieces(<<"notAvailable">>) = {"notAvailable"}
  BY DEF Sections, Pieces
<1>5. /\ <<v, "health", n>> \in Seq(Sections)
      /\ Pieces(<<v, "health", n>>) = {v, "health", n}
  BY <1>1, <1>2 DEF Sections, Pieces
<1>6. PrintNVMeAll = h \o (IF ~Parsed("SmartLogPage") THEN <<"notAvailable">>
                           ELSE <<v, "health", n>>)
  BY DEF PrintNVMeAll
<1> HIDE DEF v, n, h
<1>7. CASE Parsed("SmartLogPage")
  <2>1. Pieces(PrintNVMeAll) \subseteq {"header", "info", v, "health", n}
    BY <1>3, <1>5, <1>6, <1>7, PiecesOfJoined
  <2> QED BY <1>1, <1>2, <1>7, <2>1
<1>8. CASE ~Parsed("SmartLogPage")
  <2>1. Pieces(PrintNVMeAll) \subseteq {"header", "info", "notAvailable"}
    BY <1>3, <1>4, <1>6, <1>8, PiecesOfJoined
  <2> QED BY <2>1
<1> QED BY <1>7, <1>8

-----------------------------------------------------------------------------
(* The theorems.                                                           *)

(* From the first piece on, the report is that of the answers and all of   *)
(* the handler's commands have been handled.                               *)
LEMMA PrintedMeansHandled ==
    ASSUME IInv, ReportInv, printed > 0
    PROVE  /\ Written \subseteq Pieces(Report)
           /\ \A j \in 1 .. Len(Handler) : Handled(Handler[j])
<1>1. report = Report /\ printed \in 0 .. Len(report)
  BY DEF IInv, TypeOK, PipelineInv
<1>2. wpc = "print" \/ (wpc \in {"close", "send", "done"} /\ result = "nil")
  BY DEF IInv, TypeOK, PipelineInv
<1>3. Len(report) \in Nat
  BY DEF IInv, TypeOK
<1>4. Written \subseteq Pieces(Report)
  BY <1>1, <1>3 DEF Written, Pieces
<1> QED BY <1>2, <1>4 DEF ReportInv, AnswersInv

(* The verdict of a full report is the drive's own, or PASSED after a      *)
(* warning, whatever commands failed and however often the drive was       *)
(* swapped.                                                                *)
THEOREM VerdictsAreBacked == Spec => []VerdictBacked
<1>1. IInv /\ ReportInv => VerdictBacked
  <2> SUFFICES ASSUME IInv, ReportInv, Mode = "full", printed > 0
               PROVE  VerdictBacked
    <3>1. IInv => printed \in Nat
      BY DEF IInv, TypeOK
    <3>2. printed \in Nat /\ ~(printed > 0) => Written = {}
      BY DEF Written
    <3> QED BY <3>1, <3>2 DEF VerdictBacked
  <2>1. /\ Written \subseteq Pieces(Report)
        /\ \A j \in 1 .. Len(Handler) : Handled(Handler[j])
    BY PrintedMeansHandled
  <2>2. CASE ~nvmeDev
    <3>1. Report = PrintATAAll /\ Handler = runATA
      BY <2>2 DEF Report, Handler, run
    <3>2. Handled("SmartStatus")
      <4>1. 4 \in 1 .. Len(runATA) /\ runATA[4] = "SmartStatus"
        BY DEF runATA
      <4> QED BY <2>1, <3>1, <4>1
    <3>3. got["SmartStatus"] \in {"error", "passed", "failing"}
      BY <3>2, StatusAnswers DEF Handled
    <3> QED BY <2>1, <2>2, <3>1, <3>2, <3>3, PiecesOfATA
             DEF VerdictBacked, Handled
  <2>3. CASE nvmeDev
    <3>1. Report = PrintNVMeAll /\ Handler = runNVMe
      BY <2>3 DEF Report, Handler, run
    <3>2. Handled("SmartLogPage")
      <4>1. 2 \in 1 .. Len(runNVMe) /\ runNVMe[2] = "SmartLogPage"
        BY DEF runNVMe
      <4> QED BY <2>1, <3>1, <4>1
    <3>3. platform = "windows" =>
             got["SmartLogPage"] \in {"error", "clean", "warning"}
      BY <3>2, WindowsPageAnswers DEF Handled
    <3>4. Parsed("SmartLogPage") => got["SmartLogPage"] # "error"
      BY DEF Parsed, Usable
    <3> QED BY <2>1, <2>3, <3>1, <3>3, <3>4, PiecesOfNVMe DEF VerdictBacked
  <2> QED BY <2>2, <2>3
<1> QED BY <1>1, Invariance, ReportInvariance, PTL

(* A parser that guards its sector does so on every path to stdout.        *)
THEOREM SectionsAreBacked == Spec => []SectionsBacked
<1>1. IInv /\ ReportInv => SectionsBacked
  <2> SUFFICES ASSUME IInv, ReportInv, printed > 0, ~nvmeDev
               PROVE  SectionsBacked
    BY DEF SectionsBacked
  <2>1. /\ Written \subseteq Pieces(Report)
        /\ \A j \in 1 .. Len(Handler) : Handled(Handler[j])
    BY PrintedMeansHandled
  <2>2. ASSUME NEW c \in ATACommands \ {"SmartStatus"}, Handled(c),
               c \in Checksummed, Parsed(c)
        PROVE  got[c] = "good"
    <3>1. got[c] \in {"error", "good", "corrupt"}
      BY <2>2, SectorAnswers DEF Handled
    <3> QED BY <2>2, <3>1 DEF Parsed, Usable
  <2>3. /\ {"SmartReadData", "SmartReadThresholds", "ReadErrorLog",
            "ReadSelfTestLog"} \subseteq ATACommands \ {"SmartStatus"}
        /\ {"SmartReadData", "SmartReadThresholds", "ReadErrorLog",
            "ReadSelfTestLog"} \subseteq Checksummed
    BY DEF ATACommands, Checksummed
  <2>4. CASE Mode = "full"
    <3>1. Report = PrintATAAll /\ Handler = runATA
      BY <2>4 DEF Report, Handler, run
    <3>2. /\ Handled("SmartReadData") /\ Handled("SmartReadThresholds")
          /\ Handled("ReadErrorLog") /\ Handled("ReadSelfTestLog")
      <4>1. /\ Len(runATA) = 7
            /\ runATA[2] = "SmartReadData" /\ runATA[3] = "SmartReadThresholds"
            /\ runATA[5] = "ReadErrorLog" /\ runATA[6] = "ReadSelfTestLog"
        BY DEF runATA
      <4> QED BY <2>1, <3>1, <4>1
    <3>3. Parsed("SmartReadData") /\ Parsed("SmartReadThresholds")
      BY <2>4, <3>2 DEF Handled, Mandatory, Parsed
    <3>4. got["SmartReadData"] = "good" /\ got["SmartReadThresholds"] = "good"
      BY <2>2, <2>3, <3>2, <3>3
    <3>5. /\ "errorLog" \in Written => got["ReadErrorLog"] = "good"
          /\ "selfTestLog" \in Written => got["ReadSelfTestLog"] = "good"
      BY <2>1, <2>2, <2>3, <3>1, <3>2, PiecesOfATA
    <3> QED BY <3>4, <3>5 DEF SectionsBacked
  <2>5. CASE Mode # "full"
    <3>1. Handler = <<"Identify", "SmartReadData">>
      BY <2>5 DEF Handler, runList, runGet, listATA, getATA
    <3>2. Handled("SmartReadData") /\ Parsed("SmartReadData")
      BY <2>1, <2>5, <3>1 DEF Handled, Mandatory, Parsed
    <3>3. got["SmartReadData"] = "good"
      BY <2>2, <2>3, <3>2
    <3> QED BY <2>5, <3>3 DEF SectionsBacked
  <2> QED BY <2>4, <2>5
<1> QED BY <1>1, Invariance, ReportInvariance, PTL

=============================================================================
