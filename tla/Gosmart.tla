------------------------------ MODULE Gosmart -------------------------------
(***************************************************************************)
(* One run of the gosmart command (cmd/gosmart/main.go): the main          *)
(* goroutine parses the command line, starts the query in a goroutine of   *)
(* its own and races its result against time.After; the worker detects the *)
(* kind of the device, opens it, issues its commands one blocking ioctl at *)
(* a time, writes the report to stdout and sends its error to errCh.       *)
(*                                                                         *)
(* The actors that interleave are the main goroutine, the worker, the      *)
(* clock, the drive (which may never answer) and whoever plugs and unplugs *)
(* drives.  os.Exit ends them all: no action is enabled once exitCode is   *)
(* set.                                                                    *)
(***************************************************************************)
EXTENDS Integers, Sequences, Device

CONSTANTS
    Timeouts,   \* values of -t / --timeout that are tried (Go ints)
    Second,     \* time.Second, in clock ticks
    HalfRange,  \* 2^(w-1) where w is the width of time.Duration
    Names,      \* SMART attribute names
    NameTables, \* what AttrNames can return: sequences over Names
    NVMeNames   \* what FieldNames returns for every NVMe drive

ASSUME SecondAssumption == Second \in Nat \ {0}

ASSUME RangeAssumption == /\ HalfRange \in Nat \ {0}
                          /\ Timeouts \subseteq (-HalfRange) .. (HalfRange - 1)

ASSUME NamesAssumption == /\ NameTables \subseteq Seq(Names)
                          /\ NVMeNames \in Seq(Names)

VARIABLES
    cmdline,   \* the arguments: flags, list, nargs, timeout, nvmePath, field
    platform,  \* the build: "linux" or "windows"
    plugged,   \* the drive the path names at this moment ("none": no drive)
    mainPc,    \* control of the main goroutine
    timer,     \* ticks until time.After delivers (meaningful in "select")
    elapsed,   \* ticks since the timer was armed
    errCh,     \* the channel of capacity 1
    exitCode,  \* the process's exit code, Running until os.Exit
    wpc,       \* control of the worker goroutine
    fd,        \* the drive behind the handle opened last
    handles,   \* number of open device handles
    nvmeDev,   \* the answer of IsNVMe
    todo,      \* commands the handler has yet to issue
    got,       \* the answer each command gave
    table,     \* the attribute names in the parsed SmartValues
    report,    \* the pieces the handler writes to stdout, in order
    printed,   \* how many of them have been written
    warned,    \* "Warning: SMART STATUS" is on stderr
    result     \* what fn returns: "nil", "error", or "none" before

vars == <<cmdline, platform, plugged, mainPc, timer, elapsed, errCh, exitCode,
          wpc, fd, handles, nvmeDev, todo, got, table, report, printed,
          warned, result>>

mainVars   == <<mainPc, timer, elapsed, exitCode>>
deviceVars == <<fd, handles, nvmeDev>>
queryVars  == <<todo, got, table, warned>>
outVars    == <<report, printed>>
inputVars  == <<cmdline, platform>>

Running == -1
exitTimeout == 2
Drives  == {"ATA", "NVMe", "other", "none"}
NoField == "noField"

-----------------------------------------------------------------------------
(* The command line.                                                       *)

(* A number of type time.Duration: two's complement.                       *)
Wrap(x) == ((x + HalfRange) % (2 * HalfRange)) - HalfRange

(* Mutant: the conversion to seconds is forgotten.                         *)
DurationNoUnit(seconds) == Wrap(seconds)

Duration(seconds) == Wrap(seconds * Second)

(* The switch of main over -l and the number of arguments.                 *)
Mode == CASE  cmdline.list /\ cmdline.nargs = 1 -> "list"
          [] ~cmdline.list /\ cmdline.nargs = 2 -> "get"
          [] ~cmdline.list /\ cmdline.nargs = 1 -> "full"
          [] OTHER -> "usage"

CommandLines == [flags : {"ok", "bad", "help"}, list : BOOLEAN, nargs : 0..3,
                 timeout : Timeouts, nvmePath : BOOLEAN,
                 field : Names \cup {NoField}]

-----------------------------------------------------------------------------
(* The handlers: the commands each issues, in order.                       *)

runATA == <<"Identify", "SmartReadData", "SmartReadThresholds", "SmartStatus",
            "ReadErrorLog", "ReadSelfTestLog", "ReadSelectiveLog">>

runNVMe == <<"IdentifyController", "SmartLogPage", "ErrorLogPage">>

listATA  == <<"Identify", "SmartReadData">>
listNVMe == <<"SmartLogPage">>
getATA   == <<"Identify", "SmartReadData">>
getNVMe  == <<"SmartLogPage">>

run     == IF nvmeDev THEN runNVMe  ELSE runATA
runList == IF nvmeDev THEN listNVMe ELSE listATA
runGet  == IF nvmeDev THEN getNVMe  ELSE getATA

Handler == CASE Mode = "full" -> run
             [] Mode = "list" -> runList
             [] OTHER         -> runGet

(* Mutant: runNVMe goes on when Identify Controller fails.                 *)
MandatoryButIdentify == IF Mode = "full"
                        THEN {"Identify", "SmartReadData", "SmartReadThresholds"}
                        ELSE {"Identify", "SmartReadData", "SmartLogPage"}

(* Commands whose failure ends the handler; the rest leave a nil pointer   *)
(* (SmartStatus: a warning and smartFailing = false).                      *)
Mandatory == IF Mode = "full"
             THEN {"Identify", "SmartReadData", "SmartReadThresholds",
                   "IdentifyController"}
             ELSE {"Identify", "SmartReadData", "SmartLogPage"}

(* The sectors whose parser calls validateChecksum.                        *)
Checksummed == {"SmartReadData", "SmartReadThresholds", "ReadErrorLog",
                "ReadSelfTestLog"}

(* Mutant: no parser validates the checksum.                               *)
UsableUnchecked(c, a) == a \notin {"error", "none"}

(* The answer a reaches the printer: no error, and the parser accepts it.  *)
Usable(c, a) == a \notin {"error", "none"} /\ (c \in Checksummed => a # "corrupt")

(* The pointer a parser returned is not nil.                               *)
Parsed(c) == Usable(c, got[c])

-----------------------------------------------------------------------------
(* The reports.                                                            *)

Optional(piece, present) == IF present THEN <<piece>> ELSE <<>>

PrintATAAll ==
    <<"header", "info",
      IF got["SmartStatus"] = "failing" THEN "FAILED" ELSE "PASSED",
      "general", "attributes">>
    \o Optional("errorLog", Parsed("ReadErrorLog"))
    \o Optional("selfTestLog", Parsed("ReadSelfTestLog"))
    \o Optional("selectiveLog", Parsed("ReadSelectiveLog"))

PrintNVMeAll ==
    <<"header", "info">> \o
    IF ~Parsed("SmartLogPage") THEN <<"notAvailable">>
    ELSE <<IF got["SmartLogPage"] = "warning" THEN "FAILED" ELSE "PASSED",
           "health",
           IF got["ErrorLogPage"] = "errors" THEN "errors" ELSE "noErrors">>

Sections == {"header", "info", "FAILED", "PASSED", "general", "attributes",
             "errorLog", "selfTestLog", "selectiveLog", "notAvailable",
             "health", "errors", "noErrors"}

(* The names the list and get modes work on.                               *)
FieldTable == IF nvmeDev THEN NVMeNames ELSE table

Found == \E i \in DOMAIN FieldTable : FieldTable[i] = cmdline.field

Report == CASE Mode = "full" -> IF nvmeDev THEN PrintNVMeAll ELSE PrintATAAll
            [] Mode = "list" -> FieldTable
            [] OTHER         -> <<cmdline.field>>

-----------------------------------------------------------------------------
Init ==
    /\ cmdline \in {cl \in CommandLines : cl.nargs = 2 <=> cl.field # NoField}
    /\ platform \in {"linux", "windows"}
    /\ plugged \in Drives
    /\ mainPc = "parse" /\ timer = 0 /\ elapsed = 0 /\ exitCode = Running
    /\ errCh = <<>>
    /\ wpc = "idle"
    /\ fd = "none" /\ handles = 0 /\ nvmeDev = FALSE
    /\ todo = <<>> /\ got = [c \in Commands |-> "none"] /\ table = <<>>
    /\ warned = FALSE
    /\ report = <<>> /\ printed = 0
    /\ result = "none"

-----------------------------------------------------------------------------
(* The main goroutine.                                                     *)

Exit(code) == mainPc' = "exit" /\ exitCode' = code

(* flag.Parse with the default ErrorHandling (ExitOnError): a bad flag     *)
(* exits with 2, -h with 0, before main looks at the arguments.            *)
FlagExit ==
    /\ mainPc = "parse"
    /\ \/ cmdline.flags = "bad"  /\ Exit(2)
       \/ cmdline.flags = "help" /\ Exit(0)
    /\ UNCHANGED <<inputVars, plugged, timer, elapsed, errCh, wpc, deviceVars,
                   queryVars, outVars, result>>

Usage ==
    /\ mainPc = "parse" /\ cmdline.flags = "ok" /\ Mode = "usage"
    /\ Exit(1)
    /\ UNCHANGED <<inputVars, plugged, timer, elapsed, errCh, wpc, deviceVars,
                   queryVars, outVars, result>>

(* go func() { errCh <- fn() }()                                           *)
Spawn ==
    /\ mainPc = "parse" /\ cmdline.flags = "ok" /\ Mode # "usage"
    /\ mainPc' = "arm" /\ wpc' = "detect"
    /\ UNCHANGED <<inputVars, plugged, timer, elapsed, errCh, exitCode,
                   deviceVars, queryVars, outVars, result>>

(* Mutant: a negative limit is taken for no limit.                         *)
ArmPositiveOnly ==
    /\ mainPc = "arm"
    /\ IF cmdline.timeout <= 0
       THEN mainPc' = "receive" /\ UNCHANGED timer
       ELSE mainPc' = "select" /\ timer' = Duration(cmdline.timeout)
    /\ UNCHANGED <<inputVars, plugged, elapsed, errCh, exitCode, wpc,
                   deviceVars, queryVars, outVars, result>>

(* timeoutSec = 0 receives without a timer, anything else arms time.After. *)
Arm ==
    /\ mainPc = "arm"
    /\ IF cmdline.timeout = 0
       THEN mainPc' = "receive" /\ UNCHANGED timer
       ELSE mainPc' = "select" /\ timer' = Duration(cmdline.timeout)
    /\ UNCHANGED <<inputVars, plugged, elapsed, errCh, exitCode, wpc,
                   deviceVars, queryVars, outVars, result>>

ReceiveResult ==
    /\ mainPc \in {"receive", "select"} /\ errCh # <<>>
    /\ Exit(IF Head(errCh) = "nil" THEN 0 ELSE 1)
    /\ errCh' = Tail(errCh)
    /\ UNCHANGED <<inputVars, plugged, timer, elapsed, wpc, deviceVars,
                   queryVars, outVars, result>>

(* Mutant: a timeout is reported as an error.                              *)
SelectTimeoutAsError ==
    /\ mainPc = "select" /\ timer <= 0
    /\ Exit(1)
    /\ UNCHANGED <<inputVars, plugged, timer, elapsed, errCh, wpc, deviceVars,
                   queryVars, outVars, result>>

(* A select with both channels ready may take either.                      *)
SelectTimeout ==
    /\ mainPc = "select" /\ timer <= 0
    /\ Exit(exitTimeout)
    /\ UNCHANGED <<inputVars, plugged, timer, elapsed, errCh, wpc, deviceVars,
                   queryVars, outVars, result>>

Tick ==
    /\ mainPc = "select" /\ timer > 0
    /\ timer' = timer - 1 /\ elapsed' = elapsed + 1
    /\ UNCHANGED <<inputVars, plugged, mainPc, errCh, exitCode, wpc,
                   deviceVars, queryVars, outVars, result>>

-----------------------------------------------------------------------------
(* The worker goroutine.                                                   *)

At(label) == exitCode = Running /\ wpc = label

(* fn returns an error before a handle whose Close is deferred is open.    *)
Fail == wpc' = "send" /\ result' = "error"

(* fn returns with the deferred dev.Close() still to run.                  *)
Return(r) == wpc' = "close" /\ result' = r

IsNVMeLinux ==
    /\ At("detect") /\ platform = "linux"
    /\ nvmeDev' = cmdline.nvmePath
    /\ wpc' = "open"
    /\ UNCHANGED <<inputVars, plugged, mainVars, errCh, fd, handles, queryVars,
                   outVars, result>>

(* openDevice and OpenFile succeed on a drive that is there, or fail.      *)
OpensHandle == plugged # "none" /\ fd' = plugged /\ handles' = handles + 1

IsNVMeOpen ==
    /\ At("detect") /\ platform = "windows"
    /\ \/ OpensHandle /\ wpc' = "query" /\ UNCHANGED result
       \/ Fail /\ UNCHANGED <<fd, handles>>
    /\ UNCHANGED <<inputVars, plugged, mainVars, errCh, nvmeDev, queryVars,
                   outVars>>

(* Mutant: the handle is not closed when the query fails.                  *)
IsNVMeQueryLeaks ==
    /\ At("query")
    /\ \/ /\ nvmeDev' = (fd = "NVMe") /\ wpc' = "open"
          /\ handles' = handles - 1 /\ UNCHANGED result
       \/ Fail /\ UNCHANGED <<nvmeDev, handles>>
    /\ UNCHANGED <<inputVars, plugged, mainVars, errCh, fd, queryVars,
                   outVars>>

(* STORAGE_QUERY_PROPERTY returns; CloseHandle is deferred on every path.  *)
IsNVMeQuery ==
    /\ At("query")
    /\ handles' = handles - 1
    /\ \/ nvmeDev' = (fd = "NVMe") /\ wpc' = "open" /\ UNCHANGED result
       \/ Fail /\ UNCHANGED nvmeDev
    /\ UNCHANGED <<inputVars, plugged, mainVars, errCh, fd, queryVars,
                   outVars>>

(* OpenATA or OpenNVMe.                                                    *)
OpenDevice ==
    /\ At("open")
    /\ \/ OpensHandle /\ wpc' = "command" /\ todo' = Handler
          /\ UNCHANGED result
       \/ Fail /\ UNCHANGED <<fd, handles, todo>>
    /\ UNCHANGED <<inputVars, plugged, mainVars, errCh, nvmeDev, got, table,
                   warned, outVars>>

(* The ioctl of the command at the head of todo returns the answer a.      *)
Returns(a) ==
    /\ At("command") /\ todo # <<>>
    /\ a \in Answers(platform, fd, Head(todo))
    /\ got' = [got EXCEPT ![Head(todo)] = a]

(* Mutant: an unreadable SMART status passes without a warning.            *)
CommandDoneSilent(a) ==
    /\ Returns(a)
    /\ Head(todo) \in Mandatory => Usable(Head(todo), a)
    /\ todo' = Tail(todo)
    /\ IF Head(todo) = "SmartReadData" THEN table' \in NameTables
                                       ELSE UNCHANGED table
    /\ UNCHANGED <<inputVars, plugged, mainVars, errCh, wpc, deviceVars,
                   outVars, result, warned>>

(* The answer is parsed, or an optional one is dropped, and the handler    *)
(* goes on.                                                                *)
CommandDone(a) ==
    /\ Returns(a)
    /\ Head(todo) \in Mandatory => Usable(Head(todo), a)
    /\ todo' = Tail(todo)
    /\ IF Head(todo) = "SmartReadData" THEN table' \in NameTables
                                       ELSE UNCHANGED table
    /\ warned' = (warned \/ (Head(todo) = "SmartStatus" /\ a = "error"))
    /\ UNCHANGED <<inputVars, plugged, mainVars, errCh, wpc, deviceVars,
                   outVars, result>>

(* The call or the parser of a mandatory answer fails.                     *)
CommandFails(a) ==
    /\ Returns(a)
    /\ Head(todo) \in Mandatory /\ ~Usable(Head(todo), a)
    /\ Return("error")
    /\ UNCHANGED <<inputVars, plugged, mainVars, errCh, deviceVars, todo,
                   table, warned, outVars>>

(* All answers are in: the handler starts to print, or get mode finds no   *)
(* such field.                                                             *)
StartPrinting ==
    /\ At("command") /\ todo = <<>>
    /\ Mode = "get" => Found
    /\ report' = Report /\ wpc' = "print"
    /\ UNCHANGED <<inputVars, plugged, mainVars, errCh, deviceVars, queryVars,
                   printed, result>>

(* Mutant: a field that is not found is no error.                          *)
FieldNotFoundNil ==
    /\ At("command") /\ todo = <<>>
    /\ Mode = "get" /\ ~Found
    /\ Return("nil")
    /\ UNCHANGED <<inputVars, plugged, mainVars, errCh, deviceVars, queryVars,
                   outVars>>

FieldNotFound ==
    /\ At("command") /\ todo = <<>>
    /\ Mode = "get" /\ ~Found
    /\ Return("error")
    /\ UNCHANGED <<inputVars, plugged, mainVars, errCh, deviceVars, queryVars,
                   outVars>>

(* Mutant: the loop over what to print runs once too often.                *)
PrintPieceOnceMore ==
    /\ At("print") /\ printed <= Len(report)
    /\ printed' = printed + 1
    /\ UNCHANGED <<inputVars, plugged, mainVars, errCh, wpc, deviceVars,
                   queryVars, report, result>>

PrintPiece ==
    /\ At("print") /\ printed < Len(report)
    /\ printed' = printed + 1
    /\ UNCHANGED <<inputVars, plugged, mainVars, errCh, wpc, deviceVars,
                   queryVars, report, result>>

PrintingDone ==
    /\ At("print") /\ printed = Len(report)
    /\ Return("nil")
    /\ UNCHANGED <<inputVars, plugged, mainVars, errCh, deviceVars, queryVars,
                   outVars>>

CloseDevice ==
    /\ At("close")
    /\ handles' = handles - 1 /\ wpc' = "send"
    /\ UNCHANGED <<inputVars, plugged, mainVars, errCh, fd, nvmeDev, queryVars,
                   outVars, result>>

(* Mutant: only errors are sent.                                           *)
SendResultErrorOnly ==
    /\ At("send") /\ Len(errCh) < 1
    /\ errCh' = IF result = "error" THEN Append(errCh, result) ELSE errCh
    /\ wpc' = "done"
    /\ UNCHANGED <<inputVars, plugged, mainVars, deviceVars, queryVars,
                   outVars, result>>

SendResult ==
    /\ At("send") /\ Len(errCh) < 1
    /\ errCh' = Append(errCh, result) /\ wpc' = "done"
    /\ UNCHANGED <<inputVars, plugged, mainVars, deviceVars, queryVars,
                   outVars, result>>

-----------------------------------------------------------------------------
(* A drive is unplugged, or another one takes its place: external.         *)
Replug ==
    /\ exitCode = Running
    /\ \E d \in Drives \ {plugged} : plugged' = d
    /\ UNCHANGED <<inputVars, mainVars, errCh, wpc, deviceVars, queryVars,
                   outVars, result>>

(* The process is gone.                                                    *)
Exited == exitCode # Running /\ UNCHANGED vars

Main == FlagExit \/ Usage \/ Spawn \/ Arm \/ ReceiveResult \/ SelectTimeout

(* Worker steps that wait for the device or the operating system ...       *)
Waiting == \/ IsNVMeOpen \/ IsNVMeQuery \/ OpenDevice \/ CloseDevice
           \/ \E a \in AnswerSet : CommandDone(a) \/ CommandFails(a)

(* ... those that only need the scheduler ...                              *)
Scheduled == \/ IsNVMeLinux \/ StartPrinting \/ FieldNotFound
             \/ PrintingDone \/ SendResult

(* ... and a write to stdout, which waits for whoever reads it.            *)
Local == Scheduled \/ PrintPiece

Next == Main \/ Tick \/ Waiting \/ Local \/ Replug \/ Exited

Spec == Init /\ [][Next]_vars

(* The Go scheduler runs every runnable goroutine and time passes.  Nothing *)
(* is assumed of Waiting (an ioctl may block for ever), of PrintPiece (so   *)
(* may a write to a pipe that nobody drains) or of Replug.                  *)
FairSpec == Spec /\ WF_vars(Main) /\ WF_vars(Tick) /\ WF_vars(Scheduled)
-----------------------------------------------------------------------------
(* Properties.                                                             *)

(* Every variable stays in its type.  Beyond the names of the labels this  *)
(* says that errCh never holds more than its capacity of one, so that the  *)
(* worker's send cannot block, and that the printers never run past the    *)
(* end of what they print.                                                 *)
TypeOK ==
    /\ cmdline \in CommandLines
    /\ platform \in {"linux", "windows"}
    /\ plugged \in Drives /\ fd \in Drives
    /\ mainPc \in {"parse", "arm", "receive", "select", "exit"}
    /\ timer \in Int /\ elapsed \in Nat
    /\ exitCode \in {Running, 0, 1, 2}
    /\ errCh \in {<<>>, <<"nil">>, <<"error">>}
    /\ wpc \in {"idle", "detect", "query", "open", "command", "print",
                "close", "send", "done"}
    /\ handles \in Nat /\ nvmeDev \in BOOLEAN
    /\ todo \in Seq(Commands)
    /\ got \in [Commands -> AnswerSet \cup {"none"}]
    /\ table \in Seq(Names)
    /\ report \in Seq(Names \cup Sections \cup {NoField})
    /\ printed \in 0 .. Len(report)
    /\ warned \in BOOLEAN
    /\ result \in {"none", "nil", "error"}

(* What a script reads off the exit code of main (main.go:48).  0: the     *)
(* report that the answers call for was written to its last piece, after   *)
(* which the device was closed.  1: nothing was written to stdout.  The    *)
(* worker writes and sends in one goroutine and main exits in another, so  *)
(* this is about the order of the print, the deferred Close, the send and  *)
(* the receive.                                                            *)
ExitCodeContract ==
    cmdline.flags = "ok" =>
        /\ exitCode = 0 => /\ result = "nil" /\ handles = 0
                           /\ report = Report /\ printed = Len(report)
        /\ exitCode = 1 => printed = 0 /\ handles = 0

Written == {report[i] : i \in 1 .. printed}

(* The verdict of the full report (printer/ata.go:76-81, nvme.go:45-50).   *)
(* FAILED is only written when the drive said so.  PASSED is only written  *)
(* for a drive that said so, or (main.go:145-148) after a warning that its *)
(* status could not be read; the Windows NVMe path has no such exception.  *)
VerdictBacked ==
    Mode = "full" =>
        /\ "FAILED" \in Written =>
               IF nvmeDev THEN got["SmartLogPage"] = "warning"
                          ELSE got["SmartStatus"] = "failing"
        /\ "PASSED" \in Written /\ ~nvmeDev =>
               \/ got["SmartStatus"] = "passed"
               \/ got["SmartStatus"] = "error" /\ warned
        /\ "PASSED" \in Written /\ nvmeDev /\ platform = "windows" =>
               got["SmartLogPage"] = "clean"

(* Nothing is printed from a sector that came back corrupt where a parser  *)
(* guards it: whatever mode, platform and order of failures, the sections  *)
(* and names on stdout come from sectors with a valid checksum.            *)
SectionsBacked ==
    printed > 0 /\ ~nvmeDev =>
        /\ got["SmartReadData"] = "good"
        /\ Mode = "full" =>
              /\ got["SmartReadThresholds"] = "good"
              /\ "errorLog" \in Written => got["ReadErrorLog"] = "good"
              /\ "selfTestLog" \in Written => got["ReadSelfTestLog"] = "good"

(* The kind is decided before the device is opened: by its path on Linux   *)
(* (detect_linux.go:7), by a handle that is closed again on Windows        *)
(* (detect_windows.go:21-49).  If the path misleads or the drive is        *)
(* swapped in between, the run fails and no report comes out.              *)
ReportMatchesDrive ==
    printed > 0 => fd = IF nvmeDev THEN "NVMe" ELSE "ATA"

(* At most one handle is open, none when fn has returned: both open paths  *)
(* (IsNVMe and OpenATA/OpenNVMe) close on every way out.                   *)
HandlesReleased ==
    /\ handles <= 1
    /\ wpc \in {"idle", "detect", "open", "send", "done"} => handles = 0

(* A process that exits on the timer has waited the seconds it was told to *)
(* wait, for every limit that time.Duration can represent (main.go:75).    *)
TimeoutNotEarly ==
    /\ exitCode = exitTimeout /\ cmdline.flags = "ok"
    /\ cmdline.timeout * Second < HalfRange
    => elapsed >= cmdline.timeout * Second

-----------------------------------------------------------------------------
(* Liveness, under FairSpec.                                               *)

(* With any timeout but 0 the process ends, whatever the device does: also *)
(* when an open, an ioctl or a write to stdout never returns               *)
(* (main.go:54-55).                                                        *)
TimeoutEndsRun == cmdline.timeout # 0 => <>(exitCode # Running)

(* Labels where the worker is inside a call that may block.                *)
InBlockingCall ==
    \/ wpc \in {"query", "open", "close"}
    \/ wpc = "detect" /\ platform = "windows"
    \/ wpc = "command" /\ todo # <<>>
    \/ wpc = "print" /\ printed < Len(report)

(* Without a limit only the device and the reader of stdout can keep the   *)
(* process alive: it ends, or the worker is stuck for ever in one device   *)
(* call or one write (main.go:60-66).                                      *)
OnlyOutsideBlocks == <>(exitCode # Running) \/ <>[]InBlockingCall

-----------------------------------------------------------------------------
(* The refinement.                                                         *)

RequestKind == CASE cmdline.flags = "bad"  -> "malformed"
                 [] cmdline.flags = "help" -> "help"
                 [] OTHER -> IF Mode = "usage" THEN "wrongArguments"
                                               ELSE "query"

(* How much of the answer is out.  An empty list is complete as soon as    *)
(* there is nothing left to print.                                         *)
Stdout ==
    IF /\ wpc \in {"print", "close", "send", "done"} /\ result # "error"
       /\ printed = Len(report)
    THEN "all"
    ELSE IF printed = 0 THEN "none" ELSE "some"

OneShot == INSTANCE OneShot
    WITH request <- RequestKind,
         limited <- cmdline.timeout # 0,
         stdout  <- Stdout,
         device  <- IF handles = 0 THEN "released" ELSE "open",
         code    <- exitCode

(* Goroutines, clock and device together behave as the one-shot command of *)
(* module OneShot: output grows only while the device is held, the device  *)
(* is never given back in the middle of a report, and each exit code is    *)
(* returned only in the situations OneShot names.                          *)
ImplementsOneShot == OneShot!Spec

-----------------------------------------------------------------------------
(* What the code's own words promise and the code does not keep.           *)

(* "Byte 511 is a checksum: the sum of all 512 bytes must equal 0x00."     *)
(* (DEVELOPMENT.md:153): no SMART log is printed from a corrupt sector.    *)
SelectiveLogChecked ==
    "selectiveLog" \in Written => got["ReadSelectiveLog"] = "good"

(* "No Errors Logged" (README.md:126) is only said of an error log that    *)
(* was read: the ATA report leaves the section out when it was not.        *)
NoErrorsMeansRead ==
    Mode = "full" /\ "noErrors" \in Written => got["ErrorLogPage"] # "error"

(* "ErrUnsupported is returned when a command is not supported by the      *)
(* device." (device.go:6): a controller that rejects the SMART log page is *)
(* not reported as PASSED.                                                 *)
RejectedIsNotPassed ==
    Mode = "full" /\ "PASSED" \in Written => got["SmartLogPage"] # "zeroed"
=============================================================================
