------------------------------- MODULE Device -------------------------------
(***************************************************************************)
(* Package internal/device: what a device call hands back to its caller,   *)
(* for every reply the operating system can give.  An answer is abstracted *)
(* to what the callers tell apart:                                         *)
(*                                                                         *)
(*   "error"     a non-nil error                                           *)
(*   "good"      512 (4096) bytes as the drive meant them                  *)
(*   "corrupt"   512 bytes whose sum is not 0 modulo 256                   *)
(*   "zeroed"    a buffer the controller never wrote                       *)
(*                                                                         *)
(* The replies themselves (kernel, driver, drive) are external.            *)
(***************************************************************************)

ATACommands == {"Identify", "SmartReadData", "SmartReadThresholds",
                "SmartStatus", "ReadErrorLog", "ReadSelfTestLog",
                "ReadSelectiveLog"}

NVMeCommands == {"IdentifyController", "SmartLogPage", "ErrorLogPage"}

Commands == ATACommands \cup NVMeCommands

(* What the bytes of an NVMe reply say, as far as the printer looks.       *)
Pages(c) == CASE c = "IdentifyController" -> {"good"}
              [] c = "SmartLogPage"       -> {"clean", "warning"}
              [] c = "ErrorLogPage"       -> {"noErrors", "errors"}

(* The cylinder registers SMART RETURN STATUS leaves in the task file.     *)
Registers == {"pass", "fail", "other"}

-----------------------------------------------------------------------------
(* Replies of the operating system.                                        *)

LinuxSectorReply == [errno : BOOLEAN, sector : {"good", "corrupt"}]

WindowsSectorReply == [err : BOOLEAN, short : BOOLEAN, driverError : BOOLEAN,
                       sector : {"good", "corrupt"}]

LinuxStatusReply == [errno : BOOLEAN, regs : Registers]

WindowsStatusReply == [err : BOOLEAN, driverError : BOOLEAN, regs : Registers]

(* NVME_IOCTL_ADMIN_CMD fails with an errno when the command never reached *)
(* the controller, and returns the controller's positive status code when  *)
(* the controller rejected it; only then is the buffer left as it was.     *)
LinuxNVMeReply(c) == [errno : BOOLEAN, status : BOOLEAN, page : Pages(c)]

WindowsNVMeReply(c) == [err : BOOLEAN, short : BOOLEAN, page : Pages(c)]

-----------------------------------------------------------------------------
(* The ATA calls.                                                          *)

hdioCmdRead(r) == IF r.errno THEN "error" ELSE r.sector

rcvDriveData(r) ==
    IF r.err \/ r.short \/ r.driverError THEN "error" ELSE r.sector

(* Registers that are neither pattern give "assume OK" and an error.       *)
Verdict(regs) == CASE regs = "pass"  -> "passed"
                   [] regs = "fail"  -> "failing"
                   [] regs = "other" -> "error"

SmartStatusLinux(r) == IF r.errno THEN "error" ELSE Verdict(r.regs)

SmartStatusWindows(r) ==
    IF r.err \/ r.driverError THEN "error" ELSE Verdict(r.regs)

-----------------------------------------------------------------------------
(* The NVMe calls.                                                         *)

(* Only errno is looked at: the status a controller returns is dropped and *)
(* the freshly allocated buffer is handed to the caller as data.           *)
nvmeAdmin(r) == IF r.errno THEN "error"
                ELSE IF r.status THEN "zeroed" ELSE r.page

nvmeQuery(r) == IF r.err \/ r.short THEN "error" ELSE r.page

-----------------------------------------------------------------------------
(* Every answer the call c can give on a drive that speaks c's protocol.   *)

ATAAnswers(platform, c) ==
    IF platform = "linux"
    THEN IF c = "SmartStatus"
         THEN {SmartStatusLinux(r) : r \in LinuxStatusReply}
         ELSE {hdioCmdRead(r) : r \in LinuxSectorReply}
    ELSE IF c = "SmartStatus"
         THEN {SmartStatusWindows(r) : r \in WindowsStatusReply}
         ELSE {rcvDriveData(r) : r \in WindowsSectorReply}

NVMeAnswers(platform, c) ==
    IF platform = "linux"
    THEN {nvmeAdmin(r) : r \in LinuxNVMeReply(c)}
    ELSE {nvmeQuery(r) : r \in WindowsNVMeReply(c)}

(* A drive of the other kind knows none of the commands: external.         *)
Speaks(drive, c) == \/ drive = "ATA"  /\ c \in ATACommands
                    \/ drive = "NVMe" /\ c \in NVMeCommands

Answers(platform, drive, c) ==
    IF ~Speaks(drive, c) THEN {"error"}
    ELSE IF c \in ATACommands THEN ATAAnswers(platform, c)
    ELSE NVMeAnswers(platform, c)

AnswerSet == {"error", "good", "corrupt", "zeroed", "passed", "failing",
              "clean", "warning", "noErrors", "errors"}
=============================================================================
