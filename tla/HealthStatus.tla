---------------------------- MODULE HealthStatus ----------------------------
(***************************************************************************)
(* SMART RETURN STATUS: the cylinder registers that gosmart sends and gets *)
(* back, and the verdict that the full report derives from them, over      *)
(* several runs while the drive wears out.                                 *)
(*                                                                         *)
(* The drive is external.  ATA drives abort a SMART command whose cylinder *)
(* registers do not hold the key 0x4f, 0xc2; strict = FALSE is a drive     *)
(* that does not look.                                                     *)
(***************************************************************************)
EXTENDS Integers

VARIABLES
    platform,   \* the build: "linux" or "windows"
    strict,     \* the drive insists on the key
    failing,    \* the drive's own assessment
    pc,         \* gosmart: "request", "ioctl", "decode"
    regs,       \* the cylinder registers in the buffer: <<low, high>>
    err,        \* the call failed: errno, DeviceIoControl or bDriverError
    arrived,    \* the command reached the drive unharmed, and back
    wasFailing, \* failing when the drive handled the command
    verdict,    \* what the last report says: "none", "PASSED", "FAILED"
    warned      \* it came with a warning

vars == <<platform, strict, failing, pc, regs, err, arrived, wasFailing,
          verdict, warned>>

Passed == <<79, 194>>   \* 0x4f, 0xc2: the key, and the answer of a good drive
Fails  == <<244, 44>>   \* 0xf4, 0x2c
Zero   == <<0, 0>>

Init ==
    /\ platform \in {"linux", "windows"} /\ strict \in BOOLEAN
    /\ failing = FALSE
    /\ pc = "request" /\ regs = Zero /\ err = FALSE
    /\ arrived = FALSE /\ wasFailing = FALSE
    /\ verdict = "none" /\ warned = FALSE

(* The drive wears out.                                                    *)
Degrade ==
    /\ ~failing /\ failing' = TRUE
    /\ UNCHANGED <<platform, strict, pc, regs, err, arrived, wasFailing,
                   verdict, warned>>

(* The registers a platform fills in: HDIO_DRIVE_TASK gets zeros.          *)
Request(p) == IF p = "linux" THEN Zero ELSE Passed

Issue ==
    /\ pc = "request" /\ pc' = "ioctl"
    /\ regs' = Request(platform) /\ err' = FALSE
    /\ UNCHANGED <<platform, strict, failing, arrived, wasFailing, verdict,
                   warned>>

(* The drive handles the command, or aborts one without the key.           *)
DriveHandles ==
    /\ pc = "ioctl" /\ pc' = "decode"
    /\ arrived' = TRUE /\ wasFailing' = failing
    /\ IF strict /\ regs # Passed
       THEN err' = TRUE /\ UNCHANGED regs
       ELSE err' = FALSE /\ regs' = IF failing THEN Fails ELSE Passed
    /\ UNCHANGED <<platform, strict, failing, verdict, warned>>

(* The command is lost, or a bridge garbles the registers on the way back. *)
Lost ==
    /\ pc = "ioctl" /\ pc' = "decode"
    /\ arrived' = FALSE /\ wasFailing' = failing
    /\ \/ err' = TRUE /\ UNCHANGED regs
       \/ err' = FALSE
          /\ regs' \in ({79, 244, 0} \X {194, 44, 0}) \ {Passed, Fails}
    /\ UNCHANGED <<platform, strict, failing, verdict, warned>>

(* Mutant: either register decides.                                        *)
MatchesEither(r, pattern) == r[1] = pattern[1] \/ r[2] = pattern[2]

Matches(r, pattern) == r[1] = pattern[1] /\ r[2] = pattern[2]

(* Mutant: only ambiguous registers are worth a warning.                   *)
DecodeErrorSilent ==
    /\ pc = "decode" /\ pc' = "request"
    /\ LET ambiguous == ~Matches(regs, Passed) /\ ~Matches(regs, Fails)
       IN  /\ warned' = (~err /\ ambiguous)
           /\ verdict' = IF ~err /\ ~Matches(regs, Passed)
                            /\ Matches(regs, Fails)
                         THEN "FAILED" ELSE "PASSED"
    /\ UNCHANGED <<platform, strict, failing, regs, err, arrived, wasFailing>>

(* SmartStatus returns, runATA warns of an error, printSMARTSection prints *)
(* smartFailing, which an error leaves FALSE.                              *)
Decode ==
    /\ pc = "decode" /\ pc' = "request"
    /\ LET ambiguous == ~Matches(regs, Passed) /\ ~Matches(regs, Fails)
       IN  /\ warned' = (err \/ ambiguous)
           /\ verdict' = IF ~err /\ ~Matches(regs, Passed)
                            /\ Matches(regs, Fails)
                         THEN "FAILED" ELSE "PASSED"
    /\ UNCHANGED <<platform, strict, failing, regs, err, arrived, wasFailing>>

Next == Degrade \/ Issue \/ DriveHandles \/ Lost \/ Decode

Spec == Init /\ [][Next]_vars

-----------------------------------------------------------------------------
(* Properties.                                                             *)

(* A verdict without a warning is the drive's: FAILED was said by a        *)
(* failing drive, PASSED by one that was not failing when it handled the   *)
(* command (linux.go:106-115, windows.go:163-173).  Registers that mix the *)
(* two patterns, or come back untouched, are never taken for a verdict.    *)
VerdictIsTheDrives ==
    pc = "request" =>
        /\ verdict = "FAILED" => arrived /\ wasFailing /\ ~warned
        /\ verdict = "PASSED" /\ ~warned => arrived /\ ~wasFailing

(* A run after a FAILED report is never a clean PASSED: it says FAILED     *)
(* again, or PASSED with a warning that the status could not be read.      *)
NoRelapse ==
    [][verdict = "FAILED" /\ verdict' = "PASSED" => warned']_vars

(* "Returns true if SMART status indicates a failure." (device.go:21): a   *)
(* failing drive that gets the command is reported as FAILED.              *)
FailureIsReported ==
    pc = "request" /\ arrived /\ wasFailing => verdict = "FAILED"
=============================================================================
