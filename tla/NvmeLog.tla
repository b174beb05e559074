------------------------------ MODULE NvmeLog -------------------------------
(***************************************************************************)
(* The counters of the NVMe SMART log page and the error log page, over    *)
(* several runs of gosmart (full report and get mode) while the drive      *)
(* counts on.  The pages of one report come from two commands; module      *)
(* Device says what each of them may hand back on either platform.         *)
(*                                                                         *)
(* The drive is external: it counts in 128 bits and lists its errors       *)
(* newest first; a reset of the controller may clear the list, never the   *)
(* counters.                                                               *)
(***************************************************************************)
EXTENDS Integers, Sequences, Device

CONSTANTS
    Fields,     \* the counters of the page that the drive uses
    Range64,    \* 2^64
    Unit,       \* 512000: bytes in a data unit
    Jumps,      \* by how much a counter grows in a step
    LogSize,    \* 16: entries read of the error log
    MaxSteps    \* bound on what the drive does

(* The 128-bit fields of type SmartLog, by their names in smartLogFields.  *)
Counters == {"Data_Units_Read", "Data_Units_Written", "Host_Reads",
             "Host_Writes", "Controller_Busy_Time", "Power_Cycles",
             "Power_On_Hours", "Unsafe_Shutdowns", "Media_Errors",
             "Num_Err_Log_Entries"}

NumErr == "Num_Err_Log_Entries"
DataUnits == {"Data_Units_Read", "Data_Units_Written"}

ASSUME FieldsAssumption == Fields \subseteq Counters /\ NumErr \in Fields

ASSUME RangeAssumption ==
    /\ Range64 \in Nat \ {0} /\ Unit \in Nat \ {0} /\ Jumps \subseteq Nat
    /\ LogSize \in Nat \ {0} /\ MaxSteps \in Nat

VARIABLES
    platform,  \* "linux" or "windows"
    count,   \* the drive's counters
    errors,  \* its error log: error counts, newest first
    base,    \* errors counted before its last reset
    steps,   \* what it has done so far
    pc,      \* gosmart: an index into Handler (1: idle), or InGet
    sl,      \* the parsed SMART log page, NoPage for nil
    el,      \* the parsed error log, NoLog if it could not be read
    seen,    \* the last value shown of each counter, by either mode
    bytes,   \* the last byte amount shown next to each data unit counter
    report,  \* the error part of the last full report
    most,    \* history: the largest value ever shown of each counter
    mostBytes  \* history: the largest amount ever shown

driveVars == <<platform, count, errors, base, steps>>
shownVars == <<seen, bytes, most, mostBytes>>
vars == <<driveVars, pc, sl, el, shownVars, report>>

Zeros == [i \in 1 .. LogSize |-> 0]
ZeroCount == [f \in Fields |-> 0]

(* "refused" marks a page that the controller never wrote; the program     *)
(* cannot tell.                                                            *)
NoPage == [present |-> FALSE, refused |-> FALSE, value |-> ZeroCount]
NoLog  == [present |-> FALSE, refused |-> FALSE, entries |-> <<>>, base |-> 0]

NoReport == [complete |-> FALSE, refused |-> FALSE, numErr |-> 0,
             rows |-> <<>>, base |-> 0]

Init ==
    /\ platform \in {"linux", "windows"}
    /\ count = ZeroCount /\ errors = Zeros /\ base = 0 /\ steps = 0
    /\ pc = 1 /\ sl = NoPage /\ el = NoLog /\ report = NoReport
    /\ seen = ZeroCount /\ bytes = ZeroCount
    /\ most = ZeroCount /\ mostBytes = ZeroCount

-----------------------------------------------------------------------------
(* The drive.                                                              *)

Grow(f, n) ==
    /\ steps < MaxSteps /\ steps' = steps + 1 /\ f # NumErr
    /\ count' = [count EXCEPT ![f] = @ + n]
    /\ UNCHANGED <<platform, errors, base, pc, sl, el, shownVars, report>>

LogError ==
    /\ steps < MaxSteps /\ steps' = steps + 1
    /\ count' = [count EXCEPT ![NumErr] = @ + 1]
    /\ errors' = [i \in 1 .. LogSize |->
                    IF i = 1 THEN count[NumErr] + 1 ELSE errors[i - 1]]
    /\ UNCHANGED <<platform, base, pc, sl, el, shownVars, report>>

Reset ==
    /\ steps < MaxSteps /\ steps' = steps + 1
    /\ errors' = Zeros /\ base' = count[NumErr]
    /\ UNCHANGED <<platform, count, pc, sl, el, shownVars, report>>

-----------------------------------------------------------------------------
(* gosmart.                                                                *)

(* Mutant: only a part of the low half is kept.                            *)
le128Narrow(n) == n % (Range64 \div 2)

le128lo64(n) == n % Range64

ParseSmartLog(c) == [f \in Fields |-> le128lo64(c[f])]

(* The page in hand after an answer: nil after an error, and the zeros of  *)
(* the fresh buffer when the controller refused the command on Linux.      *)
SmartPage(answer) ==
    IF answer = "error" THEN NoPage
    ELSE [present |-> TRUE, refused |-> answer = "zeroed",
          value   |-> ParseSmartLog(IF answer = "zeroed" THEN ZeroCount
                                    ELSE count)]

ErrorPage(answer) ==
    IF answer = "error" THEN NoLog
    ELSE [present |-> TRUE, refused |-> answer = "zeroed",
          entries |-> IF answer = "zeroed" THEN Zeros ELSE errors,
          base    |-> base]

(* Mutant: the error log is read before the counters.                      *)
HandlerLogFirst == <<"ErrorLogPage", "SmartLogPage", "Print">>

Handler == <<"SmartLogPage", "ErrorLogPage", "Print">>

Does(step) == pc \in 1 .. 3 /\ Handler[pc] = step /\ pc' = (pc % 3) + 1

InGet == 4

(* The full report: a page that cannot be read is nil.                     *)
SmartLogPage ==
    /\ Does("SmartLogPage")
    /\ \E answer \in NVMeAnswers(platform, "SmartLogPage") :
          sl' = SmartPage(answer)
    /\ UNCHANGED <<driveVars, el, shownVars, report>>

ErrorLogPage ==
    /\ Does("ErrorLogPage")
    /\ \E answer \in NVMeAnswers(platform, "ErrorLogPage") :
          el' = ErrorPage(answer)
    /\ UNCHANGED <<driveVars, sl, shownVars, report>>

(* Mutant: the product is computed in fewer bits.                          *)
DataBytesNarrow(units) == (units * Unit) % (Range64 \div 2)

DataBytes(units) == (units * Unit) % Range64

(* Row number = entry, for the entries that are in use.                    *)
printNVMeErrorLog(entries) ==
    [i \in {j \in DOMAIN entries : entries[j] > 0} |-> entries[i]]

(* For each counter the larger of two values.                              *)
Larger(old, new) ==
    [f \in Fields |-> IF new[f] > old[f] THEN new[f] ELSE old[f]]

(* Without a SMART log page the report ends before the counters.           *)
PrintNVMeAll ==
    /\ Does("Print")
    /\ IF sl.present
       THEN /\ seen' = sl.value
            /\ bytes' = [f \in Fields |-> IF f \in DataUnits
                                          THEN DataBytes(sl.value[f]) ELSE 0]
       ELSE UNCHANGED <<seen, bytes>>
    /\ most' = Larger(most, seen') /\ mostBytes' = Larger(mostBytes, bytes')
    /\ report' = [complete |-> sl.present /\ el.present,
                  refused |-> el.refused,
                  numErr |-> sl.value[NumErr],
                  rows   |-> IF sl.present
                             THEN printNVMeErrorLog(el.entries) ELSE <<>>,
                  base   |-> el.base]
    /\ sl' = NoPage /\ el' = NoLog
    /\ UNCHANGED driveVars

(* Get mode: an answer that is an error, or an unknown field, ends the run *)
(* with nothing printed.  A refused page on Linux is no error: it is       *)
(* parsed and its 0 is printed.                                            *)
ReadForGet ==
    /\ pc = 1 /\ pc' = InGet
    /\ \E answer \in NVMeAnswers(platform, "SmartLogPage") \ {"error"} :
          sl' = SmartPage(answer)
    /\ UNCHANGED <<driveVars, el, shownVars, report>>

getNVMe(f) ==
    /\ pc = InGet /\ pc' = 1
    /\ seen' = [seen EXCEPT ![f] = sl.value[f]]
    /\ most' = Larger(most, seen')
    /\ sl' = NoPage
    /\ UNCHANGED <<driveVars, el, bytes, mostBytes, report>>

Next ==
    \/ \E f \in Fields, n \in Jumps : Grow(f, n)
    \/ LogError \/ Reset
    \/ SmartLogPage \/ ErrorLogPage \/ PrintNVMeAll
    \/ ReadForGet
    \/ \E f \in Fields : getNVMe(f)

Spec == Init /\ [][Next]_vars

-----------------------------------------------------------------------------
(* Properties.                                                             *)

(* A step that prints counter f.                                           *)
Shows(f) == sl.present /\ (PrintNVMeAll \/ getNVMe(f))

(* A page the controller refused, which only Linux takes for data.         *)
RefusedOnLinux(page) == page.refused /\ platform = "linux"

(* "The following are 128-bit little-endian counters; we use uint64 (lower *)
(* bits)." (nvme.go:67): as long as a counter fits 64 bits, what gosmart   *)
(* shows of it in either mode is no less than anything it showed before.   *)
(* The one exception is a refused page on Linux (linux.go:185): there, and *)
(* nowhere else, the counter falls, and then to 0.                         *)
CountersNeverGoBack ==
    [][\A f \in Fields : Shows(f) /\ count[f] < Range64 =>
          \/ seen'[f] >= most[f]
          \/ RefusedOnLinux(sl) /\ seen'[f] = 0]_vars

(* The same for the byte amount next to a data unit counter: it does not   *)
(* shrink as long as the amount itself fits 64 bits (printer/nvme.go:60),  *)
(* but for the 0 of a page that was refused on Linux.                      *)
AmountsNeverShrink ==
    [][\A f \in Fields :
          sl.present /\ PrintNVMeAll
          /\ f \in DataUnits /\ count[f] * Unit < Range64 =>
              \/ bytes'[f] >= mostBytes[f]
              \/ RefusedOnLinux(sl) /\ bytes'[f] = 0]_vars

(* An error log that starts with error n or a newer one, goes down without *)
(* a gap and has every error after b that LogSize newer ones have not      *)
(* pushed out.                                                             *)
Lists(rows, b, n) ==
    /\ 1 \in DOMAIN rows /\ rows[1] >= n
    /\ \A i \in DOMAIN rows : i > 1 =>
          i - 1 \in DOMAIN rows /\ rows[i - 1] = rows[i] + 1
    /\ \A e \in b + 1 .. n : \/ rows[1] - e >= LogSize
                             \/ \E i \in DOMAIN rows : rows[i] = e

(* Errors and their number come from two pages (main.go:188, 194): when a  *)
(* report counts an error that the controller has not cleared, its error   *)
(* log lists it and all the others (printer/nvme.go:108-117).  Next to     *)
(* such a count "No Errors Logged" appears only where a refused error log  *)
(* page is taken for data, on Linux (linux.go:185), or where the page      *)
(* could not be read (NoErrorsMeansRead of module Gosmart).                *)
CountedErrorsAreListed ==
    report.complete /\ report.numErr > report.base /\ count[NumErr] < Range64 =>
        IF RefusedOnLinux(report) THEN DOMAIN report.rows = {}
        ELSE Lists(report.rows, report.base, report.numErr)
=============================================================================
