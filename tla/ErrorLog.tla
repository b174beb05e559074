------------------------------ MODULE ErrorLog ------------------------------
(***************************************************************************)
(* The SMART summary error log: a ring of five entries that the drive      *)
(* fills (external, as the comments of type SmartErrorLog describe it),    *)
(* and the report that gosmart makes of it.  The read and the print of one *)
(* run are two steps; the drive goes on logging errors between them and    *)
(* between runs.                                                           *)
(*                                                                         *)
(* An entry is abstracted to the ordinal of the error it describes, 0 for  *)
(* a slot that was never written.                                          *)
(***************************************************************************)
EXTENDS Integers, Sequences

CONSTANTS
    CountRange,  \* 2^16: ATAErrorCount is a uint16 that may wrap
    MaxErrors    \* bound on the errors a drive meets

ASSUME CountAssumption == CountRange \in Nat /\ CountRange > 5

ASSUME MaxErrorsAssumption == MaxErrors \in Nat

VARIABLES
    total,   \* errors the drive has met so far
    log,     \* the log on the drive: logPointer, entries, errorCount
    pc,      \* gosmart: "read" or "print"
    el,      \* the *SmartErrorLog in hand (meaningful if present)
    present, \* it is not nil
    readAt,  \* total when it was read
    shown    \* the last error log section: at, said, lines

vars == <<total, log, pc, el, present, readAt, shown>>

Slots == 0 .. 4

Empty == [logPointer |-> 0, entries |-> [i \in Slots |-> 0], errorCount |-> 0]

Init ==
    /\ total = 0 /\ log = Empty
    /\ pc = "read" /\ el = Empty /\ present = FALSE /\ readAt = 0
    /\ shown = [at |-> 0, said |-> "nothing", lines |-> <<>>]

-----------------------------------------------------------------------------
(* The drive: LogPointer is "index of most recent entry (1-based, wraps at *)
(* 5)", ATAErrorCount "total error count (may wrap)".                      *)

LogError ==
    /\ total < MaxErrors
    /\ total' = total + 1
    /\ LET ptr == (log.logPointer % 5) + 1
       IN  log' = [logPointer |-> ptr,
                   entries    |-> [log.entries EXCEPT ![ptr - 1] = total + 1],
                   errorCount |-> (log.errorCount + 1) % CountRange]
    /\ UNCHANGED <<pc, el, present, readAt, shown>>

-----------------------------------------------------------------------------
(* gosmart.                                                                *)

(* SmartReadLog and ParseSmartErrorLog: the whole log in one sector, or    *)
(* nil when the read or the checksum fails.                                *)
ReadLog ==
    /\ pc = "read" /\ pc' = "print"
    /\ \/ el' = log /\ present' = TRUE
       \/ el' = Empty /\ present' = FALSE
    /\ readAt' = total
    /\ UNCHANGED <<total, log, shown>>

(* The operator % of Go: the remainder has the sign of the dividend.       *)
Rem(a, b) == IF a >= 0 THEN a % b ELSE -((-a) % b)

(* Mutant: the pointer is taken for 0-based.                               *)
IndexZeroBased(ptr, n) == Rem(ptr - n + 5, 5)

(* The slot of the n-th line, n = 0 for the first.                         *)
Index(ptr, n) == Rem(ptr - 1 - n + 5, 5)

(* Mutant: the entry that was overwritten last is left out.                *)
ShownCountFour(count) == IF count > 4 THEN 4 ELSE count

ShownCount(count) == IF count > 5 THEN 5 ELSE count

(* The number printed and the entry, for every line.                       *)
Lines(l) ==
    [i \in 1 .. ShownCount(l.errorCount) |->
        [number |-> l.errorCount - (i - 1),
         entry  |-> l.entries[Index(l.logPointer, i - 1)]]]

printErrorLog ==
    /\ pc = "print" /\ present
    /\ pc' = "read"
    /\ shown' = [at    |-> readAt,
                 said  |-> IF el.errorCount = 0 THEN "No Errors Logged"
                                                ELSE "entries",
                 lines |-> Lines(el)]
    /\ UNCHANGED <<total, log, el, present, readAt>>

(* A nil log: the report leaves the section out.                           *)
NoSection ==
    /\ pc = "print" /\ ~present
    /\ pc' = "read"
    /\ shown' = [at |-> readAt, said |-> "nothing", lines |-> <<>>]
    /\ UNCHANGED <<total, log, el, present, readAt>>

Next == LogError \/ ReadLog \/ printErrorLog \/ NoSection

Spec == Init /\ [][Next]_vars

-----------------------------------------------------------------------------
(* Properties.                                                             *)

(* "Entries are in circular order; most recent first." (printer/ata.go:290)*)
(* The i-th line shows the i-th most recent error as of the read, wherever *)
(* the ring has wrapped to, even past a wrap of the counter, and never a   *)
(* slot that was not written.                                              *)
MostRecentFirst ==
    \A i \in DOMAIN shown.lines :
        shown.lines[i].entry = shown.at - (i - 1) /\ shown.lines[i].entry > 0

(* The length and the numbers of a section follow the counter, which wraps *)
(* (printer/ata.go:276-295): there are min(5, counter) lines, each with    *)
(* the ordinal of its error modulo CountRange, and "No Errors Logged" is   *)
(* said exactly when the counter is 0.  Until it wraps these are all the   *)
(* errors that the ring holds, under their own ordinals.                   *)
AllEntriesShown ==
    LET counted == shown.at % CountRange
    IN  shown.said # "nothing" =>
            /\ shown.said = "No Errors Logged" <=> counted = 0
            /\ Len(shown.lines) = IF counted > 5 THEN 5 ELSE counted
            /\ \A i \in DOMAIN shown.lines :
                  shown.lines[i].number = shown.lines[i].entry % CountRange
=============================================================================
