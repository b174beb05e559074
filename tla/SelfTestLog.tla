---------------------------- MODULE SelfTestLog -----------------------------
(***************************************************************************)
(* Self-tests: the ring of log entries and the execution status that the   *)
(* drive keeps (external), and what the full report says of them.  The     *)
(* execution status comes with SMART READ DATA, the log with a later       *)
(* command; tests start, go on and end between the two.                    *)
(*                                                                         *)
(* An entry carries the ordinal of its test; byte 0 of an empty one is 0.  *)
(***************************************************************************)
EXTENDS Integers

CONSTANTS
    Size,      \* 21: entries of the log
    Numbers,   \* test numbers (byte 0 of an entry) that are started
    Results,   \* how a test can end
    Steps,     \* tens of percent a test has before it when it starts
    MaxTests   \* bound on the tests of a drive

ASSUME SizeAssumption == Size \in Nat \ {0} /\ MaxTests \in Nat

ASSUME TestAssumption == /\ Numbers \subseteq 1 .. 255
                         /\ Results \subseteq 0 .. 14 /\ Steps \in 0 .. 9

VARIABLES
    total,    \* tests that have ended
    running,  \* number of the test under way, 0 for none
    exec,     \* SelfTestExecStatus, a byte
    ring,     \* the log: entries
    recent,   \* MostRecentTest: the last slot written, 0 for none
    next,     \* gosmart: what the handler does next, an index into Handler
    sv, sl,   \* the parsed sectors; sl.present is FALSE for a nil log
    shown     \* the self-test parts of the last report

driveVars == <<total, running, exec, ring, recent>>
vars == <<driveVars, next, sv, sl, shown>>

Slots == 1 .. Size

Empty == [number |-> 0, status |-> 0, test |-> 0]

NoLog == [present |-> FALSE, entries |-> [s \in Slots |-> Empty], recent |-> 0,
          total |-> 0]

NoData == [exec |-> 0, test |-> 0]

NoReport == [general |-> [text |-> 0, remaining |-> 0, test |-> 0],
             section |-> FALSE, rows |-> [s \in {} |-> Empty], total |-> 0]

Init ==
    /\ total = 0 /\ running = 0 /\ exec = 0
    /\ ring = [s \in Slots |-> Empty] /\ recent = 0
    /\ next = 1
    /\ sv = NoData /\ sl = NoLog
    /\ shown = NoReport

-----------------------------------------------------------------------------
(* The drive.                                                              *)

InProgress == 15

(* Status bytes: the result in the high nibble, tenths to go in the low.   *)
StatusByte(result, tenths) == 16 * result + tenths

StartTest(n) ==
    /\ running = 0 /\ total < MaxTests
    /\ running' = n /\ exec' = StatusByte(InProgress, Steps)
    /\ UNCHANGED <<total, ring, recent, next, sv, sl, shown>>

Progress ==
    /\ running # 0 /\ exec > StatusByte(InProgress, 0)
    /\ exec' = exec - 1
    /\ UNCHANGED <<total, running, ring, recent, next, sv, sl, shown>>

EndTest(result) ==
    /\ running # 0
    /\ LET slot   == IF recent = Size THEN 1 ELSE recent + 1
           status == StatusByte(result, exec % 16)
       IN  /\ recent' = slot
           /\ ring' = [ring EXCEPT ![slot] = [number |-> running,
                                              status |-> status,
                                              test   |-> total + 1]]
           /\ exec' = status
    /\ total' = total + 1 /\ running' = 0
    /\ UNCHANGED <<next, sv, sl, shown>>

-----------------------------------------------------------------------------
(* gosmart.                                                                *)

(* Mutant: the logs are read before the SMART data.                        *)
HandlerLogFirst == <<"ReadSelfTestLog", "SmartReadData", "Print">>

Handler == <<"SmartReadData", "ReadSelfTestLog", "Print">>

Does(step) == Handler[next] = step /\ next' = (next % 3) + 1

(* The test that the status byte is about: the running one, or the last.   *)
SubjectTest == IF running = 0 THEN total ELSE total + 1

SmartReadData ==
    /\ Does("SmartReadData")
    /\ sv' = [exec |-> exec, test |-> SubjectTest]
    /\ UNCHANGED <<driveVars, sl, shown>>

(* The sector, or nil when the read or the checksum fails.                 *)
ReadSelfTestLog ==
    /\ Does("ReadSelfTestLog")
    /\ \/ sl' = [present |-> TRUE, entries |-> ring, recent |-> recent,
                  total |-> total]
       \/ sl' = NoLog
    /\ UNCHANGED <<driveVars, sv, shown>>

SelfTestResult(status) == status \div 16

(* Mutant: the tenths done instead of the tenths to go.                    *)
SelfTestPercDone(status) == 10 - (status % 16)

SelfTestPercRemaining(status) == status % 16

Unknown == 16

(* The texts of the nine results and of a running test: both switches have *)
(* the same cases.                                                         *)
selfTestStatusString(result) ==
    IF result \in 0 .. 8 \cup {InProgress} THEN result ELSE Unknown

printGeneralValues ==
    LET stResult == sv.exec \div 16
        stPerc   == sv.exec % 16
    IN  [text      |-> selfTestStatusString(stResult),
         remaining |-> (stPerc * 10) % 256,
         test      |-> sv.test]

(* The mask removes the bit that the last four cases ask for.              *)
selfTestTypeName(num) ==
    LET n == num % 128
    IN  CASE n = 1   -> "Short offline"
          [] n = 2   -> "Extended offline"
          [] n = 3   -> "Conveyance offline"
          [] n = 4   -> "Selective offline"
          [] n = 129 -> "Short captive"
          [] n = 130 -> "Extended captive"
          [] n = 131 -> "Conveyance captive"
          [] n = 132 -> "Selective captive"
          [] OTHER   -> "Unknown"

(* Mutant: the loop stops at the most recent entry.                        *)
ListedToRecent(l) == {s \in Slots : l.entries[s].number # 0 /\ s <= l.recent}

(* The slots that get a row; without any the section says "No self-tests   *)
(* have been logged".                                                      *)
Listed(l) == {s \in Slots : l.entries[s].number # 0}

(* Row number = slot.  MostRecentTest is not looked at.                    *)
printSelfTestLog(l) ==
    [s \in Listed(l) |->
        LET e == l.entries[s]
        IN  [type   |-> selfTestTypeName(e.number),
             text   |-> selfTestStatusString(SelfTestResult(e.status)),
             remaining |-> (SelfTestPercRemaining(e.status) * 10) % 256,
             number |-> e.number, test |-> e.test]]

PrintReport ==
    /\ Does("Print")
    /\ shown' = [general |-> printGeneralValues,
                 section |-> sl.present,
                 rows    |-> printSelfTestLog(sl),
                 total   |-> sl.total]
    /\ sv' = NoData /\ sl' = NoLog
    /\ UNCHANGED driveVars

Next ==
    \/ \E n \in Numbers : StartTest(n)
    \/ Progress
    \/ \E r \in Results : EndTest(r)
    \/ SmartReadData \/ ReadSelfTestLog \/ PrintReport

Spec == Init /\ [][Next]_vars

-----------------------------------------------------------------------------
(* Properties.                                                             *)

Rows == DOMAIN shown.rows

(* The section has one row for each of the last Size tests that had ended  *)
(* when the log was read, and no other row; "No self-tests have been       *)
(* logged" (printer/ata.go:324) is said only of a drive that has run none. *)
(* The rows go from older to newer tests, but for the one place where the  *)
(* newest is followed by the oldest: MostRecentTest is not looked at       *)
(* (printer/ata.go:330).                                                   *)
EveryTestListedOnce ==
    shown.section =>
        /\ \A t \in 1 .. shown.total : t > shown.total - Size =>
              \E s \in Rows : shown.rows[s].test = t
        /\ \A s \in Rows : /\ shown.rows[s].test \in 1 .. shown.total
                           /\ shown.rows[s].test > shown.total - Size
        /\ \A r, s \in Rows : shown.rows[r].test = shown.rows[s].test => r = s
        /\ \A s \in Rows : s + 1 \in Rows =>
              \/ shown.rows[s + 1].test = shown.rows[s].test + 1
              \/ /\ shown.rows[s].test = shown.total
                 /\ shown.rows[s + 1].test = shown.total + 1 - Size

(* The two parts of one report fit together although they come from two    *)
(* commands: a test that the general section calls ended is in the log, or *)
(* has been overwritten since, and the log says of it what the general     *)
(* section says (main.go:127 reads the data, main.go:156 the log).         *)
EndedTestIsLogged ==
    shown.section /\ shown.general.test > 0
        /\ shown.general.text # InProgress =>
            \/ shown.total - shown.general.test >= Size
            \/ \E s \in Rows : /\ shown.rows[s].test = shown.general.test
                               /\ shown.rows[s].text = shown.general.text

(* h, said after g, does not take back what g said of the same test.       *)
RunsOn(g, h) ==
    h.test = g.test /\ h.text = InProgress =>
        g.text = InProgress /\ h.remaining <= g.remaining

(* Rows of the test that g calls running.                                  *)
EndsBelow(g, rows) ==
    \A s \in DOMAIN rows : rows[s].test = g.test /\ g.text = InProgress =>
        rows[s].remaining <= g.remaining

(* Of two reports on the same running test the later one does not have     *)
(* more percent remaining, and the test does not run on after it was       *)
(* reported as ended (printer/ata.go:135-163).  When it has ended, its row *)
(* has no more percent remaining (printer/ata.go:336) than any report said *)
(* while it ran, the general section of the same report included.          *)
ProgressOnlyForward ==
    [][/\ RunsOn(shown.general, shown'.general)
       /\ EndsBelow(shown.general, shown'.rows)]_vars

(* case 0x81: return "Short captive" (printer/ata.go:356-357, and three    *)
(* more): a captive test is listed as captive.                             *)
CaptiveIsNamed ==
    \A s \in Rows : shown.rows[s].number = 129 =>
        shown.rows[s].type = "Short captive"
=============================================================================
