-------------------------- MODULE SelfTestLogProofs --------------------------
(***************************************************************************)
(* Theorems about SelfTestLog, for every size of the log and any number of *)
(* tests.                                                                  *)
(***************************************************************************)
EXTENDS SelfTestLog, TLAPS

(* Which test a slot holds after t tests, the last one in slot r: up to r  *)
(* those of this lap, behind it those of the lap before, if there was one. *)
TestIn(s, r, t) == IF s <= r THEN t - (r - s)
                   ELSE IF t - r + s - Size > 0 THEN t - r + s - Size
                   ELSE 0

(* The ring after t tests: a number of 0 marks an empty entry.             *)
RingInv(e, r, t) ==
    /\ t \in Nat /\ r \in 0 .. Size /\ r <= t
    /\ e \in [Slots -> [number : Nat, status : Int, test : Nat]]
    /\ \A s \in Slots : /\ e[s].test = TestIn(s, r, t)
                        /\ e[s].number # 0 <=> e[s].test > 0

DriveInv == /\ RingInv(ring, recent, total)
            /\ running \in Nat /\ exec \in Int

(* A log that was read is a ring of some earlier time.                     *)
ReadInv == sl.present => RingInv(sl.entries, sl.recent, sl.total)

IInv == DriveInv /\ ReadInv /\ EveryTestListedOnce

-----------------------------------------------------------------------------
(* Each of the last Size tests is in exactly one slot.                     *)
LEMMA RingHoldsLastTests ==
    ASSUME NEW e, NEW r, NEW t, RingInv(e, r, t)
    PROVE  /\ \A u \in 1 .. t : u > t - Size =>
                 \E s \in Slots : e[s].number # 0 /\ e[s].test = u
           /\ \A s \in Slots : e[s].number # 0 =>
                 e[s].test \in 1 .. t /\ e[s].test > t - Size
           /\ \A s, v \in Slots : e[s].number # 0 /\ e[v].number # 0
                 /\ e[s].test = e[v].test => s = v
           /\ \A s \in Slots :
                 s + 1 \in Slots /\ e[s].number # 0 /\ e[s + 1].number # 0 =>
                    \/ e[s + 1].test = e[s].test + 1
                    \/ e[s].test = t /\ e[s + 1].test = t + 1 - Size
<1>1. ASSUME NEW u \in 1 .. t, u > t - Size
      PROVE  \E s \in Slots : e[s].number # 0 /\ e[s].test = u
  <2>1. CASE u > t - r
    <3> DEFINE s == u - (t - r)
    <3>1. s \in Slots /\ TestIn(s, r, t) = u
      BY <1>1, <2>1, SizeAssumption DEF RingInv, TestIn, Slots
    <3> HIDE DEF s
    <3> QED
      BY <3>1 DEF RingInv
  <2>2. CASE u <= t - r
    <3> DEFINE s == u - t + r + Size
    <3>1. s \in Slots /\ TestIn(s, r, t) = u
      BY <1>1, <2>2, SizeAssumption DEF RingInv, TestIn, Slots
    <3> HIDE DEF s
    <3> QED
      BY <3>1 DEF RingInv
  <2> QED
    BY <2>1, <2>2 DEF RingInv
<1>2. ASSUME NEW s \in Slots, e[s].number # 0
      PROVE  e[s].test \in 1 .. t /\ e[s].test > t - Size
  <2>1. e[s].test = TestIn(s, r, t) /\ e[s].test > 0
    BY <1>2 DEF RingInv
  <2> QED
    BY <2>1, SizeAssumption DEF RingInv, TestIn, Slots
<1>3. ASSUME NEW s \in Slots, NEW v \in Slots, e[s].number # 0,
             e[v].number # 0, e[s].test = e[v].test
      PROVE  s = v
  <2>1. TestIn(s, r, t) = TestIn(v, r, t) /\ TestIn(s, r, t) > 0
    BY <1>3 DEF RingInv
  <2>2. s \in 1 .. Size /\ v \in 1 .. Size /\ Size \in Nat /\ r \in Nat
        /\ t \in Nat /\ r <= t
    BY SizeAssumption DEF Slots, RingInv
  <2>3. CASE s <= r /\ v <= r
    <3>1. t - (r - s) = t - (r - v)
      BY <2>1, <2>3 DEF TestIn
    <3> QED
      BY <3>1, <2>2
  <2>4. CASE s > r /\ v > r
    BY <2>1, <2>2, <2>4 DEF TestIn
  <2>5. CASE s <= r /\ v > r
    BY <2>1, <2>2, <2>5 DEF TestIn
  <2>6. CASE s > r /\ v <= r
    BY <2>1, <2>2, <2>6 DEF TestIn
  <2> QED
    BY <2>2, <2>3, <2>4, <2>5, <2>6
<1>4. ASSUME NEW s \in Slots, s + 1 \in Slots, e[s].number # 0,
             e[s + 1].number # 0
      PROVE  \/ e[s + 1].test = e[s].test + 1
             \/ e[s].test = t /\ e[s + 1].test = t + 1 - Size
  <2>1. /\ e[s].test = TestIn(s, r, t) /\ e[s].test > 0
        /\ e[s + 1].test = TestIn(s + 1, r, t) /\ e[s + 1].test > 0
    BY <1>4 DEF RingInv
  <2>2. s \in 1 .. Size /\ Size \in Nat /\ r \in Nat /\ t \in Nat /\ r <= t
    BY SizeAssumption DEF Slots, RingInv
  <2>3. CASE s < r
    BY <2>1, <2>2, <2>3 DEF TestIn
  <2>4. CASE s = r
    BY <2>1, <2>2, <2>4 DEF TestIn
  <2>5. CASE s > r
    BY <2>1, <2>2, <2>5 DEF TestIn
  <2> QED
    BY <2>2, <2>3, <2>4, <2>5
<1> QED
  BY <1>1, <1>2, <1>3, <1>4

(* One more test: the slot after the last one, or the first again.         *)
LEMMA RingTakesNextTest ==
    ASSUME NEW e, NEW r, NEW t, RingInv(e, r, t),
           NEW n \in Nat \ {0}, NEW x \in Int
    PROVE  LET slot == IF r = Size THEN 1 ELSE r + 1
           IN  RingInv([e EXCEPT ![slot] = [number |-> n, status |-> x,
                                            test |-> t + 1]], slot, t + 1)
<1> DEFINE slot == IF r = Size THEN 1 ELSE r + 1
           entry == [number |-> n, status |-> x, test |-> t + 1]
           f == [e EXCEPT ![slot] = entry]
<1>1. slot \in Slots /\ slot <= t + 1 /\ t + 1 \in Nat /\ slot \in 0 .. Size
  BY SizeAssumption DEF RingInv, Slots
<1>2. entry \in [number : Nat, status : Int, test : Nat]
  BY <1>1
<1>3. f \in [Slots -> [number : Nat, status : Int, test : Nat]]
  BY <1>1, <1>2 DEF RingInv
<1>4. ASSUME NEW s \in Slots
      PROVE  /\ f[s].test = TestIn(s, slot, t + 1)
             /\ f[s].number # 0 <=> f[s].test > 0
  <2>1. CASE s = slot
    <3>1. f[s].test = t + 1 /\ f[s].number = n
      BY <2>1, <1>1 DEF RingInv
    <3>2. TestIn(s, slot, t + 1) = t + 1 /\ t + 1 > 0
      BY <2>1, <1>1 DEF TestIn, Slots, RingInv
    <3> HIDE DEF f, slot
    <3> QED
      BY <3>1, <3>2
  <2>2. CASE s # slot
    <3>1. f[s] = e[s]
      BY <2>2, <1>1 DEF RingInv
    <3>2. TestIn(s, slot, t + 1) = TestIn(s, r, t)
      <4>1. s \in 1 .. Size /\ Size \in Nat \ {0} /\ r \in 0 .. Size
            /\ t \in Nat /\ r <= t
        BY SizeAssumption DEF Slots, RingInv
      <4>2. CASE r = Size
        BY <2>2, <4>1, <4>2 DEF TestIn
      <4>3. CASE r # Size /\ s <= r
        BY <2>2, <4>1, <4>3 DEF TestIn
      <4>4. CASE r # Size /\ s > r
        BY <2>2, <4>1, <4>4 DEF TestIn
      <4> QED
        BY <4>1, <4>2, <4>3, <4>4
    <3> HIDE DEF f, slot
    <3>3. e[s].test = TestIn(s, r, t) /\ (e[s].number # 0 <=> e[s].test > 0)
      BY DEF RingInv
    <3> QED
      BY <3>1, <3>2, <3>3
  <2> QED
    BY <2>1, <2>2
<1> HIDE DEF f, slot
<1>5. RingInv(f, slot, t + 1)
  BY <1>1, <1>3, <1>4 DEF RingInv
<1> QED
  BY <1>5 DEF f, slot

-----------------------------------------------------------------------------
(* The log keeps its order whatever the drive does.                        *)
LEMMA DriveKeepsRing == DriveInv /\ [Next]_vars => DriveInv'
<1> SUFFICES ASSUME DriveInv, [Next]_vars PROVE DriveInv'
  OBVIOUS
<1>1. ASSUME NEW n \in Numbers, StartTest(n) PROVE DriveInv'
  BY <1>1, TestAssumption DEF StartTest, StatusByte, InProgress, DriveInv
<1>2. CASE Progress
  BY <1>2 DEF Progress, DriveInv
<1>3. ASSUME NEW q \in Results, EndTest(q) PROVE DriveInv'
  <2> DEFINE status == StatusByte(q, exec % 16)
  <2>1. status \in Int
    BY TestAssumption DEF StatusByte, DriveInv
  <2>2. running \in Nat \ {0}
    BY <1>3 DEF EndTest, DriveInv
  <2>3. RingInv(ring, recent, total)
    BY DEF DriveInv
  <2>4. RingInv(ring', recent', total')
    BY <1>3, <2>1, <2>2, <2>3, RingTakesNextTest DEF EndTest
  <2>5. running' \in Nat /\ exec' \in Int
    BY <1>3, <2>1 DEF EndTest
  <2> QED
    BY <2>4, <2>5 DEF DriveInv
<1>4. CASE UNCHANGED driveVars
  BY <1>4 DEF driveVars, DriveInv
<1> QED
  BY <1>1, <1>2, <1>3, <1>4
  DEF Next, SmartReadData, ReadSelfTestLog, PrintReport, vars

(* What is read and printed comes from such a log.                         *)
LEMMA ReportKeepsRows ==
    IInv /\ [Next]_vars => ReadInv' /\ EveryTestListedOnce'
<1> SUFFICES ASSUME IInv, [Next]_vars PROVE ReadInv' /\ EveryTestListedOnce'
  OBVIOUS
<1>1. CASE ReadSelfTestLog
  <2>1. ReadInv'
    BY <1>1 DEF ReadSelfTestLog, ReadInv, NoLog, IInv, DriveInv
  <2>2. EveryTestListedOnce'
    BY <1>1 DEF ReadSelfTestLog, IInv, EveryTestListedOnce, Rows
  <2> QED
    BY <2>1, <2>2
<1>2. CASE PrintReport
  <2>1. ReadInv'
    BY <1>2 DEF PrintReport, ReadInv, NoLog
  <2>2. ASSUME sl.present PROVE EveryTestListedOnce'
    <3>1. RingInv(sl.entries, sl.recent, sl.total)
      BY <2>2 DEF IInv, ReadInv
    <3>2. /\ shown'.total = sl.total
          /\ DOMAIN shown'.rows = {s \in Slots : sl.entries[s].number # 0}
          /\ \A s \in DOMAIN shown'.rows :
                shown'.rows[s].test = sl.entries[s].test
      BY <1>2 DEF PrintReport, printSelfTestLog, Listed
    <3> QED
      BY <3>1, <3>2, RingHoldsLastTests DEF EveryTestListedOnce, Rows
  <2>3. ASSUME ~sl.present PROVE EveryTestListedOnce'
    BY <1>2, <2>3 DEF PrintReport, EveryTestListedOnce
  <2> QED
    BY <2>1, <2>2, <2>3
<1>3. CASE UNCHANGED <<sl, shown>>
  BY <1>3 DEF IInv, ReadInv, EveryTestListedOnce, Rows
<1> QED
  BY <1>1, <1>2, <1>3
  DEF Next, StartTest, Progress, EndTest, SmartReadData, vars

(* The invariant of the ring and of the rows.                              *)
THEOREM RingInvariance == Spec => []IInv
<1>1. Init => IInv
  <2> SUFFICES ASSUME Init PROVE IInv
    OBVIOUS
  <2>1. RingInv(ring, recent, total)
    BY SizeAssumption DEF Init, RingInv, TestIn, Slots, Empty
  <2> QED
    BY <2>1 DEF Init, IInv, DriveInv, ReadInv, NoLog, NoReport,
                EveryTestListedOnce
<1>2. IInv /\ [Next]_vars => IInv'
  BY DriveKeepsRing, ReportKeepsRows DEF IInv
<1> QED
  BY <1>1, <1>2, PTL DEF Spec

(* The self-test section has exactly one row for each of the last Size     *)
(* tests that had ended when the log was read, however often the ring has  *)
(* wrapped, although the printer ignores MostRecentTest.                   *)
THEOREM EveryTestIsListedOnce == Spec => []EveryTestListedOnce
<1>1. IInv => EveryTestListedOnce
  BY DEF IInv
<1> QED
  BY <1>1, RingInvariance, PTL

-----------------------------------------------------------------------------
(* The two parts of one report.                                            *)

(* The texts of a status byte.                                             *)
Text(status) == selfTestStatusString(SelfTestResult(status))

(* A status byte of a test that has ended.                                 *)
EndedIn(v) == v.test > 0 /\ Text(v.exec) # InProgress

(* Entries of the test that v is about have the status that v has.         *)
Agrees(e, v) == \A s \in Slots : e[s].number # 0 /\ e[s].test = v.test =>
                                     e[s].status = v.exec

(* The execution status of the drive: that of the running test, or that of *)
(* the entry written last.                                                 *)
StatusInv ==
    /\ next \in 1 .. 3 /\ exec \in 0 .. 255
    /\ running # 0 => exec >= StatusByte(InProgress, 0)
    /\ running = 0 => exec < StatusByte(InProgress, 0)
    /\ running = 0 /\ total > 0 => recent \in Slots /\ ring[recent].status = exec

(* A status that was read is older than a log that was read after it, and  *)
(* the log of the drive keeps its result until it is overwritten.          *)
PairInv ==
    /\ sv.test \in Nat /\ sv.exec \in 0 .. 255
    /\ next # 3 => ~sl.present
    /\ EndedIn(sv) =>
          /\ sv.test <= total /\ Agrees(ring, sv)
          /\ sl.present => sv.test <= sl.total /\ Agrees(sl.entries, sv)

LogInv == StatusInv /\ PairInv /\ EndedTestIsLogged

(* Where each step of the report stands in the handler.                    *)
LEMMA Positions ==
    ASSUME next \in 1 .. 3, NEW step, Does(step)
    PROVE  /\ step = "SmartReadData" => next = 1 /\ next' = 2
           /\ step = "ReadSelfTestLog" => next = 2 /\ next' = 3
           /\ step = "Print" => next = 3 /\ next' = 1
<1>1. Handler[1] = "SmartReadData" /\ Handler[2] = "ReadSelfTestLog"
      /\ Handler[3] = "Print"
  BY DEF Handler
<1> QED BY <1>1 DEF Does

(* The text of a status byte says whether the test is running.             *)
LEMMA TextOfStatus ==
    ASSUME NEW x \in 0 .. 255
    PROVE  Text(x) = InProgress <=> x >= StatusByte(InProgress, 0)
<1> DEFINE q == x \div 16
<1>1. q \in 0 .. 15 /\ (q = 15 <=> x >= 240)
  OBVIOUS
<1>2. Text(x) = IF q \in 0 .. 8 \cup {15} THEN q ELSE 16
  BY DEF Text, selfTestStatusString, SelfTestResult, InProgress, Unknown
<1> HIDE DEF q
<1> QED BY <1>1, <1>2 DEF StatusByte, InProgress

(* The status byte of a test that ends.                                    *)
LEMMA EndedStatus ==
    ASSUME NEW q \in Results, NEW x \in 0 .. 255
    PROVE  /\ StatusByte(q, x % 16) \in 0 .. 255
           /\ StatusByte(q, x % 16) < StatusByte(InProgress, 0)
<1>1. q \in 0 .. 14 /\ x % 16 \in 0 .. 15
  BY TestAssumption
<1> QED BY <1>1 DEF StatusByte, InProgress

(* Of the drive, only the end of a test adds an entry, and that one is     *)
(* about a test that no status read before calls ended.                    *)
LEMMA StatusStep ==
    ASSUME IInv, LogInv,
           \/ \E n \in Numbers : StartTest(n)
           \/ Progress
           \/ \E q \in Results : EndTest(q)
    PROVE  LogInv'
<1>0. /\ RingInv(ring, recent, total) /\ total \in Nat /\ recent \in 0 .. Size
      /\ exec \in 0 .. 255 /\ Size \in Nat \ {0}
  BY SizeAssumption DEF IInv, DriveInv, RingInv, LogInv, StatusInv
<1>1. /\ UNCHANGED <<next, sv, sl, shown>>
      /\ EndedTestIsLogged'
  <2>1. UNCHANGED <<next, sv, sl, shown>>
    BY DEF StartTest, Progress, EndTest
  <2> QED BY <2>1 DEF LogInv, EndedTestIsLogged, Rows
<1>2. ASSUME UNCHANGED <<ring, total>>
      PROVE  PairInv'
  BY <1>1, <1>2 DEF LogInv, PairInv, EndedIn, Text, Agrees
<1>3. ASSUME NEW n \in Numbers, StartTest(n)
      PROVE  StatusInv' /\ UNCHANGED <<ring, total>>
  <2>1. StatusByte(InProgress, Steps) \in 240 .. 249
    BY TestAssumption DEF StatusByte, InProgress
  <2>2. n # 0
    BY TestAssumption
  <2> QED BY <1>1, <1>3, <2>1, <2>2 DEF StartTest, LogInv, StatusInv,
            StatusByte, InProgress
<1>4. ASSUME Progress
      PROVE  StatusInv' /\ UNCHANGED <<ring, total>>
  BY <1>0, <1>1, <1>4 DEF Progress, LogInv, StatusInv, StatusByte, InProgress
<1>5. ASSUME NEW q \in Results, EndTest(q)
      PROVE  LogInv'
  <2> DEFINE slot == IF recent = Size THEN 1 ELSE recent + 1
             status == StatusByte(q, exec % 16)
             entry == [number |-> running, status |-> status, test |-> total + 1]
  <2>1. slot \in Slots
    BY <1>0 DEF Slots
  <2>2. /\ ring' = [ring EXCEPT ![slot] = entry] /\ recent' = slot
        /\ exec' = status /\ total' = total + 1 /\ running' = 0
    BY <1>5 DEF EndTest
  <2>3. /\ ring'[slot] = entry
        /\ \A s \in Slots : s # slot => ring'[s] = ring[s]
    BY <1>0, <2>1, <2>2 DEF RingInv
  <2>4. status \in 0 .. 255 /\ status < StatusByte(InProgress, 0)
    BY <1>0, EndedStatus
  <2>5. ring'[slot].status = status /\ ring'[slot].test = total + 1
    BY <2>3
  <2> HIDE DEF slot, status, entry
  <2>6. StatusInv'
    BY <1>1, <2>1, <2>2, <2>4, <2>5 DEF LogInv, StatusInv, StatusByte, InProgress
  <2>7. ASSUME EndedIn(sv)
        PROVE  sv.test <= total' /\ Agrees(ring', sv)
    <3>1. sv.test <= total /\ Agrees(ring, sv) /\ sv.test \in Nat
      BY <2>7 DEF LogInv, PairInv
    <3>2. sv.test # total + 1 /\ sv.test <= total + 1
      BY <1>0, <3>1
    <3> QED BY <2>2, <2>3, <2>5, <3>1, <3>2 DEF Agrees
  <2>8. PairInv'
    BY <1>1, <2>7 DEF LogInv, PairInv, EndedIn, Text, Agrees
  <2> QED BY <1>1, <2>6, <2>8 DEF LogInv
<1>6. PairInv' /\ StatusInv' => LogInv'
  BY <1>1 DEF LogInv
<1> QED BY <1>2, <1>3, <1>4, <1>5, <1>6

(* Reading and printing.                                                   *)
LEMMA ReportsAgree ==
    ASSUME IInv, LogInv, SmartReadData \/ ReadSelfTestLog \/ PrintReport
    PROVE  LogInv'
<1>0. /\ RingInv(ring, recent, total) /\ total \in Nat /\ recent \in 0 .. Size
      /\ next \in 1 .. 3 /\ exec \in 0 .. 255 /\ Size \in Nat \ {0}
  BY SizeAssumption DEF IInv, DriveInv, RingInv, LogInv, StatusInv
<1>1. UNCHANGED driveVars
  BY DEF SmartReadData, ReadSelfTestLog, PrintReport
<1>2. next' \in 1 .. 3 => StatusInv'
  BY <1>1 DEF LogInv, StatusInv, driveVars
<1>3. CASE SmartReadData
  <2>1. /\ next = 1 /\ next' = 2 /\ UNCHANGED <<sl, shown>>
        /\ sv' = [exec |-> exec, test |-> SubjectTest]
    BY <1>0, <1>3, Positions DEF SmartReadData
  <2>2. sv'.exec = exec /\ sv'.test = SubjectTest /\ SubjectTest \in Nat
    BY <1>0, <2>1 DEF SubjectTest
  <2>3. ~sl.present
    BY <2>1 DEF LogInv, PairInv
  <2>4. ASSUME EndedIn(sv')
        PROVE  sv'.test <= total /\ Agrees(ring, sv')
    <3>1. running = 0 /\ sv'.test = total /\ total > 0
      BY <1>0, <2>2, <2>4, TextOfStatus DEF EndedIn, LogInv, StatusInv,
           SubjectTest
    <3>2. recent \in Slots /\ ring[recent].status = exec
      BY <3>1 DEF LogInv, StatusInv
    <3>3. ring[recent].test = total /\ ring[recent].number # 0
      <4>1. TestIn(recent, recent, total) = total
        BY <1>0 DEF TestIn
      <4> QED BY <1>0, <3>1, <3>2, <4>1 DEF RingInv
    <3>4. \A s \in Slots : ring[s].number # 0 /\ ring[s].test = total =>
             s = recent
      BY <1>0, <3>2, <3>3, RingHoldsLastTests
    <3>5. Agrees(ring, sv')
      BY <2>2, <3>1, <3>2, <3>4 DEF Agrees
    <3> QED BY <1>0, <3>1, <3>5
  <2>5. PairInv'
    <3>1. sv'.test \in Nat /\ sv'.exec \in 0 .. 255 /\ ~sl'.present
      BY <1>0, <2>1, <2>2, <2>3
    <3>2. EndedIn(sv)' => sv'.test <= total' /\ Agrees(ring, sv)'
      BY <1>1, <2>4 DEF driveVars, EndedIn, Text, Agrees
    <3> QED BY <3>1, <3>2 DEF PairInv
  <2>6. EndedTestIsLogged'
    BY <2>1 DEF LogInv, EndedTestIsLogged, Rows
  <2> QED BY <1>2, <2>1, <2>5, <2>6 DEF LogInv
<1>4. CASE ReadSelfTestLog
  <2>1. /\ next' = 3 /\ UNCHANGED <<sv, shown>>
        /\ \/ sl' = [present |-> TRUE, entries |-> ring, recent |-> recent,
                     total |-> total]
           \/ sl' = NoLog
    BY <1>0, <1>4, Positions DEF ReadSelfTestLog
  <2>2. sl'.present => sl'.entries = ring /\ sl'.total = total
    BY <2>1 DEF NoLog
  <2>3. PairInv'
    BY <1>1, <2>1, <2>2 DEF LogInv, PairInv, EndedIn, Text, Agrees, driveVars
  <2>4. EndedTestIsLogged'
    BY <2>1 DEF LogInv, EndedTestIsLogged, Rows
  <2> QED BY <1>2, <2>1, <2>3, <2>4 DEF LogInv
<1>5. CASE PrintReport
  <2>1. next' = 1 /\ sv' = NoData /\ sl' = NoLog
    BY <1>0, <1>5, Positions DEF PrintReport
  <2>2. PairInv'
    BY <2>1 DEF PairInv, NoData, NoLog, EndedIn
  <2>3. EndedTestIsLogged'
    <3>1. /\ shown'.section = sl.present /\ shown'.total = sl.total
          /\ shown'.general.test = sv.test
          /\ shown'.general.text = Text(sv.exec)
      BY <1>5 DEF PrintReport, printGeneralValues, Text, SelfTestResult
    <3>2. /\ DOMAIN shown'.rows = {s \in Slots : sl.entries[s].number # 0}
          /\ \A s \in DOMAIN shown'.rows :
                /\ shown'.rows[s].test = sl.entries[s].test
                /\ shown'.rows[s].text = Text(sl.entries[s].status)
      BY <1>5 DEF PrintReport, printSelfTestLog, Listed, Text
    <3> SUFFICES ASSUME sl.present, EndedIn(sv), sl.total - sv.test < Size
                 PROVE  \E s \in DOMAIN shown'.rows :
                           /\ shown'.rows[s].test = sv.test
                           /\ shown'.rows[s].text = Text(sv.exec)
      <4>1. sl.present /\ EndedIn(sv) => sl.total \in Nat /\ sv.test \in Nat
        BY DEF IInv, ReadInv, RingInv, LogInv, PairInv
      <4> QED BY <1>0, <3>1, <4>1 DEF EndedTestIsLogged, EndedIn, Rows
    <3>3. /\ RingInv(sl.entries, sl.recent, sl.total) /\ sl.total \in Nat
          /\ sv.test \in 1 .. sl.total /\ Agrees(sl.entries, sv)
      BY DEF IInv, ReadInv, RingInv, LogInv, PairInv, EndedIn
    <3>4. sv.test > sl.total - Size
      BY <1>0, <3>3
    <3>5. PICK s \in Slots : sl.entries[s].number # 0
                             /\ sl.entries[s].test = sv.test
      BY <3>3, <3>4, RingHoldsLastTests
    <3>6. sl.entries[s].status = sv.exec
      BY <3>3, <3>5 DEF Agrees
    <3> QED BY <3>2, <3>5, <3>6
  <2> QED BY <1>2, <2>1, <2>2, <2>3 DEF LogInv
<1> QED BY <1>3, <1>4, <1>5

(* The invariant of both parts holds in every reachable state.             *)
THEOREM LogInvariance == Spec => []LogInv
<1>1. Init => LogInv
  BY DEF Init, LogInv, StatusInv, PairInv, EndedTestIsLogged, NoData, NoLog,
       NoReport, EndedIn, StatusByte, InProgress
<1>2. IInv /\ LogInv /\ [Next]_vars => LogInv'
  <2> SUFFICES ASSUME IInv, LogInv, [Next]_vars PROVE LogInv'
    OBVIOUS
  <2>1. CASE UNCHANGED vars
    BY <2>1 DEF LogInv, StatusInv, PairInv, EndedTestIsLogged, EndedIn, Text,
         Agrees, Rows, vars, driveVars
  <2> QED BY <2>1, StatusStep, ReportsAgree DEF Next
<1> QED BY <1>1, <1>2, RingInvariance, PTL DEF Spec

(* A test that the general section calls ended is in the log of the same   *)
(* report with the same result, unless Size later tests have overwritten   *)
(* it, whatever starts, goes on or ends between the two commands.          *)
THEOREM EndedTestsAreLogged == Spec => []EndedTestIsLogged
<1>1. LogInv => EndedTestIsLogged
  BY DEF LogInv
<1> QED BY <1>1, LogInvariance, PTL

-----------------------------------------------------------------------------
(* One report after another.                                               *)

(* What a general section says of the status byte x of test t.             *)
General(x, t) == [text      |-> Text(x),
                  remaining |-> (SelfTestPercRemaining(x) * 10) % 256,
                  test      |-> t]

(* What it would say now.                                                  *)
Now == General(exec, SubjectTest)

(* h may be said after g: of a later test, or of the same test no further  *)
(* from its end.                                                           *)
Precedes(g, h) ==
    /\ g.test \in Nat /\ h.test \in Nat /\ g.test <= h.test
    /\ g.remaining \in Nat /\ h.remaining \in Nat
    /\ g.test = h.test /\ h.text = InProgress =>
          g.text = InProgress /\ h.remaining <= g.remaining

(* The last report, the status in hand and the drive, in this order.       *)
ForwardInv ==
    /\ Precedes(shown.general, Now)
    /\ next \in {2, 3} => /\ Precedes(shown.general, General(sv.exec, sv.test))
                          /\ Precedes(General(sv.exec, sv.test), Now)

(* It is what the printer, which decodes the byte itself, makes of it.     *)
LEMMA GeneralPrinted == printGeneralValues = General(sv.exec, sv.test)
BY DEF printGeneralValues, General, Text, SelfTestResult, SelfTestPercRemaining

(* The percentage of a status byte does not overflow a byte.               *)
LEMMA RemainingType ==
    ASSUME NEW x \in 0 .. 255
    PROVE  /\ SelfTestPercRemaining(x) \in 0 .. 15
           /\ (SelfTestPercRemaining(x) * 10) % 256 = SelfTestPercRemaining(x) * 10
<1> DEFINE p == SelfTestPercRemaining(x)
<1>1. p \in 0 .. 15
  BY DEF SelfTestPercRemaining
<1> HIDE DEF p
<1>2. (p * 10) % 256 = p * 10
  BY <1>1
<1> QED BY <1>1, <1>2 DEF p

(* The fields of what a general section says.                              *)
LEMMA GeneralFields ==
    ASSUME NEW x \in 0 .. 255, NEW t
    PROVE  /\ General(x, t).text = Text(x) /\ General(x, t).test = t
           /\ General(x, t).remaining = SelfTestPercRemaining(x) * 10
           /\ General(x, t).remaining \in Nat
<1> DEFINE p == SelfTestPercRemaining(x)
<1>1. p \in 0 .. 15 /\ (p * 10) % 256 = p * 10
  BY RemainingType
<1> HIDE DEF p
<1>2. p * 10 \in Nat
  BY <1>1
<1>3. General(x, t) = [text |-> Text(x), remaining |-> p * 10, test |-> t]
  BY <1>1 DEF General, p
<1> QED BY <1>2, <1>3 DEF p

(* What could be said now moves forward with every step of the drive.      *)
LEMMA NowMovesForward ==
    ASSUME IInv, LogInv, NEW g, Precedes(g, Now),
           \/ \E n \in Numbers : StartTest(n)
           \/ Progress
           \/ \E q \in Results : EndTest(q)
    PROVE  Precedes(g, Now')
<1>0. total \in Nat /\ exec \in 0 .. 255 /\ running \in Nat
  BY DEF IInv, DriveInv, RingInv, LogInv, StatusInv
<1>1. exec' \in 0 .. 255 /\ StatusInv'
  BY StatusStep DEF LogInv, StatusInv
<1>2. /\ Now.text = Text(exec) /\ Now.test = SubjectTest
      /\ Now.remaining = SelfTestPercRemaining(exec) * 10
      /\ SelfTestPercRemaining(exec) \in 0 .. 15
  BY <1>0, GeneralFields, RemainingType DEF Now
<1>3. /\ Now'.text = Text(exec') /\ Now'.test = SubjectTest'
      /\ Now'.remaining = SelfTestPercRemaining(exec') * 10
      /\ SelfTestPercRemaining(exec') \in 0 .. 15
  <2>1. Now' = General(exec', SubjectTest')
    BY DEF Now, General, Text, SelfTestPercRemaining, SelfTestResult,
         selfTestStatusString
  <2> QED BY <1>1, <2>1, GeneralFields, RemainingType
<1>4. /\ g.test \in Nat /\ g.remaining \in Nat /\ g.test <= SubjectTest
      /\ g.test = SubjectTest /\ Text(exec) = InProgress =>
            g.text = InProgress /\ Now.remaining <= g.remaining
  BY <1>2 DEF Precedes
<1>5. ASSUME NEW n \in Numbers, StartTest(n)
      PROVE  Precedes(g, Now')
  <2>1. SubjectTest = total /\ SubjectTest' = total + 1
    <3>1. n # 0
      BY TestAssumption
    <3> QED BY <1>5, <3>1 DEF StartTest, SubjectTest
  <2> QED BY <1>0, <1>3, <1>4, <2>1 DEF Precedes
<1>6. CASE Progress
  <2>1. SubjectTest' = SubjectTest /\ SubjectTest \in Nat
    BY <1>0, <1>6 DEF Progress, SubjectTest
  <2>2. Text(exec) = InProgress
    BY <1>0, <1>6, TextOfStatus DEF Progress, LogInv, StatusInv
  <2>3. SelfTestPercRemaining(exec') <= SelfTestPercRemaining(exec)
    <3>1. exec \in 241 .. 255 /\ exec' = exec - 1
      BY <1>0, <1>6 DEF Progress, StatusByte, InProgress
    <3> QED BY <3>1 DEF SelfTestPercRemaining
  <2>4. Now'.remaining <= Now.remaining /\ Now.remaining \in Nat
        /\ Now'.remaining \in Nat
    BY <1>2, <1>3, <2>3
  <2> QED BY <1>3, <1>4, <2>1, <2>2, <2>4 DEF Precedes
<1>7. ASSUME NEW q \in Results, EndTest(q)
      PROVE  Precedes(g, Now')
  <2>1. SubjectTest = total + 1 /\ SubjectTest' = total + 1
    BY <1>7 DEF EndTest, SubjectTest
  <2>2. Text(exec') # InProgress
    <3>1. exec' = StatusByte(q, exec % 16)
      BY <1>7 DEF EndTest
    <3>2. exec' < StatusByte(InProgress, 0)
      BY <1>0, <3>1, EndedStatus
    <3>3. StatusByte(InProgress, 0) \in Nat
      BY DEF StatusByte, InProgress
    <3>4. ~(exec' >= StatusByte(InProgress, 0))
      BY <1>1, <3>2, <3>3
    <3> QED BY <1>1, <3>4, TextOfStatus
  <2> QED BY <1>0, <1>3, <1>4, <2>1, <2>2 DEF Precedes
<1> QED BY <1>5, <1>6, <1>7

(* Reports follow each other in the order of Precedes.                     *)
THEOREM ForwardInvariance == Spec => []ForwardInv
<1>1. Init => ForwardInv
  <2> SUFFICES ASSUME Init PROVE ForwardInv
    OBVIOUS
  <2>1. Now.test = 0 /\ Now.text = Text(0) /\ Now.remaining \in Nat
    <3>1. exec = 0 /\ SubjectTest = 0 /\ 0 \in 0 .. 255
      BY DEF Init, SubjectTest
    <3>2. Now = General(0, 0)
      BY <3>1 DEF Now
    <3> QED BY <3>1, <3>2, GeneralFields
  <2>2. Text(0) # InProgress
    BY TextOfStatus DEF StatusByte, InProgress
  <2> QED BY <2>1, <2>2 DEF Init, ForwardInv, Precedes, NoReport
<1>2. IInv /\ LogInv /\ ForwardInv /\ [Next]_vars => ForwardInv'
  <2> SUFFICES ASSUME IInv, LogInv, ForwardInv, [Next]_vars PROVE ForwardInv'
    OBVIOUS
  <2>0. /\ next \in 1 .. 3 /\ exec \in 0 .. 255 /\ total \in Nat
        /\ SubjectTest \in Nat
    BY DEF IInv, DriveInv, RingInv, LogInv, StatusInv, SubjectTest
  <2>1. CASE \/ \E n \in Numbers : StartTest(n)
             \/ Progress
             \/ \E q \in Results : EndTest(q)
    <3>1. UNCHANGED <<next, sv, shown>>
      BY <2>1 DEF StartTest, Progress, EndTest
    <3>2. Precedes(shown.general, Now')
      BY <2>1, NowMovesForward DEF ForwardInv
    <3>3. next \in {2, 3} => Precedes(General(sv.exec, sv.test), Now')
      BY <2>1, NowMovesForward DEF ForwardInv
    <3> QED BY <3>1, <3>2, <3>3 DEF ForwardInv, Precedes, General, Text
  <2>2. CASE UNCHANGED <<driveVars, sv, shown>> /\ (next' \in {2, 3} => next \in {2, 3})
    BY <2>2 DEF ForwardInv, Precedes, General, Text, Now, SubjectTest, driveVars
  <2>3. CASE SmartReadData
    <3>1. /\ next' = 2 /\ UNCHANGED <<driveVars, shown>>
          /\ sv'.exec = exec /\ sv'.test = SubjectTest
      BY <2>0, <2>3, Positions DEF SmartReadData
    <3>2. Now' = Now
      BY <3>1 DEF Now, General, SubjectTest, driveVars
    <3>3. Precedes(Now, Now)
      <4>1. Now.test \in Nat /\ Now.remaining \in Nat
        BY <2>0, GeneralFields DEF Now
      <4> QED BY <4>1 DEF Precedes
    <3>4. General(sv'.exec, sv'.test) = Now
      BY <3>1 DEF Now
    <3>5. /\ Precedes(shown'.general, Now')
          /\ Precedes(shown'.general, General(sv'.exec, sv'.test))
          /\ Precedes(General(sv'.exec, sv'.test), Now')
      BY <3>1, <3>2, <3>3, <3>4 DEF ForwardInv
    <3> QED BY <3>5 DEF ForwardInv, Precedes, General, Text
  <2>4. CASE PrintReport
    <3>1. /\ next = 3 /\ next' = 1 /\ UNCHANGED driveVars
          /\ shown'.general = General(sv.exec, sv.test)
      BY <2>0, <2>4, Positions, GeneralPrinted DEF PrintReport
    <3>2. Now' = Now
      BY <3>1 DEF Now, General, SubjectTest, driveVars
    <3>3. Precedes(shown'.general, Now')
      BY <3>1, <3>2 DEF ForwardInv
    <3> QED BY <3>1, <3>3 DEF ForwardInv, Precedes
  <2>5. CASE ReadSelfTestLog
    BY <2>0, <2>2, <2>5, Positions DEF ReadSelfTestLog
  <2>6. CASE UNCHANGED vars
    BY <2>2, <2>6 DEF vars
  <2> QED BY <2>1, <2>3, <2>4, <2>5, <2>6 DEF Next
<1> QED BY <1>1, <1>2, RingInvariance, LogInvariance, PTL DEF Spec

-----------------------------------------------------------------------------
(* The rows of a test that was seen running.                               *)

(* Entries of the test that g calls running have no more left than g says. *)
Bounded(e, g) ==
    \A s \in Slots :
        e[s].number # 0 /\ e[s].test = g.test /\ g.text = InProgress =>
            (SelfTestPercRemaining(e[s].status) * 10) % 256 <= g.remaining

(* This holds of the log of the drive and of the log in hand, against the  *)
(* last report and against the status in hand.                             *)
BoundInv ==
    /\ Bounded(ring, shown.general) /\ Bounded(sl.entries, shown.general)
    /\ next \in {2, 3} => Bounded(ring, General(sv.exec, sv.test))
    /\ next = 3 => Bounded(sl.entries, General(sv.exec, sv.test))
    /\ EndsBelow(shown.general, shown.rows)

(* No entry is about a test that is still running.                         *)
LEMMA RunningNotLogged ==
    ASSUME IInv, LogInv
    PROVE  Bounded(ring, Now)
<1>0. /\ RingInv(ring, recent, total) /\ total \in Nat /\ exec \in 0 .. 255
      /\ StatusByte(InProgress, 0) \in Nat
  BY DEF IInv, DriveInv, RingInv, LogInv, StatusInv, StatusByte, InProgress
<1> SUFFICES ASSUME NEW s \in Slots, ring[s].number # 0,
                    ring[s].test = Now.test, Now.text = InProgress
             PROVE  FALSE
  BY DEF Bounded
<1>1. Text(exec) = InProgress /\ ring[s].test = SubjectTest
  BY <1>0, GeneralFields DEF Now
<1>2. running # 0
  BY <1>0, <1>1, TextOfStatus DEF LogInv, StatusInv
<1>3. ring[s].test = total + 1
  BY <1>1, <1>2 DEF SubjectTest
<1>4. ring[s].test \in 1 .. total
  BY <1>0, RingHoldsLastTests
<1> QED BY <1>0, <1>3, <1>4

(* The entry of a test that ends takes over what was left of it.           *)
LEMMA EndKeepsBound ==
    ASSUME IInv, LogInv, NEW q \in Results, EndTest(q), NEW g,
           Precedes(g, Now), Bounded(ring, g)
    PROVE  Bounded(ring', g)
<1> DEFINE slot == IF recent = Size THEN 1 ELSE recent + 1
           status == StatusByte(q, exec % 16)
           entry == [number |-> running, status |-> status, test |-> total + 1]
<1>0. /\ RingInv(ring, recent, total) /\ recent \in 0 .. Size
      /\ exec \in 0 .. 255 /\ Size \in Nat \ {0} /\ slot \in Slots
  BY SizeAssumption DEF IInv, DriveInv, RingInv, LogInv, StatusInv, Slots
<1>1. ring' = [ring EXCEPT ![slot] = entry] /\ running # 0
  BY DEF EndTest
<1>2. /\ ring'[slot].status = status /\ ring'[slot].test = total + 1
      /\ \A s \in Slots : s # slot => ring'[s] = ring[s]
  BY <1>0, <1>1 DEF RingInv
<1>3. SelfTestPercRemaining(status) = SelfTestPercRemaining(exec)
  <2>1. q \in Nat /\ exec % 16 \in 0 .. 15
    BY <1>0, TestAssumption
  <2> QED BY <2>1 DEF SelfTestPercRemaining, StatusByte
<1>4. /\ Now.test = total + 1
      /\ Now.remaining = (SelfTestPercRemaining(exec) * 10) % 256
      /\ Now.text = InProgress
  <2>1. Text(exec) = InProgress
    BY <1>0, <1>1, TextOfStatus DEF LogInv, StatusInv
  <2> QED BY <1>1, <2>1 DEF Now, General, SubjectTest
<1> HIDE DEF slot, status, entry
<1> SUFFICES ASSUME NEW s \in Slots, ring'[s].number # 0,
                    ring'[s].test = g.test, g.text = InProgress
             PROVE  (SelfTestPercRemaining(ring'[s].status) * 10) % 256
                        <= g.remaining
  BY DEF Bounded
<1>5. CASE s = slot
  <2>1. g.test = Now.test
    BY <1>2, <1>4, <1>5
  <2>2. Now.remaining <= g.remaining
    BY <1>4, <2>1 DEF Precedes
  <2> QED BY <1>2, <1>3, <1>4, <1>5, <2>2
<1>6. CASE s # slot
  <2>1. ring'[s] = ring[s]
    BY <1>2, <1>6
  <2> QED BY <2>1 DEF Bounded
<1> QED BY <1>5, <1>6

(* An empty log bounds nothing.                                            *)
LEMMA NoLogBounded == \A g : Bounded(NoLog.entries, g)
BY DEF Bounded, NoLog, Empty

(* The rows of a log have what its entries have.                           *)
LEMMA RowsBounded ==
    ASSUME NEW g, Bounded(sl.entries, g)
    PROVE  EndsBelow(g, printSelfTestLog(sl))
BY DEF EndsBelow, Bounded, printSelfTestLog, Listed

(* The bound holds in every reachable state.                               *)
THEOREM BoundInvariance == Spec => []BoundInv
<1>1. Init => BoundInv
  BY DEF Init, BoundInv, Bounded, EndsBelow, NoLog, NoReport, Empty
<1>2. IInv /\ LogInv /\ ForwardInv /\ BoundInv /\ [Next]_vars => BoundInv'
  <2> SUFFICES ASSUME IInv, LogInv, ForwardInv, BoundInv, [Next]_vars
               PROVE  BoundInv'
    OBVIOUS
  <2> DEFINE g == General(sv.exec, sv.test)
  <2>0. next \in 1 .. 3
    BY DEF LogInv, StatusInv
  <2>1. CASE UNCHANGED <<ring, next, sv, sl, shown>>
    BY <2>1 DEF BoundInv, Bounded, General, Text, EndsBelow
  <2>2. ASSUME NEW q \in Results, EndTest(q)
        PROVE  BoundInv'
    <3>1. UNCHANGED <<next, sv, sl, shown>>
      BY <2>2 DEF EndTest
    <3>2. Bounded(ring', shown.general)
      BY <2>2, EndKeepsBound DEF ForwardInv, BoundInv
    <3>3. next \in {2, 3} => Bounded(ring', g)
      BY <2>2, EndKeepsBound DEF ForwardInv, BoundInv
    <3> QED BY <3>1, <3>2, <3>3 DEF BoundInv, Bounded, General, Text, EndsBelow
  <2>3. CASE SmartReadData
    <3>1. /\ next' = 2 /\ UNCHANGED <<driveVars, sl, shown>>
          /\ sv'.exec = exec /\ sv'.test = SubjectTest
      BY <2>0, <2>3, Positions DEF SmartReadData
    <3>2. Bounded(ring, General(sv'.exec, sv'.test))
      BY <3>1, RunningNotLogged DEF Now
    <3> QED BY <3>1, <3>2 DEF BoundInv, Bounded, General, Text, EndsBelow,
                 driveVars
  <2>4. CASE ReadSelfTestLog
    <3>1. /\ next = 2 /\ next' = 3 /\ UNCHANGED <<driveVars, sv, shown>>
          /\ sl'.entries = ring \/ sl' = NoLog
      BY <2>0, <2>4, Positions DEF ReadSelfTestLog
    <3>2. Bounded(sl'.entries, shown.general) /\ Bounded(sl'.entries, g)
      BY <3>1, NoLogBounded DEF BoundInv
    <3> QED BY <3>1, <3>2 DEF BoundInv, Bounded, General, Text, EndsBelow,
                 driveVars
  <2>5. CASE PrintReport
    <3>1. /\ next = 3 /\ next' = 1 /\ UNCHANGED driveVars /\ sl' = NoLog
          /\ shown'.general = g /\ shown'.rows = printSelfTestLog(sl)
      BY <2>0, <2>5, Positions, GeneralPrinted DEF PrintReport
    <3>2. Bounded(ring, g) /\ EndsBelow(g, printSelfTestLog(sl))
      BY <3>1, RowsBounded DEF BoundInv
    <3>3. Bounded(sl'.entries, g)
      BY <3>1, NoLogBounded
    <3> HIDE DEF g
    <3> QED BY <3>1, <3>2, <3>3 DEF BoundInv, Bounded, EndsBelow, driveVars
  <2> QED BY <2>1, <2>2, <2>3, <2>4, <2>5 DEF Next, StartTest, Progress, vars,
           driveVars
<1> QED BY <1>1, <1>2, RingInvariance, LogInvariance, ForwardInvariance, PTL
        DEF Spec

(* The percentage of a running test never rises from one report to a later *)
(* one, a test reported as ended is never reported as running again, and   *)
(* its row has no more left than any report said while it ran.             *)
THEOREM ProgressForward == Spec => ProgressOnlyForward
<1>1. LogInv /\ ForwardInv /\ BoundInv /\ [Next]_vars =>
         [/\ RunsOn(shown.general, shown'.general)
          /\ EndsBelow(shown.general, shown'.rows)]_vars
  <2> SUFFICES ASSUME LogInv, ForwardInv, BoundInv, [Next]_vars
               PROVE  /\ RunsOn(shown.general, shown'.general)
                      /\ EndsBelow(shown.general, shown'.rows)
    OBVIOUS
  <2>1. CASE UNCHANGED shown
    BY <2>1 DEF ForwardInv, BoundInv, Precedes, RunsOn, EndsBelow
  <2>2. CASE PrintReport
    <3>1. /\ next = 3 /\ shown'.general = General(sv.exec, sv.test)
          /\ shown'.rows = printSelfTestLog(sl)
      BY <2>2, Positions, GeneralPrinted DEF LogInv, StatusInv, PrintReport
    <3>2. Precedes(shown.general, shown'.general)
      BY <3>1 DEF ForwardInv
    <3>3. RunsOn(shown.general, shown'.general)
      BY <3>2 DEF Precedes, RunsOn
    <3>4. EndsBelow(shown.general, shown'.rows)
      BY <3>1, RowsBounded DEF BoundInv
    <3> QED BY <3>3, <3>4
  <2> QED BY <2>1, <2>2 DEF Next, StartTest, Progress, EndTest, SmartReadData,
           ReadSelfTestLog, vars
<1> QED BY <1>1, LogInvariance, ForwardInvariance, BoundInvariance, PTL
        DEF Spec, ProgressOnlyForward
=============================================================================
